------------------------------ MODULE Message ------------------------------
(***************************************************************************)
(* src/storage/message.c: how a message is read from the bytes of a packet *)
(* and written to bytes again.  A buffer is a sequence of bytes that is    *)
(* zero beyond its end (the buffers are cleared before they are filled);   *)
(* positions count from 0.  A name in memory is the bytes of its labels,   *)
(* each after its length, without the NUL at the end.                      *)
(***************************************************************************)
EXTENDS Integers, Sequences, SequencesExt

CONSTANTS DomainLenMax,  \* DOMAIN_LEN_MAX
          PointerMax     \* bound: pointers followed within one name

ASSUME MessageAssumption == DomainLenMax \in Nat \ {0} /\ PointerMax \in Nat

RRTYPE_A == 1
RRTYPE_NS == 2
RRTYPE_CNAME == 5
RRTYPE_SOA == 6
RRTYPE_PTR == 12
RRTYPE_MX == 15
RRTYPE_TXT == 16
RRTYPE_OPT == 41

HeaderSize == 12
DOMAIN_BUF_LEN == 512
RR_BUF_SIZE == 512

-----------------------------------------------------------------------------
(* Numbers in network byte order *)

Byte(b, p) == IF p < Len(b) THEN b[p + 1] ELSE 0
Bytes(b, p, n) == [i \in 1..n |-> Byte(b, p + i - 1)]

u8n_to_u16h(b, p) == 256 * Byte(b, p) + Byte(b, p + 1)
u8n_to_u32h(b, p) == 65536 * u8n_to_u16h(b, p) + u8n_to_u16h(b, p + 2)

u16h_to_u8n(h) == <<h \div 256, h % 256>>
u32h_to_u8n(h) == u16h_to_u8n(h \div 65536) \o u16h_to_u8n(h % 65536)

_QR(misc1) == misc1 \div 128
_TC(misc1) == (misc1 \div 2) % 2

-----------------------------------------------------------------------------
(* Reading *)

IsPointer(x) == x >= 192

\* Where the bytes of the name at p end: at the NUL or at a pointer.
NameEnd(b, p) ==
    CHOOSE e \in p..(p + Len(b)) :
        /\ Byte(b, e) = 0 \/ IsPointer(Byte(b, e))
        /\ \A q \in p..(e - 1) : Byte(b, q) # 0 /\ ~IsPointer(Byte(b, q))

\* The name at q, with what up to k pointers lead to.
Expanded(b) ==
    LET name[k \in 0..PointerMax] ==
          [q \in Nat |->
             LET e == NameEnd(b, q) IN
             Bytes(b, q, e - q) \o
               (IF IsPointer(Byte(b, e)) /\ k > 0
                THEN name[k - 1][u8n_to_u16h(b, e) % 16384] ELSE <<>>)]
    IN name

read_domain(b, p) == Expanded(b)[PointerMax][p]

\* Mutant: the second byte of a pointer is not counted.
NameOffset_OneByte(b, p) == NameEnd(b, p) - p + 1
\* The bytes the name takes up at p, which read_domain adds to *_offset.
NameOffset(b, p) ==
    NameEnd(b, p) - p + (IF IsPointer(Byte(b, NameEnd(b, p))) THEN 2 ELSE 1)

msg_header_from_buf(b) ==
    [id |-> u8n_to_u16h(b, 0), misc1 |-> Byte(b, 2), misc2 |-> Byte(b, 3),
     count |-> [s \in 1..4 |-> u8n_to_u16h(b, 2 + 2 * s)]]

msg_question_from_buf(b, p) ==
    LET q == p + NameOffset(b, p) IN
    [entry |-> [name |-> read_domain(b, p), type |-> u8n_to_u16h(b, q),
                class |-> u8n_to_u16h(b, q + 2)],
     next |-> q + 4]

\* In an SOA record buf has moved by mname_offset when it is added again.
RData(b, d, type, rdlength) ==
    CASE type = RRTYPE_SOA ->
           LET d2 == d + NameOffset(b, d) IN
           read_domain(b, d) \o <<0>> \o read_domain(b, d2) \o <<0>>
             \o Bytes(b, d2 + NameOffset(b, d) + NameOffset(b, d2), 20)
      [] type = RRTYPE_MX -> Bytes(b, d, 2) \o read_domain(b, d + 2) \o <<0>>
      [] type \in {RRTYPE_NS, RRTYPE_PTR, RRTYPE_TXT, RRTYPE_CNAME} ->
           read_domain(b, d) \o <<0>>
      [] OTHER -> Bytes(b, d, rdlength)

\* rdlength in memory is real_rdlength, that of the expanded data, a uint16_t.
msg_rr_from_buf(b, p) ==
    LET q == p + NameOffset(b, p)
        type == u8n_to_u16h(b, q)
        rdlength == u8n_to_u16h(b, q + 8)
        rdata == RData(b, q + 10, type, rdlength)
    IN
    [entry |-> [name |-> read_domain(b, p), type |-> type,
                class |-> u8n_to_u16h(b, q + 2), ttl |-> u8n_to_u32h(b, q + 4),
                rdlength |-> Len(rdata) % 65536, rdata |-> rdata],
     next |-> q + 10 + rdlength]

-----------------------------------------------------------------------------
(* Writing *)

\* Mutant: a name of the greatest length is refused.
domain_len_Short(name) == IF Len(name) + 1 >= DomainLenMax THEN -1 ELSE Len(name) + 1
domain_len(name) == IF Len(name) + 1 > DomainLenMax THEN -1 ELSE Len(name) + 1

msg_header_to_u8(h) ==
    u16h_to_u8n(h.id) \o <<h.misc1, h.misc2>>
      \o u16h_to_u8n(h.count[1]) \o u16h_to_u8n(h.count[2])
      \o u16h_to_u8n(h.count[3]) \o u16h_to_u8n(h.count[4])

msg_question_to_u8(q) ==
    q.name \o <<0>> \o u16h_to_u8n(q.type) \o u16h_to_u8n(q.class)

msg_rr_to_u8(rr) ==
    rr.name \o <<0>> \o u16h_to_u8n(rr.type) \o u16h_to_u8n(rr.class)
      \o u32h_to_u8n(rr.ttl) \o u16h_to_u8n(rr.rdlength)
      \o Bytes(rr.rdata, 0, rr.rdlength)

\* The -1 for a name that is too long is added to dest like a length: the next
\* entry begins one byte early.
Written(dest, name, bytes) ==
    IF domain_len(name) = -1 THEN Front(dest) ELSE dest \o bytes

\* The loop over the entries of section s.
SectionWritten(dest, s, entries) ==
    LET written[i \in 0..Len(entries)] ==
          IF i = 0 THEN dest
          ELSE Written(written[i - 1], entries[i].name,
                       IF s = 1 THEN msg_question_to_u8(entries[i]) ELSE msg_rr_to_u8(entries[i]))
    IN written[Len(entries)]

message_to_u8(msg) ==
    LET questions == SectionWritten(msg_header_to_u8(msg.header), 1, msg.section[1])
        answers == SectionWritten(questions, 2, msg.section[2])
        authorities == SectionWritten(answers, 3, msg.section[3])
    IN SectionWritten(authorities, 4, msg.section[4])
=============================================================================
