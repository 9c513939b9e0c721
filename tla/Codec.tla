------------------------------- MODULE Codec -------------------------------
(***************************************************************************)
(* A packet's way through message_from_buf, what send_question             *)
(* (src/socket/client.c) does to it, and message_to_u8.  Some client or    *)
(* server writes a message, with or without pointers to names it has       *)
(* written before; it is read one entry at a time, and sent on: a request  *)
(* to the external server, a response to the client.                       *)
(*                                                                         *)
(*   phase  write    the sender writes it     read    its entries are read *)
(*          header   it has arrived           done    it has been read     *)
(*          refused  message_from_buf is -1   sent    it has been sent on  *)
(***************************************************************************)
EXTENDS Message, FiniteSets

CONSTANTS Headers,           \* [id, misc1, misc2]
          Questions,         \* [name, type, class]
          Records,           \* section -> [name, type, class, ttl, pre, names, post]
          OtherIds,          \* ids a message is sent on with: new_id, old_id
          MaxEntries,        \* bound: entries of a message
          ClientBufferSize   \* CLIENT_BUFFER_SIZE

VARIABLES phase,
          wire, nrecv,     \* the packet and its length
          known,           \* where the sender has written which name
          truth, starts,   \* history: the message, where its entries begin, the end
          pos, msg,        \* bufptr - buf, the message read so far
          out              \* sendbuf

vars == <<phase, wire, nrecv, known, truth, starts, pos, msg, out>>

EmptyMessage == [header |-> [id |-> 0, misc1 |-> 0, misc2 |-> 0, count |-> [s \in 1..4 |-> 0]],
                 section |-> [s \in 1..4 |-> <<>>]]

-----------------------------------------------------------------------------
(* The sender (external).  A writer w is the bytes and the known names. *)

U16(n) == <<n \div 256, n % 256>>
U32(n) == U16(n \div 65536) \o U16(n % 65536)
Label(l) == <<Len(l)>> \o l
Literal(labels) == FlattenSeq([i \in DOMAIN labels |-> Label(labels[i])])

Octets == {n \in Nat : n < 256}
Words == {n \in Nat : n < 65536}
Longs == {n \in Nat : n \div 65536 \in Words}
LabelBytes == {n \in Nat : n > 0 /\ n < 192}

\* A byte of a label is neither NUL nor like a pointer; an expanded name fits
\* into domainbuf, which read_domain does not test.
Names ==
    {n \in Seq(Seq(LabelBytes)) :
       /\ \A i \in DOMAIN n : Len(n[i]) > 0 /\ Len(n[i]) < 64
       /\ Len(n) < PointerMax
       /\ Len(Literal(n)) < DOMAIN_BUF_LEN}
QuestionFormat == [name : Names, type : Words, class : Words]
RecordFormat == [name : Names, type : Words, class : Words, ttl : Longs,
                 pre : Seq(Octets), names : Seq(Names), post : Seq(Octets)]

\* What is between the fixed part of a record and the next entry.
DataOf(r) ==
    r.pre \o FlattenSeq([i \in DOMAIN r.names |-> Literal(r.names[i]) \o <<0>>]) \o r.post

\* The parts of the data are those of the type (RFC 1035), and fit into rrbuf.
WellFormed(r) ==
    /\ r \in RecordFormat
    /\ Len(DataOf(r)) <= RR_BUF_SIZE
    /\ CASE r.type = RRTYPE_SOA -> r.pre = <<>> /\ Len(r.names) = 2 /\ Len(r.post) = 20
         [] r.type = RRTYPE_MX -> Len(r.pre) = 2 /\ Len(r.names) = 1 /\ r.post = <<>>
         [] r.type \in {RRTYPE_NS, RRTYPE_PTR, RRTYPE_CNAME} ->
              r.pre = <<>> /\ Len(r.names) = 1 /\ r.post = <<>>
         [] OTHER -> r.names = <<>>

ASSUME CodecAssumption ==
    /\ Headers \subseteq [id : Words, misc1 : Octets, misc2 : Octets]
    /\ Questions \subseteq QuestionFormat
    /\ \A s \in 2..4 : \A r \in Records[s] : WellFormed(r)
    /\ MaxEntries \in Nat \ {0} /\ MaxEntries + 1 \in Words
    /\ OtherIds \subseteq Words /\ ClientBufferSize \in Words

Put(w, bytes) == [w EXCEPT !.bytes = @ \o bytes]

PutHeader(h) ==
    [bytes |-> U16(h.id) \o <<h.misc1, h.misc2>>
                \o U16(h.count[1]) \o U16(h.count[2]) \o U16(h.count[3]) \o U16(h.count[4]),
     known |-> {}]

\* The labels, up to the longest rest that is known already if it is to be
\* compressed; the places of the new rests are known from now on.
PutName(w, labels, compress) ==
    LET n == Len(labels)
        Rest(i) == SubSeq(labels, i, n)
        places(i) == {k \in w.known : k.name = Rest(i) /\ k.at < 16384}
        cut == IF compress THEN Min({n + 1} \cup {i \in 1..n : places(i) # {}}) ELSE n + 1
        literal == Literal(SubSeq(labels, 1, cut - 1))
        tail == IF cut > n THEN <<0>>
                ELSE U16(49152 + (CHOOSE k \in places(cut) : TRUE).at)
        new == {[name |-> Rest(i),
                 at |-> Len(w.bytes) + Len(Literal(SubSeq(labels, 1, i - 1)))] : i \in 1..(cut - 1)}
    IN [bytes |-> w.bytes \o literal \o tail, known |-> w.known \cup new]

PutQuestion(w, q, compress) ==
    Put(PutName(w, q.name, compress), U16(q.type) \o U16(q.class))

PutNames(w, names, compress) ==
    LET put[i \in 0..Len(names)] ==
          IF i = 0 THEN w ELSE PutName(put[i - 1], names[i], compress)
    IN put[Len(names)]

\* rdlength is written before what it counts.
PutRecord(w, r, compress) ==
    LET named == PutName(w, r.name, compress)
        fixed(n) == Put(named, U16(r.type) \o U16(r.class) \o U32(r.ttl) \o U16(n))
        whole(n) == Put(PutNames(Put(fixed(n), r.pre), r.names, compress), r.post)
    IN whole(Len(whole(0).bytes) - Len(fixed(0).bytes))

\* One more entry; sections are written in their order.
Write(s, e, compress) ==
    LET w == [bytes |-> wire, known |-> known]
        new == IF s = 1 THEN PutQuestion(w, e, compress) ELSE PutRecord(w, e, compress)
    IN
    /\ phase = "write"
    /\ Len(starts) <= MaxEntries
    /\ \A t \in (s + 1)..4 : truth.section[t] = <<>>
    /\ wire' = new.bytes
    /\ known' = new.known
    /\ starts' = Append(starts, Len(wire'))
    /\ truth' = [truth EXCEPT !.header.count[s] = @ + 1, !.section[s] = Append(@, e)]
    /\ UNCHANGED <<phase, nrecv, pos, msg, out>>

\* The packet arrives: whole, cut off by the buffer, or as less than a header.
Deliver(h, size) ==
    /\ phase = "write"
    /\ phase' = "header"
    /\ truth' = [truth EXCEPT !.header = [id |-> h.id, misc1 |-> h.misc1, misc2 |-> h.misc2,
                                          count |-> truth.header.count]]
    /\ nrecv' = size
    /\ wire' = SubSeq(PutHeader(truth'.header).bytes \o SubSeq(wire, HeaderSize + 1, Len(wire)),
                       1, size)
    /\ UNCHANGED <<known, starts, pos, msg, out>>

-----------------------------------------------------------------------------
(* message_from_buf *)

\* The header is in the message before the TC bit is looked at.
ReadHeader ==
    /\ phase = "header"
    /\ \/ /\ nrecv < HeaderSize
          /\ phase' = "refused"
          /\ UNCHANGED <<msg, pos>>
       \/ /\ nrecv >= HeaderSize
          /\ msg' = [msg EXCEPT !.header = msg_header_from_buf(wire)]
          /\ pos' = HeaderSize
          /\ phase' = IF _TC(msg'.header.misc1) = 1 THEN "refused" ELSE "read"
    /\ UNCHANGED <<wire, nrecv, known, truth, starts, out>>

\* The sections with entries to be read.
Unread == {s \in 1..4 : Len(msg.section[s]) < msg.header.count[s]}

ReadEntry(s, read) ==
    /\ phase = "read"
    /\ Unread # {} /\ s = Min(Unread)
    /\ msg' = [msg EXCEPT !.section[s] = Append(@, read.entry)]
    /\ pos' = read.next
    /\ UNCHANGED <<phase, wire, nrecv, known, truth, starts, out>>

ReadQuestion == ReadEntry(1, msg_question_from_buf(wire, pos))
ReadRecord(s) == ReadEntry(s, msg_rr_from_buf(wire, pos))

ReadDone ==
    /\ phase = "read"
    /\ Unread = {}
    /\ phase' = "done"
    /\ UNCHANGED <<wire, nrecv, known, truth, starts, pos, msg, out>>

-----------------------------------------------------------------------------
(* Sending it on *)

NewOpt == [name |-> <<>>, type |-> RRTYPE_OPT, class |-> ClientBufferSize, ttl |-> 0,
           rdlength |-> 0, rdata |-> <<>>]

Opts(m) == {i \in DOMAIN m.section[4] : m.section[4][i].type = RRTYPE_OPT}

\* Mutant: the record that is added is not counted.
WithEdns_Uncounted(m) ==
    IF Opts(m) = {} THEN [m EXCEPT !.section[4] = Append(@, NewOpt)]
    ELSE [m EXCEPT !.section[4][Min(Opts(m))].ttl = ClientBufferSize]
\* A request without an OPT record gets one; in the first one that is there the
\* size is put into the ttl.
WithEdns(m) ==
    IF Opts(m) = {}
    THEN [m EXCEPT !.header.count[4] = @ + 1, !.section[4] = Append(@, NewOpt)]
    ELSE [m EXCEPT !.section[4][Min(Opts(m))].ttl = ClientBufferSize]

WithId(m, id) == [m EXCEPT !.header.id = id]

\* A request goes out under new_id, and has its own id again after that; in a
\* response the id of the client is put back.
SendOn(id) ==
    LET request == _QR(msg.header.misc1) = 0
        m == IF request THEN WithEdns(msg) ELSE msg
    IN
    /\ phase = "done"
    /\ out' = message_to_u8(WithId(m, id))
    /\ msg' = IF request THEN m ELSE WithId(m, id)
    /\ phase' = "sent"
    /\ UNCHANGED <<wire, nrecv, known, truth, starts, pos>>

-----------------------------------------------------------------------------
Fresh(p, w, n, k, t, st, ps, m, o) ==
    /\ p = "write" /\ w = [i \in 1..HeaderSize |-> 0] /\ n = 0 /\ k = {}
    /\ t = EmptyMessage /\ st = <<HeaderSize>> /\ ps = 0 /\ m = EmptyMessage /\ o = <<>>

Init == Fresh(phase, wire, nrecv, known, truth, starts, pos, msg, out)

NextPacket ==
    /\ phase \in {"sent", "refused"}
    /\ Fresh(phase', wire', nrecv', known', truth', starts', pos', msg', out')

Next ==
    \/ \E q \in Questions, c \in BOOLEAN : Write(1, q, c)
    \/ \E s \in 2..4 : \E r \in Records[s], c \in BOOLEAN : Write(s, r, c)
    \/ \E h \in Headers :
         \E size \in {Len(wire), Len(wire) - 1, HeaderSize - 1} : Deliver(h, size)
    \/ ReadHeader \/ ReadQuestion \/ (\E s \in 2..4 : ReadRecord(s)) \/ ReadDone
    \/ (\E id \in OtherIds : SendOn(id)) \/ NextPacket

Spec == Init /\ [][Next]_vars

-----------------------------------------------------------------------------
(* Properties *)

AtMostCounted(m) == \A s \in 1..4 : Len(m.section[s]) <= m.header.count[s]
AsCounted(m) == \A s \in 1..4 : Len(m.section[s]) = m.header.count[s]

\* What is on the wire is bytes, before and after.  No array of the message is
\* longer than its count in the header, and from the end of message_from_buf on
\* each is as long as the count says, also after send_question has added to it.
TypeOK ==
    /\ phase \in {"write", "header", "read", "done", "refused", "sent"}
    /\ wire \in Seq(Octets) /\ out \in Seq(Octets)
    /\ nrecv \in Nat /\ pos \in Nat
    /\ AtMostCounted(msg) /\ (phase \in {"done", "sent"} => AsCounted(msg))

\* The entry of section s in memory that the sender means by e.
Plain(s, e) ==
    IF s = 1 THEN [e EXCEPT !.name = Literal(@)]
    ELSE [name |-> Literal(e.name), type |-> e.type, class |-> e.class, ttl |-> e.ttl,
          rdlength |-> Len(DataOf(e)), rdata |-> DataOf(e)]

\* The entry read is the one that was meant, but for the five numbers at the end of
\* an SOA record: they are copied from behind their place.
AsMeant(s, read, e) ==
    LET meant == Plain(s, e)
        UpToNumbers(rr) == [rr EXCEPT !.rdata = SubSeq(@, 1, Len(meant.rdata) - 20)]
    IN IF s # 1 /\ e.type = RRTYPE_SOA THEN UpToNumbers(read) = UpToNumbers(meant)
       ELSE read = meant

\* The number of entries of m before section s.
Before(m, s) ==
    LET n(t) == IF t < s THEN Len(m.section[t]) ELSE 0 IN n(1) + n(2) + n(3) + n(4)

\* Whatever is compressed and however, the entries are read as they were meant,
\* of an SOA record all but its numbers, and after each of them the next is
\* looked for where it begins: expanding a name does not move the reader.  When
\* the packet was cut off this holds of the entries that have arrived; the others
\* are read from zero bytes.
ReadAsWritten ==
    phase \in {"read", "done"} =>
        /\ msg.header = truth.header
        /\ \A s \in 1..4 :
             /\ Len(msg.section[s]) <= Len(truth.section[s])
             /\ \A i \in 1..Len(msg.section[s]) :
                  starts[Before(truth, s) + i + 1] <= nrecv =>
                      AsMeant(s, msg.section[s][i], truth.section[s][i])
        /\ LET next == starts[Before(msg, 5) + 1] IN next <= nrecv => pos = next

LegalNames ==
    \A s \in 1..4 : \A i \in DOMAIN truth.section[s] :
        Len(Literal(truth.section[s][i].name)) < DomainLenMax

\* The message m as its sender would write it without pointers.
Uncompressed(m) ==
    LET nothing == [bytes |-> <<>>, known |-> {}]
        Alone(s, e) == (IF s = 1 THEN PutQuestion(nothing, e, FALSE)
                        ELSE PutRecord(nothing, e, FALSE)).bytes
        Section(s) == FlattenSeq([i \in DOMAIN m.section[s] |-> Alone(s, m.section[s][i])])
    IN PutHeader(m.header).bytes \o Section(1) \o Section(2) \o Section(3) \o Section(4)

\* The request that is meant when m is sent on (RFC 2671): it has an OPT record
\* with the size of the buffer in the class, and what the sender has put into
\* the ttl of its own, the version and the flags, stays.
MeantOpt == [name |-> <<>>, type |-> RRTYPE_OPT, class |-> ClientBufferSize, ttl |-> 0,
             pre |-> <<>>, names |-> <<>>, post |-> <<>>]
MeantWithEdns(m) ==
    IF Opts(m) = {}
    THEN [m EXCEPT !.header.count[4] = @ + 1, !.section[4] = Append(@, MeantOpt)]
    ELSE [m EXCEPT !.section[4][Min(Opts(m))].class = ClientBufferSize]

NoSoa == \A s \in 2..4 : \A i \in DOMAIN truth.section[s] : truth.section[s][i].type # RRTYPE_SOA

\* A message that has arrived whole, is legal and has been read as meant has been
\* sent on, as m.
SentLegal == phase = "sent" /\ LegalNames /\ NoSoa /\ nrecv = Last(starts)
SentAs(m) == \E id \in OtherIds : out = Uncompressed(WithId(m, id))

\* A whole message without SOA records whose names are no longer than allowed is
\* sent on as its sender would write it without pointers: a response as it is, a
\* request that has no OPT record with one.
SentOnAsMeant ==
    SentLegal =>
        IF _QR(truth.header.misc1) = 0
        THEN Opts(truth) = {} => SentAs(MeantWithEdns(truth))
        ELSE SentAs(truth)

\* README.md:12, "EDNS(RFC2671) (upstream, version 0)": every request tells the
\* external server in the class of an OPT record how much the buffer holds.
EdnsAsMeant ==
    SentLegal /\ _QR(truth.header.misc1) = 0 => SentAs(MeantWithEdns(truth))
=============================================================================
