--------------------------- MODULE RelayDatabase ---------------------------
(***************************************************************************)
(* The relay database: the bucket tree of src/storage/trees.c and its      *)
(* loading from the relay file by src/storage/database.c, which happens    *)
(* before any other thread runs.                                           *)
(*                                                                         *)
(* A name is its sequence of labels.  domain_rev turns it round, so that   *)
(* the tree branches at the top-level label first; a tree node is known by *)
(* the path of labels that leads to it, an element by the path that ends   *)
(* in its own label.  A node keeps its elements in one list and, once it   *)
(* has more than HashSwitchThreshold of them, in hash buckets.             *)
(***************************************************************************)
EXTENDS Integers, Sequences, FiniteSets, SequencesExt

CONSTANTS Names,                \* the names that may be in the file or asked
          Types, Datas,         \* A and AAAA; rdata
          Lower,                \* str_lower on labels
          Hash, Buckets,        \* rr_hash(label) % HASH_BUCKET_SIZE
          HashSwitchThreshold,  \* HASH_SWITCH_THRESHOLD
          RRCntMax,             \* RR_CNT_MAX
          LongNames,            \* names format_domain makes too long
          Lines,                \* the lines a file may have: [addr, name]
          LongLines,            \* those of more than 2048 characters
          Missing, BadAddr,     \* a field that is not there; no IP address
          Garbage,              \* what the buffers may hold at the start
          MaxLines              \* bound: lines in the file

Labels == DOMAIN Lower
Addresses == [type : Types, data : Datas]

ASSUME DatabaseAssumption ==
    /\ IsFiniteSet(Labels)
    /\ Lower \in [Labels -> Labels] /\ \A l \in Labels : Lower[Lower[l]] = Lower[l]
    /\ Hash \in [Labels -> Buckets]
    /\ Names \subseteq Seq(Labels) \ {<<>>}
    /\ Missing # BadAddr
    /\ {Missing, BadAddr} \cap Addresses = {}
    /\ \A line \in Lines : /\ line.addr \in Addresses \cup {Missing, BadAddr}
                           /\ line.name = Missing \/ line.name \in Seq(Labels)
    /\ \A g \in Garbage : /\ g.addr \in Addresses \cup {BadAddr}
                          /\ g.name # Missing /\ g.name \in Seq(Labels)
    /\ HashSwitchThreshold \in Nat
    /\ RRCntMax \in Nat \ {0}
    /\ LongLines \subseteq Lines
    /\ MaxLines \in Nat

VARIABLES tree,             \* path -> tree_node
          data,             \* path of an element -> type -> records
          ipbuf, domainbuf, \* the buffers that sscanf fills
          nread,            \* the number of lines read
          seen              \* history: the lines that were read

vars == <<tree, data, ipbuf, domainbuf, nread, seen>>

domain_rev(n) == Reverse(n)
UpTo(rev, k) == SubSeq(rev, 1, k)

-----------------------------------------------------------------------------
(* struct tree_node *)

create_tree_node == [type |-> "list", size |-> 0, list |-> <<>>,
                     bucket |-> [b \in Buckets |-> <<>>]]

tree_node_find(tn, label) ==
    IF tn.type = "list" THEN Contains(tn.list, label)
    ELSE Contains(tn.bucket[Hash[label]], label)

\* The positions in K, the last one first.
Backwards(K) ==
    [i \in 1..Cardinality(K) |-> CHOOSE k \in K : Cardinality({j \in K : j >= k}) = i]

\* The switch to buckets takes the nodes off the list one by one and puts each
\* at the head of its bucket, so that a bucket has its labels in reverse order.
Moved(list, K) == LET at == Backwards(K) IN [i \in DOMAIN at |-> list[at[i]]]

\* Mutant: the switch to buckets moves all nodes but the new one.
Rehashed_DropsNew(list) ==
    [b \in Buckets |-> Moved(list, {i \in 2..Len(list) : Hash[list[i]] = b})]
Rehashed(list) ==
    [b \in Buckets |-> Moved(list, {i \in 1..Len(list) : Hash[list[i]] = b})]

tree_node_insert(tn, label) ==
    IF tn.type = "bucket"
    THEN [tn EXCEPT !.size = tn.size + 1,
                    !.bucket[Hash[label]] = <<label>> \o @]
    ELSE LET list == <<label>> \o tn.list IN
         IF tn.size + 1 > HashSwitchThreshold
         THEN [type |-> "bucket", size |-> tn.size + 1, list |-> <<>>,
               bucket |-> Rehashed(list)]
         ELSE [tn EXCEPT !.size = tn.size + 1, !.list = list]

-----------------------------------------------------------------------------
(* struct bucket_tree *)

\* The element at level k of rev is reached from the root.
Reached(rev, k) ==
    \A j \in 1..k : /\ UpTo(rev, j - 1) \in DOMAIN tree
                    /\ tree_node_find(tree[UpTo(rev, j - 1)], rev[j])

tree_search(rev, t) ==
    IF Reached(rev, Len(rev)) THEN data[rev][t] ELSE <<>>

NoRecords == [t \in Types |-> <<>>]

\* The levels of the name where tree_insert has to make an element.
NewLevels(rev) == {k \in 1..Len(rev) : ~Reached(rev, k)}

\* The nodes along the name: one that was reached gets the new label, a child
\* of a new element starts empty.
Grown(rev) ==
    LET fresh == {UpTo(rev, k - 1) : k \in {j \in NewLevels(rev) : j - 1 \in NewLevels(rev)}}
        along == {UpTo(rev, k - 1) : k \in 1..Len(rev)}
    IN [p \in DOMAIN tree \cup along |->
          LET k == Len(p) + 1
              old == IF p \in DOMAIN tree \ fresh THEN tree[p] ELSE create_tree_node
          IN IF p \in along /\ k \in NewLevels(rev)
             THEN tree_node_insert(old, rev[k]) ELSE old]

\* Mutant: the limit on records of one kind is not tested.
Accepts_NoLimit(old, d) == ~Contains(old, d)
\* Mutant: the test for a record that is there already is missing.
Accepts_Duplicates(old, d) == Len(old) < RRCntMax
Accepts(old, d) == Len(old) < RRCntMax /\ ~Contains(old, d)

tree_insert(rev, t, d) ==
    LET new == {UpTo(rev, k) : k \in NewLevels(rev)}
        kept == [p \in DOMAIN data \cup new |-> IF p \in new THEN NoRecords ELSE data[p]]
    IN
    \/ /\ Accepts(kept[rev][t], d)
       /\ tree' = Grown(rev)
       /\ data' = [kept EXCEPT ![rev][t] = Append(@, d)]
    \/ /\ ~Accepts(kept[rev][t], d)
       /\ UNCHANGED <<tree, data>>

-----------------------------------------------------------------------------
(* init_database: one line of the file.  sscanf leaves a buffer alone when its
   field is missing, and strtok leaves only the first label in domainbuf. *)

str_lower(n) == [i \in DOMAIN n |-> Lower[n[i]]]
FirstLabel(n) == IF n = <<>> THEN <<>> ELSE <<Head(n)>>

\* Mutant: what is no address leaves the buffer with the address before it.
Address_Kept(line) == IF line.addr \in {Missing, BadAddr} THEN ipbuf ELSE line.addr
Address(line) == IF line.addr = Missing THEN ipbuf ELSE line.addr

ReadLine(line) ==
    LET addr == Address(line)
        name == str_lower(IF line.name = Missing THEN domainbuf ELSE line.name)
    IN
    /\ nread < MaxLines
    /\ line \notin LongLines
    /\ nread' = nread + 1
    /\ seen' = seen \cup {line}
    /\ ipbuf' = addr
    /\ domainbuf' = IF addr = BadAddr THEN name ELSE FirstLabel(name)
    /\ \/ /\ addr # BadAddr /\ name \notin LongNames \cup {<<>>}
          /\ tree_insert(domain_rev(name), addr.type, addr.data)
       \/ /\ addr = BadAddr \/ name \in LongNames \cup {<<>>}
          /\ UNCHANGED <<tree, data>>

SkipLine(line) ==
    /\ nread < MaxLines
    /\ line \in LongLines
    /\ nread' = nread + 1
    /\ seen' = seen \cup {line}
    /\ UNCHANGED <<tree, data, ipbuf, domainbuf>>

tree_init == tree = [p \in {<<>>} |-> create_tree_node] /\ data = [p \in {} |-> NoRecords]

\* The buffers are not initialised: before the first line they hold anything.
Init ==
    /\ tree_init
    /\ \E g \in Garbage : ipbuf = g.addr /\ domainbuf = g.name
    /\ nread = 0
    /\ seen = {}

Next == \E line \in Lines : ReadLine(line) \/ SkipLine(line)

Spec == Init /\ [][Next]_vars

select_database(n, t) == tree_search(domain_rev(n), t)

-----------------------------------------------------------------------------
(* Properties *)

Kept(tn) == {l \in Labels : tree_node_find(tn, l)}

TreeNodes == [type : {"list", "bucket"}, size : Nat, list : Seq(Labels),
              bucket : [Buckets -> Seq(Labels)]]

\* Nodes and elements are at paths of labels; an element has no more records of
\* a type than its array data[RR_ARR_LEN][RR_CNT_MAX] holds.
TypeOK ==
    /\ DOMAIN tree \subseteq Seq(Labels) /\ tree \in [DOMAIN tree -> TreeNodes]
    /\ DOMAIN data \subseteq Seq(Labels) /\ data \in [DOMAIN data -> [Types -> Seq(Datas)]]
    /\ \A p \in DOMAIN data, t \in Types : Len(data[p][t]) <= RRCntMax
    /\ ipbuf \in Addresses \cup {BadAddr}
    /\ domainbuf \in Seq(Labels)
    /\ nread \in 0..MaxLines
    /\ seen \subseteq Lines

\* A node has each label once in its chain, finds them all again, counts them in
\* size, and uses buckets exactly when they are more than the threshold.
NodeConsistent(tn) ==
    /\ IsInjective(tn.list) /\ \A b \in Buckets : IsInjective(tn.bucket[b])
    /\ \A b \in Buckets : \A i \in DOMAIN tn.bucket[b] : Hash[tn.bucket[b][i]] = b
    /\ tn.size = Cardinality(Kept(tn))
    /\ (tn.type = "bucket") <=> (tn.size > HashSwitchThreshold)
    /\ IF tn.type = "bucket" THEN tn.list = <<>>
       ELSE \A b \in Buckets : tn.bucket[b] = <<>>

\* Every node is consistent, across insertions and the switch to buckets; there
\* is an element for every label of a node and for nothing else; no node but the
\* root is without an element above it.
TreeConsistent ==
    /\ \A p \in DOMAIN tree : NodeConsistent(tree[p]) /\ (p = <<>> \/ p \in DOMAIN data)
    /\ DOMAIN data = UNION {{Append(p, l) : l \in Kept(tree[p])} : p \in DOMAIN tree}

Found == [n \in Names |-> [t \in Types |-> select_database(n, t)]]

\* Lookups in the tree are lookups in a table of names: no insertion hides,
\* changes or invents the records of another name, across the switch from
\* list to buckets, colliding hashes and names that are prefixes of others.
Map == INSTANCE RelayMap WITH records <- Found
ImplementsMap == Map!Spec

Named(line, n) == line.name # Missing /\ str_lower(line.name) = n
Starts(line, n) == line.name # Missing /\ n = FirstLabel(str_lower(line.name))

FromFile(n, addr) ==
    \/ \E line \in seen : line.addr = addr /\ Named(line, n)
    \/ /\ \E line \in seen : Missing \in {line.addr, line.name}
       /\ \E line \in seen \cup Garbage : line.addr = addr
       /\ \E line \in seen \cup Garbage : Named(line, n) \/ Starts(line, n)

\* Every record that can be found stands in a line of the file, with its name
\* and its address (database.h:21, "init database from relay file"), as long as
\* no line has a field missing.  After such a line a record may pair fields left
\* over from other lines, or from before the first: still its address is one of
\* theirs and its name is one of theirs or the first label of one.
RecordsComeFromFile ==
    \A n \in Names, t \in Types :
        \A i \in DOMAIN select_database(n, t) :
            FromFile(n, [type |-> t, data |-> select_database(n, t)[i]])
=============================================================================
