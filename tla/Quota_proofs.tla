---------------------------- MODULE Quota_proofs ----------------------------
(* Proofs about a world with reactors and quotas (World, Reactor, Quota) and  *)
(* the hash tables below it, for every number of files, ids and entries, and  *)
(* every size of the tables, all primes, keys and values.  First the tables,  *)
(* which behave like maps from keys to values: every operation leads from the *)
(* table of some pairs to the table of others.  Then the rights, the          *)
(* callbacks of the messages in the queues, and with them the counts of       *)
(* dispatches and quotas, and the batches.                                    *)
EXTENDS Quota, FiniteSetTheorems, WellFoundedInduction, FunctionTheorems, SequenceTheorems, TLAPS

-----------------------------------------------------------------------------
(* Hash tables *)

USE HashAssumption DEF HashAssumption

\* spaced_primes_closest finds one of the primes.
LEMMA ClosestIsPrime ==
  ASSUME NEW num \in Nat
  PROVE  Closest(num) \in Primes
<1> DEFINE above == {p \in Primes : p > num}
<1>1. CASE above # {}
  <2> DEFINE less == OpToRel(<, Nat)
  <2>1. less = {ss \in Nat \X Nat : ss[1] < ss[2]}
    BY DEF OpToRel
  <2>2. IsWellFoundedOn(less, Nat)
    BY NatLessThanWellFounded
  <2> HIDE DEF less
  <2>3. PICK p \in above : \A q \in above : ~(<<q, p>> \in less)
    BY <1>1, <2>2, WFMin, above \subseteq Nat, Zenon
  <2>4. ASSUME NEW q \in above
        PROVE  p <= q
    <3>1. <<q, p>> \notin less
      BY <2>3
    <3>2. q \in Nat /\ p \in Nat
      OBVIOUS
    <3>3. ~(q < p)
      BY <2>1, <3>1, <3>2
    <3> QED BY <3>2, <3>3
  <2> QED BY <1>1, <2>4 DEF Closest
<1>2. CASE above = {}
  BY <1>2 DEF Closest
<1> QED BY <1>1, <1>2

LEMMA ClampedIsSize ==
  ASSUME NEW num \in Nat
  PROVE  Clamped(num) \in Nat \ {0}
<1> DEFINE c == Closest(num)
<1>1. c \in Nat \ {0}
  BY ClosestIsPrime
<1> HIDE DEF c
<1> QED BY <1>1 DEF Clamped, c

LEMMA BucketExists ==
  ASSUME NEW key \in Nat, NEW size \in Nat \ {0}
  PROVE  key % size \in 0..(size - 1)
OBVIOUS

\* A table has the pairs it was made of.
LEMMA NodesOfTable ==
  ASSUME NEW P, IsPairs(P), NEW size \in Nat \ {0}
  PROVE  HashNodes(TableOf(size, P)) = P
<1> DEFINE h == TableOf(size, P)
<1>1. \A n \in P : n.key % size \in 0..(size - 1)
  BY BucketExists DEF IsPairs
<1>2. /\ h.size = size
      /\ \A b \in 0..(size - 1) : h.nodes[b] = {n \in P : n.key % size = b}
  BY DEF TableOf
<1> HIDE DEF h
<1>3. HashNodes(h) = P
  BY <1>1, <1>2 DEF HashNodes
<1> QED BY <1>3 DEF h

\* The node of a key.
LEMMA NodesOfKey ==
  ASSUME NEW P, IsPairs(P), NEW size \in Nat \ {0}, NEW key \in Nat
  PROVE  Nodes(TableOf(size, P), key) = {n \in P : n.key = key}
<1> DEFINE h == TableOf(size, P)
<1>1. key % size \in 0..(size - 1)
  BY BucketExists
<1>2. h.size = size /\ h.nodes[key % size] = {n \in P : n.key % size = key % size}
  BY <1>1 DEF TableOf
<1> HIDE DEF h
<1>3. Nodes(h, key) = {n \in P : n.key = key}
  BY <1>2 DEF Nodes
<1> QED BY <1>3 DEF h

\* What HashCreate makes is empty.
THEOREM CreateHolds ==
  ASSUME NEW wanted \in Nat
  PROVE  Holds(HashCreate(wanted), {})
<1> DEFINE size == IF wanted < MinSize THEN MinSize ELSE wanted
<1>1. size \in Nat \ {0}
  OBVIOUS
<1>2. IsPairs({}) /\ Cardinality({}) = 0
  BY FS_EmptySet DEF IsPairs
<1>3. HashCreate(wanted) = TableOf(size, {})
  BY <1>2 DEF HashCreate, TableOf
<1> QED BY <1>1, <1>2, <1>3 DEF Holds

\* A lookup finds the value of a key, and nothing for any other key.
THEOREM LookupFinds ==
  ASSUME NEW h, NEW P, Holds(h, P), NEW key \in Nat
  PROVE  /\ \A n \in P : n.key = key => HashLookup(h, key) = n.value
         /\ (\A n \in P : n.key # key) => HashLookup(h, key) = NULL
<1>1. PICK size \in Nat \ {0} : h = TableOf(size, P)
  BY DEF Holds
<1>2. Nodes(h, key) = {n \in P : n.key = key}
  BY <1>1, NodesOfKey DEF Holds
<1>3. ASSUME NEW n \in P, n.key = key
      PROVE  HashLookup(h, key) = n.value
  <2>1. Nodes(h, key) = {n}
    BY <1>2, <1>3 DEF Holds, IsPairs
  <2> QED BY <2>1 DEF HashLookup
<1>4. (\A n \in P : n.key # key) => HashLookup(h, key) = NULL
  BY <1>2 DEF HashLookup
<1> QED BY <1>3, <1>4

\* One more pair with a key that has none.
LEMMA AddPair ==
  ASSUME NEW P, IsPairs(P), NEW key \in Nat, NEW value, \A n \in P : n.key # key
  PROVE  /\ IsPairs(P \cup {[key |-> key, value |-> value]})
         /\ Cardinality(P \cup {[key |-> key, value |-> value]}) = Cardinality(P) + 1
<1> DEFINE new == [key |-> key, value |-> value]
<1>1. new.key = key /\ new.value = value /\ new \notin P
  OBVIOUS
<1>2. IsFiniteSet(P \cup {new}) /\ Cardinality(P \cup {new}) = Cardinality(P) + 1
  BY <1>1, FS_AddElement DEF IsPairs
<1>3. IsPairs(P \cup {new})
  BY <1>1, <1>2 DEF IsPairs
<1> QED BY <1>2, <1>3

\* Fewer pairs are pairs.
LEMMA SomePairs ==
  ASSUME NEW P, IsPairs(P), NEW Q, Q \subseteq P
  PROVE  IsPairs(Q) /\ Cardinality(Q) \in Nat
BY FS_Subset, FS_CardinalityType DEF IsPairs

\* fusion_hash_resize loses no node, and none gets into a wrong bucket.
THEOREM ResizeHolds ==
  ASSUME NEW h, NEW P, Holds(h, P)
  PROVE  Holds(HashResize(h), P)
<1>1. PICK size \in Nat \ {0} : h = TableOf(size, P)
  BY DEF Holds
<1>2. IsPairs(P) /\ Cardinality(P) \in Nat
  BY SomePairs DEF Holds
<1>3. HashNodes(h) = P /\ h.nnodes = Cardinality(P)
  BY <1>1, <1>2, NodesOfTable DEF TableOf
<1> DEFINE new == Clamped(Cardinality(P))
<1>4. new \in Nat \ {0}
  BY <1>2, ClampedIsSize
<1> DEFINE old == [b \in 0..(size - 1) |-> {n \in P : n.key % size = b}]
           moved == [b \in 0..(new - 1) |-> {n \in P : n.key % new = b}]
<1>5. h = [size |-> size, nnodes |-> Cardinality(P), nodes |-> old]
  BY <1>1 DEF TableOf
<1>6. HashResize(h) = [h EXCEPT !.size = new, !.nodes = moved]
  BY <1>3 DEF HashResize
<1>7. TableOf(new, P) = [size |-> new, nnodes |-> Cardinality(P), nodes |-> moved]
  BY DEF TableOf
<1> HIDE DEF old, moved, new
<1>8. HashResize(h) = TableOf(new, P)
  BY <1>5, <1>6, <1>7
<1> QED BY <1>2, <1>4, <1>8 DEF Holds

\* The table with one more node, before it is resized.
LEMMA LinkedHolds ==
  ASSUME NEW h, NEW P, Holds(h, P), NEW key \in Nat, NEW value, \A n \in P : n.key # key
  PROVE  Holds(Linked(h, key, value), P \cup {[key |-> key, value |-> value]})
<1> DEFINE new == [key |-> key, value |-> value]
           Q == P \cup {new}
<1>1. PICK size \in Nat \ {0} : h = TableOf(size, P)
  BY DEF Holds
<1>2. IsPairs(Q) /\ Cardinality(Q) = Cardinality(P) + 1
  BY AddPair DEF Holds
<1>3. new.key = key /\ key % size \in 0..(size - 1)
  BY BucketExists
<1> DEFINE old == [b \in 0..(size - 1) |-> {n \in P : n.key % size = b}]
<1>4. h = [size |-> size, nnodes |-> Cardinality(P), nodes |-> old]
  BY <1>1 DEF TableOf
<1>5. [old EXCEPT ![key % size] = @ \cup {new}] = [b \in 0..(size - 1) |-> {n \in Q : n.key % size = b}]
  BY <1>3
<1> HIDE DEF old, new
<1> DEFINE b == key % h.size
<1>a. Linked(h, key, value) = [h EXCEPT !.nnodes = @ + 1, !.nodes[b] = @ \cup {new}]
  BY DEF Linked, new
<1>b. b = key % size
  BY <1>4
<1> HIDE DEF b
<1>6. Linked(h, key, value) = [size |-> size, nnodes |-> Cardinality(P) + 1,
                               nodes |-> [old EXCEPT ![key % size] = @ \cup {new}]]
  BY <1>4, <1>a, <1>b
<1>7. Linked(h, key, value) = TableOf(size, Q)
  BY <1>2, <1>5, <1>6 DEF TableOf
<1> QED BY <1>2, <1>7 DEF Holds, new

\* fusion_hash_insert adds the pair, and leaves a table alone that has the key.
THEOREM InsertHolds ==
  ASSUME NEW h, NEW P, Holds(h, P), NEW key \in Nat, NEW value
  PROVE  Holds(HashInsert(h, key, value),
               IF \E n \in P : n.key = key THEN P ELSE P \cup {[key |-> key, value |-> value]})
<1>1. PICK size \in Nat \ {0} : h = TableOf(size, P)
  BY DEF Holds
<1>2. Nodes(h, key) = {n \in P : n.key = key}
  BY <1>1, NodesOfKey DEF Holds
<1>3. CASE \E n \in P : n.key = key
  BY <1>2, <1>3 DEF HashInsert
<1>4. CASE \A n \in P : n.key # key
  <2> DEFINE g == Linked(h, key, value)
             Q == P \cup {[key |-> key, value |-> value]}
  <2>1. Holds(g, Q)
    BY <1>4, LinkedHolds
  <2>2. Holds(HashResize(g), Q)
    BY <2>1, ResizeHolds
  <2>3. HashInsert(h, key, value) = IF ShouldResize(g) THEN HashResize(g) ELSE g
    BY <1>2, <1>4 DEF HashInsert
  <2> QED BY <1>4, <2>1, <2>2, <2>3
<1> QED BY <1>3, <1>4

\* Of a bucket only the nodes of one key are replaced by others.
LEMMA BucketReplaced ==
  ASSUME NEW P, IsPairs(P), NEW size \in Nat \ {0}, NEW key \in Nat,
         NEW new, \A n \in new : n.key = key
  PROVE  [[b \in 0..(size - 1) |-> {n \in P : n.key % size = b}]
            EXCEPT ![key % size] = (@ \ {n \in P : n.key = key}) \cup new]
         = [b \in 0..(size - 1) |-> {n \in (P \ {n \in P : n.key = key}) \cup new : n.key % size = b}]
<1>1. key % size \in 0..(size - 1)
  BY BucketExists
<1> QED BY <1>1

\* fusion_hash_remove takes away the pair of the key.
THEOREM RemoveHolds ==
  ASSUME NEW h, NEW P, Holds(h, P), NEW key \in Nat
  PROVE  Holds(HashRemove(h, key), {n \in P : n.key # key})
<1> DEFINE gone == {n \in P : n.key = key}
           Q == {n \in P : n.key # key}
<1>1. PICK size \in Nat \ {0} : h = TableOf(size, P)
  BY DEF Holds
<1>2. IsPairs(P) /\ IsPairs(Q) /\ Nodes(h, key) = gone
  BY <1>1, NodesOfKey, SomePairs DEF Holds
<1>3. CASE gone = {}
  <2>1. Q = P /\ HashRemove(h, key) = h
    BY <1>2, <1>3 DEF HashRemove
  <2> QED BY <2>1
<1>4. CASE gone # {}
  <2>1. PICK n \in P : gone = {n} /\ Q = P \ {n}
    BY <1>2, <1>4 DEF IsPairs
  <2>2. Cardinality(Q) = Cardinality(P) - 1
    BY <1>2, <2>1, FS_RemoveElement DEF IsPairs
  <2> DEFINE old == [b \in 0..(size - 1) |-> {m \in P : m.key % size = b}]
  <2>3. h = [size |-> size, nnodes |-> Cardinality(P), nodes |-> old]
    BY <1>1 DEF TableOf
  <2>4. [old EXCEPT ![key % size] = @ \ gone] = [b \in 0..(size - 1) |-> {m \in Q : m.key % size = b}]
    BY BucketExists
  <2> HIDE DEF old, gone, Q
  <2>5. HashRemove(h, key) = [size |-> size, nnodes |-> Cardinality(P) - 1,
                              nodes |-> [old EXCEPT ![key % size] = @ \ gone]]
    BY <1>2, <1>4, <2>3 DEF HashRemove
  <2>6. HashRemove(h, key) = TableOf(size, Q)
    BY <2>2, <2>4, <2>5 DEF TableOf
  <2> QED BY <1>2, <2>6 DEF Holds, Q
<1> QED BY <1>3, <1>4

\* fusion_hash_replace gives the key the new value, whether it had one or not.
THEOREM ReplaceHolds ==
  ASSUME NEW h, NEW P, Holds(h, P), NEW key \in Nat, NEW value
  PROVE  Holds(HashReplace(h, key, value),
               {n \in P : n.key # key} \cup {[key |-> key, value |-> value]})
<1> DEFINE gone == {n \in P : n.key = key}
           rest == {n \in P : n.key # key}
           new == [key |-> key, value |-> value]
           Q == rest \cup {new}
<1>1. PICK size \in Nat \ {0} : h = TableOf(size, P)
  BY DEF Holds
<1>2. IsPairs(P) /\ IsPairs(rest) /\ Nodes(h, key) = gone
  BY <1>1, NodesOfKey, SomePairs DEF Holds
<1>3. CASE gone = {}
  <2>1. rest = P /\ HashReplace(h, key, value) = Linked(h, key, value)
    BY <1>2, <1>3 DEF HashReplace
  <2>2. Holds(Linked(h, key, value), P \cup {new})
    BY <1>3, LinkedHolds
  <2> QED BY <2>1, <2>2
<1>4. CASE gone # {}
  <2>1. PICK n \in P : gone = {n} /\ rest = P \ {n}
    BY <1>2, <1>4 DEF IsPairs
  <2>2. Cardinality(rest) = Cardinality(P) - 1 /\ Cardinality(P) \in Nat
    BY <1>2, <2>1, FS_RemoveElement, SomePairs DEF IsPairs
  <2>3. IsPairs(Q) /\ Cardinality(Q) = Cardinality(rest) + 1
    BY <1>2, AddPair
  <2>4. Cardinality(Q) = Cardinality(P)
    BY <2>2, <2>3
  <2> DEFINE old == [b \in 0..(size - 1) |-> {m \in P : m.key % size = b}]
  <2>5. h = [size |-> size, nnodes |-> Cardinality(P), nodes |-> old]
    BY <1>1 DEF TableOf
  <2>6. [old EXCEPT ![key % size] = (@ \ gone) \cup {new}]
        = [b \in 0..(size - 1) |-> {m \in Q : m.key % size = b}]
    <3>1. key % size \in 0..(size - 1) /\ new.key = key
      BY BucketExists
    <3> QED BY <3>1
  <2> HIDE DEF old, gone, Q, new
  <2>7. HashReplace(h, key, value) = [size |-> size, nnodes |-> Cardinality(P),
                                      nodes |-> [old EXCEPT ![key % size] = (@ \ gone) \cup {new}]]
    BY <1>2, <1>4, <2>5 DEF HashReplace, new
  <2>8. HashReplace(h, key, value) = TableOf(size, Q)
    BY <2>4, <2>6, <2>7 DEF TableOf
  <2> QED BY <2>3, <2>8 DEF Holds, Q, new
<1> QED BY <1>3, <1>4

\* Removing one key after the other leaves the pairs of the other keys.
THEOREM RemoveAllHolds ==
  ASSUME NEW h, NEW P, Holds(h, P), NEW keys
  PROVE  Holds(HashRemoveAll(h, keys), {n \in P : n.key \notin keys})
<1> DEFINE gone == {n \in P : n.key \in keys}
           Q == {n \in P : n.key \notin keys}
<1>1. PICK size \in Nat \ {0} : h = TableOf(size, P)
  BY DEF Holds
<1>2. IsPairs(P) /\ IsPairs(Q) /\ IsPairs(gone) /\ HashNodes(h) = P
  BY <1>1, NodesOfTable, SomePairs DEF Holds
<1>3. Q = P \ gone /\ P \cap gone = gone
  OBVIOUS
<1>4. Cardinality(Q) = Cardinality(P) - Cardinality(gone)
  <2>1. IsFiniteSet(P)
    BY <1>2 DEF IsPairs
  <2> HIDE DEF Q, gone
  <2>2. Cardinality(P \ gone) = Cardinality(P) - Cardinality(P \cap gone)
    BY <2>1, FS_Difference
  <2> QED BY <1>3, <2>2
<1> DEFINE old == [b \in 0..(size - 1) |-> {m \in P : m.key % size = b}]
           kept == [b \in 0..(size - 1) |-> {m \in Q : m.key % size = b}]
<1>5. h = [size |-> size, nnodes |-> Cardinality(P), nodes |-> old]
  BY <1>1 DEF TableOf
<1>6. [b \in DOMAIN old |-> old[b] \ gone] = kept
  OBVIOUS
<1>7. TableOf(size, Q) = [size |-> size, nnodes |-> Cardinality(Q), nodes |-> kept]
  BY DEF TableOf
<1> HIDE DEF old, kept, Q
<1>8. HashRemoveAll(h, keys) = [h EXCEPT !.nnodes = @ - Cardinality(gone),
                                         !.nodes = [b \in DOMAIN @ |-> @[b] \ gone]]
  BY <1>2 DEF HashRemoveAll
<1>9. HashRemoveAll(h, keys) = [size |-> size, nnodes |-> Cardinality(P) - Cardinality(gone), nodes |-> kept]
  <2> DEFINE less == [b \in DOMAIN old |-> old[b] \ gone]
  <2>1. h.nodes = old /\ h.nnodes = Cardinality(P)
    BY <1>5
  <2>2. HashRemoveAll(h, keys) = [h EXCEPT !.nnodes = Cardinality(P) - Cardinality(gone), !.nodes = less]
    BY <1>8, <2>1
  <2> HIDE DEF less, gone
  <2>3. HashRemoveAll(h, keys) = [size |-> size, nnodes |-> Cardinality(P) - Cardinality(gone), nodes |-> less]
    BY <1>5, <2>2
  <2> QED BY <1>6, <2>3 DEF less
<1>10. HashRemoveAll(h, keys) = TableOf(size, Q)
  BY <1>4, <1>7, <1>9
<1> QED BY <1>2, <1>10 DEF Holds, Q

HIDE HashAssumption DEF HashAssumption

USE WorldAssumption, ReactorAssumption DEF WorldAssumption, ReactorAssumption, Master

-----------------------------------------------------------------------------
(* The inductive invariant *)

OpenFiles == {f \in Files : pc[f] # "closed"}

\* The device counts the open files, and an id is given once in a world.
WorldInv ==
  /\ last_id \in Nat /\ id \in [Files -> Nat] /\ pc = [f \in Files |-> pc[f]]
  /\ IsFiniteSet(OpenFiles) /\ refs = Cardinality(OpenFiles)
  /\ \A f \in Files : id[f] <= last_id
  /\ \A f \in Files : pc[f] \in {"closed", "enter"} => id[f] = 0
  /\ \A f, g \in Files : id[f] = id[g] /\ id[f] # 0 => f = g
  /\ members \subseteq OpenFiles
  /\ \A f \in Files : pc[f] = "release" => f \notin members /\ id[f] = Master

Pairs(S) == {[key |-> i, value |-> i] : i \in S}

\* A table holds the entries of its list, none of which is newer than the last.
TablesInv ==
  /\ ids \in [Kinds -> Nat] /\ DOMAIN entry = Kinds /\ DOMAIN table = Kinds
  /\ \A k \in Kinds : DOMAIN entry[k] \subseteq 1..ids[k] /\ Holds(table[k], Pairs(DOMAIN entry[k]))

Named(last) == [creator : 0..last, permissions : SUBSET (Nat \X Rights)]

\* The process f, everybody, or the id that f has was given the right r.
Granted(k, i, f, r) ==
  \/ <<k, i, Process(f), r>> \in rights
  \/ <<0, r>> \in entry[k][i].permissions
  \/ <<k, i, Future(id[f]), r>> \in rights

\* Who creates an entry has an id of this world, a process that the entry names was
\* given the right, and an id that comes later was given it ahead.
RightsInv ==
  \A k \in Kinds : \A i \in DOMAIN entry[k] :
    /\ entry[k][i] \in Named(last_id)
    /\ \A f \in Files, r \in Rights :
         /\ id[f] # 0
         /\ entry[k][i].creator = id[f] \/ <<id[f], r>> \in entry[k][i].permissions
         => Granted(k, i, f, r)
    /\ \A g \in Nat, r \in Rights :
         g > last_id /\ <<g, r>> \in entry[k][i].permissions => <<k, i, Future(g), r>> \in rights

IInv == WorldInv /\ TablesInv /\ RightsInv /\ NoSurvivor

-----------------------------------------------------------------------------
(* What the invariant says of the properties *)

LEMMA PairsOfKeys ==
  ASSUME NEW S
  PROVE  /\ \A n \in Pairs(S) : n.key \in S /\ n.value = n.key
         /\ \A i \in S : \E n \in Pairs(S) : n.key = i /\ n.value = i
<1>1. ASSUME NEW n \in Pairs(S)
      PROVE  n.key \in S /\ n.value = n.key
  <2>1. PICK i \in S : n = [key |-> i, value |-> i]
    BY DEF Pairs
  <2> QED BY <2>1
<1>2. ASSUME NEW i \in S
      PROVE  \E n \in Pairs(S) : n.key = i /\ n.value = i
  <2>1. [key |-> i, value |-> i] \in Pairs(S)
    BY DEF Pairs
  <2> QED BY <2>1
<1> QED BY <1>1, <1>2

LEMMA InvImpliesTablesAgree == TablesInv => TablesAgree
<1> SUFFICES ASSUME TablesInv, NEW k \in Kinds, NEW i \in 1..MaxEntries
             PROVE  HashLookup(table[k], i) = IF i \in DOMAIN entry[k] THEN i ELSE NULL
  BY DEF TablesAgree
<1> DEFINE S == DOMAIN entry[k]
<1>1. Holds(table[k], Pairs(S)) /\ i \in Nat
  BY DEF TablesInv
<1> HIDE DEF S
<1>2. /\ \A n \in Pairs(S) : n.key = i => HashLookup(table[k], i) = n.value
      /\ (\A n \in Pairs(S) : n.key # i) => HashLookup(table[k], i) = NULL
  BY <1>1, LookupFinds
<1>3. HashLookup(table[k], i) = IF i \in S THEN i ELSE NULL
  BY <1>2, PairsOfKeys
<1> QED BY <1>3 DEF S

LEMMA InvImpliesRightsAreGranted == WorldInv /\ RightsInv => RightsAreGranted
<1> SUFFICES ASSUME WorldInv, RightsInv,
                    NEW f \in members, NEW k \in Kinds, NEW r \in Rights, NEW i \in DOMAIN entry[k],
                    id[f] # 0, CheckPermissions(k, i, id[f], r)
             PROVE  Granted(k, i, f, r)
  BY DEF RightsAreGranted, Granted
<1>1. f \in Files
  BY DEF WorldInv, OpenFiles
<1>2. entry[k][i].permissions \subseteq Nat \X Rights
  BY DEF RightsInv, Named
<1>3. CASE entry[k][i].creator = id[f]
  BY <1>1, <1>3 DEF RightsInv
<1>4. CASE \E p \in entry[k][i].permissions : p[1] \in {0, id[f]} /\ p[2] = r
  <2>1. PICK p \in entry[k][i].permissions : p[1] \in {0, id[f]} /\ p[2] = r
    BY <1>4
  <2>2. p = <<p[1], p[2]>>
    BY <1>2, <2>1
  <2>3. CASE p[1] = 0
    BY <2>1, <2>2, <2>3 DEF Granted
  <2>4. CASE p[1] = id[f]
    BY <1>1, <2>1, <2>2, <2>4 DEF RightsInv
  <2> QED BY <2>1, <2>3, <2>4
<1> QED BY <1>3, <1>4 DEF CheckPermissions

-----------------------------------------------------------------------------
(* The tables *)

\* The world ends, or has no entries yet.
LEMMA NewTables == NewDevice => TablesInv'
<1> SUFFICES ASSUME NewDevice
             PROVE  TablesInv'
  OBVIOUS
<1>1. Holds(HashCreate(TableSize), {})
  BY CreateHolds
<1>2. Pairs({}) = {}
  BY DEF Pairs
<1>3. DOMAIN <<>> = {}
  OBVIOUS
<1>4. /\ ids' = [k \in Kinds |-> 0] /\ entry' = [k \in Kinds |-> <<>>]
      /\ table' = [k \in Kinds |-> HashCreate(TableSize)]
  BY DEF NewDevice
<1> QED BY <1>1, <1>2, <1>3, <1>4 DEF TablesInv

\* fusion_entry_create keeps the tables in order.
LEMMA CreateTables ==
  ASSUME TablesInv, NEW k \in Kinds, NEW f, CreateEntry(k, f)
  PROVE  TablesInv'
<1> DEFINE i == ids[k] + 1
           S == DOMAIN entry[k]
           new == [j \in S \cup {i} |->
                     IF j = i THEN [creator |-> id[f], permissions |-> {}] ELSE entry[k][j]]
<1>1. ids[k] \in Nat /\ i \in Nat /\ S \subseteq 1..ids[k] /\ i \notin S
  BY DEF TablesInv
<1>2. /\ ids' = [ids EXCEPT ![k] = i]
      /\ entry' = [entry EXCEPT ![k] = new]
      /\ table' = [table EXCEPT ![k] = HashInsert(@, i, i)]
  BY DEF CreateEntry
<1>3. Holds(HashInsert(table[k], i, i), Pairs(S \cup {i}))
  <2> HIDE DEF S, i
  <2>1. Holds(table[k], Pairs(S))
    BY DEF TablesInv, S
  <2>2. ~\E n \in Pairs(S) : n.key = i
    BY <1>1, PairsOfKeys
  <2>3. Pairs(S \cup {i}) = Pairs(S) \cup {[key |-> i, value |-> i]}
    BY DEF Pairs
  <2>4. Holds(HashInsert(table[k], i, i),
              IF \E n \in Pairs(S) : n.key = i THEN Pairs(S) ELSE Pairs(S) \cup {[key |-> i, value |-> i]})
    BY <1>1, <2>1, InsertHolds
  <2> QED BY <2>2, <2>3, <2>4
<1>4. DOMAIN new = S \cup {i}
  OBVIOUS
<1> HIDE DEF new
<1>5. /\ ids' \in [Kinds -> Nat] /\ DOMAIN entry' = Kinds /\ DOMAIN table' = Kinds
      /\ ids'[k] = i /\ entry'[k] = new /\ table'[k] = HashInsert(table[k], i, i)
      /\ \A j \in Kinds \ {k} : ids'[j] = ids[j] /\ entry'[j] = entry[j] /\ table'[j] = table[j]
  BY <1>1, <1>2 DEF TablesInv
<1>6. DOMAIN entry'[k] \subseteq 1..ids'[k] /\ Holds(table'[k], Pairs(DOMAIN entry'[k]))
  BY <1>1, <1>3, <1>4, <1>5
<1>7. \A j \in Kinds \ {k} : DOMAIN entry'[j] \subseteq 1..ids'[j] /\ Holds(table'[j], Pairs(DOMAIN entry'[j]))
  BY <1>5 DEF TablesInv
<1> QED BY <1>5, <1>6, <1>7 DEF TablesInv

\* So does the destruction of any entries.
LEMMA DestroyTables ==
  ASSUME TablesInv, NEW gone, DestroyEntries(gone)
  PROVE  TablesInv'
<1>1. /\ ids' = ids
      /\ entry' = [k \in Kinds |-> [j \in DOMAIN entry[k] \ gone[k] |-> entry[k][j]]]
      /\ table' = [k \in Kinds |-> HashRemoveAll(table[k], gone[k])]
  BY DEF DestroyEntries
<1>2. ASSUME NEW k \in Kinds
      PROVE  DOMAIN entry'[k] \subseteq 1..ids'[k] /\ Holds(table'[k], Pairs(DOMAIN entry'[k]))
  <2> DEFINE S == DOMAIN entry[k]
             G == gone[k]
  <2>1. DOMAIN entry'[k] = S \ G /\ table'[k] = HashRemoveAll(table[k], G) /\ ids'[k] = ids[k]
    BY <1>1
  <2>2. S \subseteq 1..ids[k] /\ Holds(table[k], Pairs(S))
    BY DEF TablesInv
  <2> HIDE DEF S, G
  <2>3. Holds(HashRemoveAll(table[k], G), {n \in Pairs(S) : n.key \notin G})
    BY <2>2, RemoveAllHolds
  <2>4. {n \in Pairs(S) : n.key \notin G} = Pairs(S \ G)
    BY DEF Pairs
  <2> QED BY <2>1, <2>2, <2>3, <2>4
<1> QED BY <1>1, <1>2 DEF TablesInv

LEMMA SameTables ==
  ASSUME TablesInv, UNCHANGED entries
  PROVE  TablesInv'
BY DEF TablesInv, entries

\* A grant changes no list.
LEMMA GrantTables ==
  ASSUME TablesInv, NEW f, NEW k \in Kinds, NEW i, NEW g, NEW R, AddPermissions(f, k, i, g, R)
  PROVE  TablesInv'
<1> DEFINE new == [entry[k] EXCEPT ![i].permissions = @ \cup {<<g, r>> : r \in R}]
<1>1. ids' = ids /\ table' = table /\ entry' = [entry EXCEPT ![k] = new]
  BY DEF AddPermissions
<1>2. DOMAIN new = DOMAIN entry[k]
  OBVIOUS
<1> HIDE DEF new
<1>3. DOMAIN entry' = Kinds /\ \A j \in Kinds : DOMAIN entry'[j] = DOMAIN entry[j]
  BY <1>1, <1>2 DEF TablesInv
<1> QED BY <1>1, <1>3 DEF TablesInv

-----------------------------------------------------------------------------
(* The rights *)

\* The ids that processes have stay or go, and so do their rights.
Ids == last_id' = last_id /\ \A f \in Files : id'[f] \in {id[f], 0}

LEMMA SameRights ==
  ASSUME RightsInv, Ids, UNCHANGED entry,
         \A k, i, r : \A f \in Files :
           id'[f] # 0 /\ <<k, i, Process(f), r>> \in rights => <<k, i, Process(f), r>> \in rights',
         \A k, i, g, r : <<k, i, Future(g), r>> \in rights => <<k, i, Future(g), r>> \in rights'
  PROVE  RightsInv'
<1> SUFFICES ASSUME NEW k \in Kinds, NEW i \in DOMAIN entry[k]
             PROVE  /\ entry[k][i] \in Named(last_id)
                    /\ \A f \in Files, r \in Rights :
                         /\ id'[f] # 0
                         /\ entry[k][i].creator = id'[f] \/ <<id'[f], r>> \in entry[k][i].permissions
                         => Granted(k, i, f, r)'
                    /\ \A g \in Nat, r \in Rights :
                         g > last_id /\ <<g, r>> \in entry[k][i].permissions
                         => <<k, i, Future(g), r>> \in rights'
  BY DEF RightsInv, Ids
<1>1. ASSUME NEW f \in Files, NEW r \in Rights, id'[f] # 0,
             entry[k][i].creator = id'[f] \/ <<id'[f], r>> \in entry[k][i].permissions
      PROVE  Granted(k, i, f, r)'
  <2>1. id'[f] = id[f]
    BY <1>1 DEF Ids
  <2>2. Granted(k, i, f, r)
    BY <1>1, <2>1 DEF RightsInv
  <2> QED BY <1>1, <2>1, <2>2 DEF Granted
<1>2. entry[k][i] \in Named(last_id)
  BY DEF RightsInv
<1>3. \A g \in Nat, r \in Rights :
        g > last_id /\ <<g, r>> \in entry[k][i].permissions => <<k, i, Future(g), r>> \in rights'
  BY DEF RightsInv
<1> QED BY <1>1, <1>2, <1>3

LEMMA NewRights == NewDevice => RightsInv'
<1>1. DOMAIN <<>> = {}
  OBVIOUS
<1> QED BY <1>1 DEF NewDevice, RightsInv

\* No entry was created under an id that is new, and what it is permitted was granted
\* ahead.
LEMMA EnterRights ==
  ASSUME WorldInv, RightsInv, NEW f \in Files, Enter(f), UNCHANGED <<entry, rights>>
  PROVE  RightsInv'
<1>1. last_id' = last_id + 1 /\ id' = [id EXCEPT ![f] = last_id + 1]
  BY DEF Enter, NextId
<1>2. last_id \in Nat /\ id \in [Files -> Nat]
  BY DEF WorldInv
<1> SUFFICES ASSUME NEW k \in Kinds, NEW i \in DOMAIN entry[k]
             PROVE  /\ entry[k][i] \in Named(last_id')
                    /\ \A g \in Files, r \in Rights :
                         /\ id'[g] # 0
                         /\ entry[k][i].creator = id'[g] \/ <<id'[g], r>> \in entry[k][i].permissions
                         => Granted(k, i, g, r)'
                    /\ \A n \in Nat, r \in Rights :
                         n > last_id' /\ <<n, r>> \in entry[k][i].permissions
                         => <<k, i, Future(n), r>> \in rights
  BY DEF RightsInv
<1>3. entry[k][i] \in Named(last_id)
  BY DEF RightsInv
<1>4. entry[k][i] \in Named(last_id')
  <2>1. 0..last_id \subseteq 0..last_id'
    BY <1>1, <1>2
  <2> QED BY <1>3, <2>1 DEF Named
<1>5. ASSUME NEW n \in Nat, NEW r \in Rights, n > last_id, <<n, r>> \in entry[k][i].permissions
      PROVE  <<k, i, Future(n), r>> \in rights
  BY <1>5 DEF RightsInv
<1>6. ASSUME NEW g \in Files, NEW r \in Rights, id'[g] # 0,
             entry[k][i].creator = id'[g] \/ <<id'[g], r>> \in entry[k][i].permissions
      PROVE  Granted(k, i, g, r)'
  <2>1. CASE id'[g] = last_id + 1
    <3>1. entry[k][i].creator \in 0..last_id
      BY <1>3 DEF Named
    <3>2. entry[k][i].creator # id'[g]
      BY <1>2, <2>1, <3>1
    <3>3. id'[g] \in Nat /\ id'[g] > last_id
      BY <1>2, <2>1
    <3> QED BY <1>5, <1>6, <3>2, <3>3 DEF Granted
  <2>2. CASE id'[g] # last_id + 1
    <3>1. id'[g] = id[g]
      BY <1>1, <1>2, <2>2
    <3>2. Granted(k, i, g, r)
      BY <1>6, <3>1 DEF RightsInv
    <3> QED BY <3>1, <3>2 DEF Granted
  <2> QED BY <2>1, <2>2
<1>7. \A n \in Nat : n > last_id' => n > last_id
  BY <1>1, <1>2
<1> QED BY <1>4, <1>5, <1>6, <1>7

\* Who creates an entry gets all rights to it.
LEMMA CreateRights ==
  ASSUME WorldInv, TablesInv, RightsInv, NEW k \in Kinds, NEW f \in Files,
         CreateEntry(k, f), UNCHANGED <<last_id, id>>
  PROVE  RightsInv'
<1> DEFINE i == ids[k] + 1
           new == [creator |-> id[f], permissions |-> {}]
<1>1. ids[k] \in Nat /\ \A j \in DOMAIN entry[k] : j # i
  BY DEF TablesInv
<1>2. /\ entry' = [entry EXCEPT ![k] = [j \in DOMAIN entry[k] \cup {i} |-> IF j = i THEN new ELSE entry[k][j]]]
      /\ rights' = rights \cup {<<k, i, Process(f), r>> : r \in Rights}
  BY DEF CreateEntry
<1>3. new.creator = id[f] /\ new.permissions = {}
  OBVIOUS
<1> HIDE DEF new, i
<1> SUFFICES ASSUME NEW l \in Kinds, NEW j \in DOMAIN entry'[l]
             PROVE  /\ entry'[l][j] \in Named(last_id)
                    /\ \A g \in Files, r \in Rights :
                         /\ id[g] # 0
                         /\ entry'[l][j].creator = id[g] \/ <<id[g], r>> \in entry'[l][j].permissions
                         => Granted(l, j, g, r)'
                    /\ \A n \in Nat, r \in Rights :
                         n > last_id /\ <<n, r>> \in entry'[l][j].permissions
                         => <<l, j, Future(n), r>> \in rights'
  BY DEF RightsInv
<1>4. CASE l = k /\ j = i
  <2>1. entry'[l][j] = new
    BY <1>2, <1>4 DEF TablesInv
  <2>2. id[f] \in 0..last_id /\ \A g \in Files : id[g] = id[f] /\ id[g] # 0 => g = f
    BY DEF WorldInv
  <2>3. new \in Named(last_id)
    BY <2>2 DEF Named, new
  <2>4. ASSUME NEW g \in Files, NEW r \in Rights, id[g] # 0, new.creator = id[g]
        PROVE  Granted(l, j, g, r)'
    <3>1. g = f
      BY <1>3, <2>2, <2>4
    <3>2. <<l, j, Process(g), r>> \in rights'
      BY <1>2, <1>4, <3>1
    <3> QED BY <3>2 DEF Granted
  <2> QED BY <1>3, <2>1, <2>3, <2>4
<1>5. CASE ~(l = k /\ j = i)
  <2>1. j \in DOMAIN entry[l] /\ entry'[l][j] = entry[l][j]
    BY <1>1, <1>2, <1>5 DEF TablesInv
  <2>2. \A g, r : Granted(l, j, g, r) => Granted(l, j, g, r)'
    BY <1>2, <2>1 DEF Granted
  <2>3. \A n, r : <<l, j, Future(n), r>> \in rights => <<l, j, Future(n), r>> \in rights'
    BY <1>2
  <2> QED BY <2>1, <2>2, <2>3 DEF RightsInv
<1> QED BY <1>4, <1>5

\* What is left of the entries keeps its rights.
LEMMA DestroyRights ==
  ASSUME RightsInv, Ids, NEW gone, DestroyEntries(gone)
  PROVE  RightsInv'
<1> SUFFICES ASSUME NEW k \in Kinds, NEW i \in DOMAIN entry'[k]
             PROVE  /\ entry'[k][i] \in Named(last_id')
                    /\ \A f \in Files, r \in Rights :
                         /\ id'[f] # 0
                         /\ entry'[k][i].creator = id'[f] \/ <<id'[f], r>> \in entry'[k][i].permissions
                         => Granted(k, i, f, r)'
                    /\ \A g \in Nat, r \in Rights :
                         g > last_id' /\ <<g, r>> \in entry'[k][i].permissions
                         => <<k, i, Future(g), r>> \in rights'
  BY DEF RightsInv
<1>1. i \in DOMAIN entry[k] \ gone[k] /\ entry'[k][i] = entry[k][i]
  BY DEF DestroyEntries
<1>2. \A h, r : <<k, i, h, r>> \in rights => <<k, i, h, r>> \in rights'
  BY <1>1 DEF DestroyEntries
<1>3. \A f \in Files : id'[f] # 0 => id'[f] = id[f]
  BY DEF Ids
<1>4. ASSUME NEW f \in Files, NEW r \in Rights, id'[f] # 0, Granted(k, i, f, r)
      PROVE  Granted(k, i, f, r)'
  BY <1>1, <1>2, <1>3, <1>4 DEF Granted
<1> QED BY <1>1, <1>2, <1>3, <1>4 DEF RightsInv, Ids

\* A grant gives its right to the process it names, or to the id.
LEMMA GrantRights ==
  ASSUME WorldInv, TablesInv, RightsInv, NEW f \in Files, NEW k \in Kinds, NEW i \in 1..MaxEntries,
         NEW g \in 0..MaxIds, NEW R \in Grants, AddPermissions(f, k, i, g, R)
  PROVE  RightsInv'
<1> DEFINE present == {h \in Files : id[h] # 0 /\ (g = 0 \/ id[h] = g)}
           given == {Process(h) : h \in present} \cup IF g > last_id THEN {Future(g)} ELSE {}
           old == entry[k][i]
           more == {<<g, r>> : r \in R}
<1>1. /\ entry' = [entry EXCEPT ![k][i].permissions = @ \cup more]
      /\ rights' = rights \cup {<<k, i, h, r>> : h \in given, r \in R}
      /\ UNCHANGED <<last_id, id>>
  BY DEF AddPermissions, device, process
<1>2. R \subseteq Rights /\ g \in Nat
  OBVIOUS
<1>3. \A h \in Files : id[h] # 0 /\ id[h] = g => Process(h) \in given
  <2>1. \A h \in Files : id[h] # 0 /\ id[h] = g => h \in present
    OBVIOUS
  <2>2. \A h \in present : Process(h) \in given
    OBVIOUS
  <2> HIDE DEF present, given
  <2> QED BY <2>1, <2>2
<1>4. ASSUME g > last_id
      PROVE  Future(g) \in given
  <2>1. given = {Process(h) : h \in present} \cup {Future(g)}
    BY <1>4
  <2> QED BY <2>1
<1>5. last_id' = last_id /\ id' = id
  BY <1>1
<1> HIDE DEF given, old, more, present
<1> SUFFICES ASSUME NEW l \in Kinds, NEW j \in DOMAIN entry'[l]
             PROVE  /\ entry'[l][j] \in Named(last_id)
                    /\ \A h \in Files, r \in Rights :
                         /\ id[h] # 0
                         /\ entry'[l][j].creator = id[h] \/ <<id[h], r>> \in entry'[l][j].permissions
                         => Granted(l, j, h, r)'
                    /\ \A n \in Nat, r \in Rights :
                         n > last_id /\ <<n, r>> \in entry'[l][j].permissions
                         => <<l, j, Future(n), r>> \in rights'
  BY <1>5 DEF RightsInv
<1>6. rights \subseteq rights'
  BY <1>1
<1>7. CASE l = k /\ j = i
  <2>1. entry'[k] = [entry[k] EXCEPT ![i].permissions = @ \cup more]
    BY <1>1 DEF TablesInv
  <2>2. i \in DOMAIN entry[k] /\ entry'[l][j] = [old EXCEPT !.permissions = @ \cup more]
    BY <1>7, <2>1 DEF old
  <2>3. old \in Named(last_id)
    BY <1>7, <2>2 DEF RightsInv, old
  <2>4. more \subseteq Nat \X Rights
    BY <1>2 DEF more
  <2> DEFINE new == [old EXCEPT !.permissions = @ \cup more]
  <2>5. /\ new \in Named(last_id) /\ new.creator = old.creator
        /\ new.permissions = old.permissions \cup more
    BY <2>3, <2>4 DEF Named
  <2>6. entry'[l][j] = new
    BY <2>2 DEF new
  <2> HIDE DEF new
  <2>7. ASSUME NEW r, <<g, r>> \in more, NEW h \in given
        PROVE  <<k, i, h, r>> \in rights'
    <3>1. r \in R
      BY <2>7 DEF more
    <3> QED BY <1>1, <3>1
  <2>8. ASSUME NEW h \in Files, NEW r \in Rights, id[h] # 0,
               old.creator = id[h] \/ <<id[h], r>> \in old.permissions \cup more
        PROVE  Granted(l, j, h, r)'
    <3>1. CASE old.creator = id[h] \/ <<id[h], r>> \in old.permissions
      <4>1. Granted(k, i, h, r)
        BY <2>2, <2>8, <3>1 DEF RightsInv, old
      <4>2. entry[k][i].permissions \subseteq entry'[l][j].permissions
        BY <2>5, <2>6 DEF old
      <4> QED BY <1>1, <1>6, <1>7, <4>1, <4>2 DEF Granted
    <3>2. CASE <<id[h], r>> \in more
      <4>1. id[h] = g
        BY <3>2 DEF more
      <4>2. <<k, i, Process(h), r>> \in rights'
        BY <1>3, <2>7, <2>8, <3>2, <4>1
      <4> QED BY <1>7, <4>2 DEF Granted
    <3> QED BY <2>8, <3>1, <3>2
  <2>9. ASSUME NEW n \in Nat, NEW r \in Rights, n > last_id, <<n, r>> \in old.permissions \cup more
        PROVE  <<k, i, Future(n), r>> \in rights'
    <3>1. CASE <<n, r>> \in old.permissions
      BY <1>6, <2>2, <2>9, <3>1 DEF RightsInv, old
    <3>2. CASE <<n, r>> \in more
      <4>1. n = g
        BY <3>2 DEF more
      <4> QED BY <1>4, <2>7, <2>9, <3>2, <4>1
    <3> QED BY <2>9, <3>1, <3>2
  <2> QED BY <1>7, <2>5, <2>6, <2>8, <2>9
<1>8. CASE ~(l = k /\ j = i)
  <2>1. j \in DOMAIN entry[l] /\ entry'[l][j] = entry[l][j]
    <3>1. CASE l = k
      <4>1. entry'[k] = [entry[k] EXCEPT ![i].permissions = @ \cup more]
        BY <1>1 DEF TablesInv
      <4> QED BY <1>8, <3>1, <4>1
    <3>2. CASE l # k
      BY <1>1, <3>2 DEF TablesInv
    <3> QED BY <3>1, <3>2
  <2>2. \A h, r : Granted(l, j, h, r) => Granted(l, j, h, r)'
    BY <1>1, <1>6, <2>1 DEF Granted
  <2> QED BY <1>6, <2>1, <2>2 DEF RightsInv
<1> QED BY <1>7, <1>8

-----------------------------------------------------------------------------
(* The open files and the ids *)

\* A file that was closed is one more, and one that is closed is one less.
LEMMA OneMore ==
  ASSUME NEW S, IsFiniteSet(S), NEW f
  PROVE  /\ IsFiniteSet(S \cup {f}) /\ IsFiniteSet(S \ {f})
         /\ f \notin S => Cardinality(S \cup {f}) = Cardinality(S) + 1
         /\ f \in S => Cardinality(S \ {f}) = Cardinality(S) - 1
BY FS_AddElement, FS_RemoveElement

\* With the first open the device is new, as no file was open.
LEMMA NoneOpen ==
  ASSUME WorldInv, refs = 0
  PROVE  OpenFiles = {} /\ members = {} /\ \A f \in Files : id[f] = 0
<1>1. OpenFiles = {}
  BY FS_EmptySet DEF WorldInv
<1>2. \A f \in Files : pc[f] = "closed"
  BY <1>1 DEF OpenFiles
<1> QED BY <1>1, <1>2 DEF WorldInv

\* Steps that open, close and enter nothing: a process goes on, or to sleep.
Quiet ==
  /\ UNCHANGED <<refs, last_id, id, members>>
  /\ pc' = [g \in Files |-> pc'[g]]
  /\ \A f \in Files : pc[f] = "closed" <=> pc'[f] = "closed"
  /\ \A f \in Files : pc'[f] \in {"enter", "release"} => pc'[f] = pc[f] \/ (pc'[f] = "enter" /\ id[f] = 0)

LEMMA QuietWorld ==
  ASSUME WorldInv, Quiet
  PROVE  WorldInv'
<1>1. OpenFiles' = OpenFiles
  BY DEF Quiet, OpenFiles
<1> QED BY <1>1 DEF Quiet, WorldInv

LEMMA OpenWorld ==
  ASSUME WorldInv, NEW f \in Files, NEW excl \in BOOLEAN, NEW append \in BOOLEAN, Open(f, excl, append)
  PROVE  WorldInv'
<1>1. /\ pc[f] = "closed" /\ pc' = [pc EXCEPT ![f] = "user"]
      /\ id' = [id EXCEPT ![f] = 0] /\ members' = members \cup {f} /\ refs' = refs + 1
      /\ last_id' = IF refs = 0 THEN 0 ELSE last_id
  BY DEF Open, NewFusionee, NewDevice
<1>2. OpenFiles' = OpenFiles \cup {f} /\ f \notin OpenFiles
  BY <1>1 DEF OpenFiles, WorldInv
<1>3. IsFiniteSet(OpenFiles') /\ refs' = Cardinality(OpenFiles')
  BY <1>1, <1>2, OneMore DEF WorldInv
<1>4. \A g \in Files : id'[g] \in 0..last_id'
  BY <1>1, NoneOpen DEF WorldInv
<1>5. last_id' \in Nat /\ id' \in [Files -> Nat]
  BY <1>1 DEF WorldInv
<1>6. pc' = [g \in Files |-> pc'[g]]
  BY <1>1 DEF WorldInv
<1>7. \A g, h \in Files : id'[g] = id'[h] /\ id'[g] # 0 => g = h
  BY <1>1 DEF WorldInv
<1>8. /\ \A g \in Files : pc'[g] \in {"closed", "enter"} => id'[g] = 0
      /\ \A g \in Files : pc'[g] = "release" => g \notin members' /\ id'[g] = Master
      /\ members' \subseteq OpenFiles'
  BY <1>1, <1>2 DEF WorldInv
<1> QED BY <1>3, <1>4, <1>5, <1>6, <1>7, <1>8 DEF WorldInv

\* Who enters gets an id that nobody has had in this world.
LEMMA EnterWorld ==
  ASSUME WorldInv, NEW f \in Files, pc[f] \in {"user", "enter"}, Enter(f), UNCHANGED <<refs, members>>
  PROVE  WorldInv'
<1>1. /\ last_id' = last_id + 1 /\ id' = [id EXCEPT ![f] = last_id + 1]
      /\ pc' = [pc EXCEPT ![f] = "user"]
  BY DEF Enter, NextId
<1>2. OpenFiles' = OpenFiles
  BY <1>1 DEF OpenFiles, WorldInv
<1>3. \A g \in Files : id'[g] <= last_id'
  BY <1>1 DEF WorldInv
<1>4. \A g, h \in Files : id'[g] = id'[h] /\ id'[g] # 0 => g = h
  BY <1>1 DEF WorldInv
<1>5. \A g \in Files : pc'[g] \in {"closed", "enter"} => id'[g] = 0
  BY <1>1 DEF WorldInv
<1>6. last_id' \in Nat /\ id' \in [Files -> Nat] /\ pc' = [g \in Files |-> pc'[g]]
  <2>1. last_id' \in Nat /\ id' \in [Files -> Nat]
    BY <1>1 DEF WorldInv
  <2>2. pc' = [g \in Files |-> pc'[g]]
    BY <1>1 DEF WorldInv
  <2> QED BY <2>1, <2>2
<1>7. \A g \in Files : pc'[g] = "release" => g \notin members' /\ id'[g] = Master
  BY <1>1 DEF WorldInv
<1> QED BY <1>2, <1>3, <1>4, <1>5, <1>6, <1>7 DEF WorldInv

\* The last lines of fusion_release.
LEMMA CloseWorld ==
  ASSUME WorldInv, NEW f \in Files, pc[f] # "closed", NEW latecomers, Close(f, latecomers),
         members' = members \ {f}, UNCHANGED last_id
  PROVE  WorldInv'
<1>1. /\ pc' = [pc EXCEPT ![f] = "closed"] /\ id' = [id EXCEPT ![f] = 0] /\ refs' = refs - 1
  BY DEF Close
<1>2. OpenFiles' = OpenFiles \ {f} /\ f \in OpenFiles
  BY <1>1 DEF OpenFiles, WorldInv
<1>3. IsFiniteSet(OpenFiles') /\ refs' = Cardinality(OpenFiles')
  BY <1>1, <1>2, OneMore DEF WorldInv
<1>4. \A g \in Files : id'[g] <= last_id'
  BY <1>1 DEF WorldInv
<1>5. \A g, h \in Files : id'[g] = id'[h] /\ id'[g] # 0 => g = h
  BY <1>1 DEF WorldInv
<1>6. last_id' \in Nat /\ id' \in [Files -> Nat] /\ pc' = [g \in Files |-> pc'[g]]
  <2>1. last_id' \in Nat /\ id' \in [Files -> Nat]
    BY <1>1 DEF WorldInv
  <2>2. pc' = [g \in Files |-> pc'[g]]
    BY <1>1 DEF WorldInv
  <2> QED BY <2>1, <2>2
<1> QED BY <1>1, <1>2, <1>3, <1>4, <1>5, <1>6 DEF WorldInv

-----------------------------------------------------------------------------
(* Who survives the master *)

Doomed == killing \cup exiting \cup orphans \cup late

LEMMA KeptSurvivor ==
  ASSUME NoSurvivor, last_id' = last_id, refs' # 0 => refs # 0,
         members' \subseteq members, Doomed \cap members' \subseteq Doomed',
         MasterStays => MasterStays'
  PROVE  NoSurvivor'
BY DEF NoSurvivor, Doomed

\* Who opens the device when the master leaves is late, and an orphan when it has left.
LEMMA OpenSurvivor ==
  ASSUME WorldInv, NoSurvivor, NEW f \in Files, NEW excl, NEW append, Open(f, excl, append)
  PROVE  NoSurvivor'
<1>1. /\ members' = members \cup {f} /\ UNCHANGED <<killing, exiting>>
      /\ id' = [id EXCEPT ![f] = 0] /\ pc[f] = "closed" /\ pc' = [pc EXCEPT ![f] = "user"]
      /\ last_id' = IF refs = 0 THEN 0 ELSE last_id
  BY DEF Open, NewFusionee, NewDevice
<1>2. /\ orphans \ {f} \subseteq orphans' /\ late \ {f} \subseteq late'
      /\ last_id # 0 /\ refs # 0 /\ ~MasterStays => f \in orphans' \cup late'
  BY DEF Open, NewFusionee
<1>3. MasterStays => MasterStays'
  BY <1>1 DEF MasterStays, WorldInv
<1>4. f \notin members
  BY <1>1 DEF WorldInv, OpenFiles
<1>5. CASE last_id # 0 /\ refs # 0 /\ ~MasterStays
  <2>1. members \subseteq Doomed
    BY <1>5 DEF NoSurvivor, Doomed
  <2>2. members' \subseteq Doomed'
    BY <1>1, <1>2, <1>4, <1>5, <2>1 DEF Doomed
  <2> QED BY <2>2 DEF NoSurvivor, Doomed
<1>6. CASE ~(last_id # 0 /\ refs # 0 /\ ~MasterStays)
  BY <1>1, <1>3, <1>6 DEF NoSurvivor
<1> QED BY <1>5, <1>6

\* The first who enters is the master.
LEMMA EnterSurvivor ==
  ASSUME WorldInv, NoSurvivor, NEW f \in Files, id[f] = 0, Enter(f),
         UNCHANGED <<refs, members, killing, exiting, orphans, late>>
  PROVE  NoSurvivor'
<1>1. /\ last_id' = last_id + 1 /\ id' = [id EXCEPT ![f] = last_id + 1]
      /\ pc' = [pc EXCEPT ![f] = "user"]
  BY DEF Enter, NextId
<1>2. CASE last_id = 0
  <2>1. id'[f] = 1 /\ pc'[f] \notin {"closed", "release"}
    BY <1>1, <1>2 DEF WorldInv
  <2> QED BY <2>1 DEF NoSurvivor, MasterStays
<1>3. CASE last_id # 0
  <2>1. MasterStays => MasterStays'
    BY <1>1 DEF MasterStays, WorldInv
  <2> QED BY <1>3, <2>1 DEF NoSurvivor
<1> QED BY <1>2, <1>3

\* A file closes: what stays of the late covers those whom it does not kill.
LEMMA CloseSurvivor ==
  ASSUME WorldInv, NoSurvivor, NEW f \in Files, NEW latecomers, Close(f, latecomers),
         members' = members \ {f}, UNCHANGED last_id, killing' = killing \ {f},
         last_id # 0 /\ (~MasterStays \/ id[f] = Master) =>
           members \ {f} \subseteq killing \cup exiting \cup orphans \cup latecomers
  PROVE  NoSurvivor'
<1>1. /\ pc' = [pc EXCEPT ![f] = "closed"] /\ id' = [id EXCEPT ![f] = 0] /\ refs' = refs - 1
      /\ exiting' = exiting \ {f} /\ orphans' = orphans \ {f} /\ late' = latecomers \ {f}
  BY DEF Close
<1>2. CASE ~MasterStays \/ id[f] = Master
  <2>1. last_id # 0 => members' \subseteq killing' \cup exiting' \cup orphans' \cup late'
    BY <1>1, <1>2
  <2> QED BY <2>1 DEF NoSurvivor
<1>3. CASE MasterStays /\ id[f] # Master
  <2>1. MasterStays'
    BY <1>1, <1>3 DEF MasterStays, WorldInv
  <2> QED BY <2>1 DEF NoSurvivor
<1> QED BY <1>2, <1>3

-----------------------------------------------------------------------------
(* The steps *)

LEMMA InitInv == Init => IInv
<1> SUFFICES ASSUME Init
             PROVE  IInv
  OBVIOUS
<1>1. OpenFiles = {}
  BY DEF Init, WorldInit, OpenFiles
<1>2. WorldInv
  BY <1>1, FS_EmptySet DEF Init, WorldInit, WorldInv
<1>3. DOMAIN <<>> = {} /\ Pairs({}) = {} /\ Holds(HashCreate(TableSize), {})
  BY CreateHolds DEF Pairs
<1>4. TablesInv
  BY <1>3 DEF Init, WorldInit, TablesInv
<1>5. RightsInv
  BY <1>3 DEF Init, WorldInit, RightsInv
<1>6. NoSurvivor
  BY DEF Init, WorldInit, NoSurvivor
<1> QED BY <1>2, <1>4, <1>5, <1>6 DEF IInv

\* Steps that leave the entries alone.
LEMMA QuietStep ==
  ASSUME IInv, Quiet, UNCHANGED <<entries, rights, orphans, late>>,
         killing \subseteq killing', exiting \subseteq exiting'
  PROVE  IInv'
<1>1. WorldInv'
  BY QuietWorld DEF IInv
<1>2. TablesInv'
  BY SameTables DEF IInv
<1>3. Ids
  BY DEF Quiet, Ids
<1>4. RightsInv'
  BY <1>3, SameRights DEF IInv, entries
<1>5. MasterStays => MasterStays'
  BY DEF Quiet, MasterStays, IInv, WorldInv
<1>6. Doomed \subseteq Doomed'
  BY DEF Doomed
<1>7. NoSurvivor'
  BY <1>5, <1>6, KeptSurvivor DEF IInv, Quiet
<1> QED BY <1>1, <1>2, <1>4, <1>7 DEF IInv

\* Steps that change only objects.
LEMMA ObjectStep ==
  ASSUME IInv, UNCHANGED <<device, process, waits>>, TablesInv', RightsInv'
  PROVE  IInv'
<1>1. Quiet
  BY DEF Quiet, device, process, waits, IInv, WorldInv
<1>2. WorldInv'
  BY <1>1, QuietWorld DEF IInv
<1>3. NoSurvivor'
  BY DEF IInv, NoSurvivor, MasterStays, device, process, waits
<1> QED BY <1>2, <1>3 DEF IInv

\* A new object.
LEMMA CreateStep ==
  ASSUME IInv, UNCHANGED <<device, process, waits>>,
         NEW k \in Kinds, NEW f \in Files, CreateEntry(k, f)
  PROVE  IInv'
<1>1. TablesInv'
  BY CreateTables DEF IInv
<1>2. RightsInv'
  BY CreateRights DEF IInv, device, process
<1> QED BY <1>1, <1>2, ObjectStep

\* Objects go, or not.
LEMMA DestroyStep ==
  ASSUME IInv, UNCHANGED <<device, process, waits>>, NEW gone, DestroyEntries(gone)
  PROVE  IInv'
<1>1. TablesInv'
  BY DestroyTables DEF IInv
<1>2. RightsInv'
  BY DestroyRights DEF IInv, device, process, Ids
<1> QED BY <1>1, <1>2, ObjectStep

LEMMA KeepStep ==
  ASSUME IInv, UNCHANGED <<device, process, waits, entries, rights>>
  PROVE  IInv'
<1>1. TablesInv'
  BY SameTables DEF IInv
<1>2. RightsInv'
  BY SameRights DEF IInv, device, process, entries, Ids
<1> QED BY <1>1, <1>2, ObjectStep

LEMMA OpenStep ==
  ASSUME IInv, NEW f \in Files, NEW excl \in BOOLEAN, NEW append \in BOOLEAN, Open(f, excl, append)
  PROVE  IInv'
<1>1. WorldInv' /\ NoSurvivor'
  BY OpenWorld, OpenSurvivor DEF IInv
<1>2. CASE refs = 0
  <2>1. NewDevice
    BY <1>2 DEF Open
  <2> QED BY <1>1, <2>1, NewTables, NewRights DEF IInv
<1>3. CASE refs # 0
  <2>1. /\ UNCHANGED <<last_id, ids, entry, table>>
        /\ id' = [id EXCEPT ![f] = 0] /\ rights' = {r \in rights : r[3] # Process(f)}
    BY <1>3 DEF Open, NewFusionee, entries
  <2>2. TablesInv'
    BY <2>1, SameTables DEF IInv, entries
  <2>3. id \in [Files -> Nat]
    BY DEF IInv, WorldInv
  <2>4. Ids
    BY <2>1, <2>3 DEF Ids
  <2>5. ASSUME NEW k, NEW i, NEW r, NEW g \in Files, id'[g] # 0, <<k, i, Process(g), r>> \in rights
        PROVE  <<k, i, Process(g), r>> \in rights'
    <3>1. g # f
      BY <2>1, <2>3, <2>5
    <3>2. Process(g) # Process(f)
      BY <3>1 DEF Process
    <3> QED BY <2>1, <2>5, <3>2
  <2>6. ASSUME NEW k, NEW i, NEW r, NEW g, <<k, i, Future(g), r>> \in rights
        PROVE  <<k, i, Future(g), r>> \in rights'
    <3>1. Future(g) # Process(f)
      BY DEF Future, Process
    <3> QED BY <2>1, <2>6, <3>1
  <2>7. RightsInv'
    BY <2>1, <2>4, <2>5, <2>6, SameRights DEF IInv
  <2> QED BY <1>1, <2>2, <2>7 DEF IInv
<1> QED BY <1>2, <1>3

LEMMA EnterStep ==
  ASSUME IInv, NEW f \in Files, pc[f] \in {"user", "enter"}, id[f] = 0, Enter(f),
         UNCHANGED <<refs, members, killing, exiting, orphans, late, entries, rights>>
  PROVE  IInv'
<1>1. WorldInv' /\ NoSurvivor'
  BY EnterWorld, EnterSurvivor DEF IInv
<1>2. TablesInv'
  BY SameTables DEF IInv
<1>3. RightsInv'
  BY EnterRights DEF IInv, entries
<1> QED BY <1>1, <1>2, <1>3 DEF IInv

\* A process goes on, or to sleep.
LEMMA SleepStep ==
  ASSUME IInv, NEW f \in Files, NEW where, SleepIn(f, where), pc[f] # "closed", where # "closed",
         where = "enter" => id[f] = 0, where = "release" => pc[f] = "release",
         UNCHANGED <<refs, last_id, id, members, entries, rights, orphans, late>>,
         killing \subseteq killing', exiting \subseteq exiting'
  PROVE  IInv'
<1>1. pc = [g \in Files |-> pc[g]] /\ pc' = [pc EXCEPT ![f] = where]
  BY DEF IInv, WorldInv, SleepIn
<1>2. Quiet
  BY <1>1 DEF Quiet
<1> QED BY <1>2, QuietStep

LEMMA WaitStep ==
  ASSUME IInv, UNCHANGED <<refs, last_id, id, members, pc, entries, rights, orphans, late>>,
         killing \subseteq killing', exiting \subseteq exiting'
  PROVE  IInv'
<1>1. Quiet
  BY DEF Quiet, IInv, WorldInv
<1> QED BY <1>1, QuietStep

\* Open, enter, unblock, kill, signals and exit.
LEMMA WorldStepInv ==
  ASSUME IInv, NEW f \in Files, WorldStep(f)
  PROVE  IInv'
<1>1. ASSUME NEW excl \in BOOLEAN, NEW append \in BOOLEAN, Open(f, excl, append)
      PROVE  IInv'
  BY <1>1, OpenStep
<1>2. CASE FusioneeEnter(f)
  <2>1. /\ pc[f] = "user" /\ id[f] = 0 /\ EnterLoop(f)
        /\ UNCHANGED <<refs, members, killing, exiting, orphans, late, entries, rights>>
    BY <1>2 DEF FusioneeEnter, InUser
  <2>2. CASE Enter(f)
    BY <2>1, <2>2, EnterStep
  <2>3. CASE SleepIn(f, "enter") /\ UNCHANGED <<last_id, id, secure>>
    BY <2>1, <2>3, SleepStep
  <2> QED BY <2>1, <2>2, <2>3 DEF EnterLoop
<1>3. CASE EnterResume(f)
  <2>1. /\ pc[f] = "enter" /\ id[f] = 0
        /\ UNCHANGED <<refs, members, killing, exiting, orphans, late, entries, rights>>
    BY <1>3 DEF EnterResume, IInv, WorldInv
  <2>2. CASE Enter(f)
    BY <2>1, <2>2, EnterStep
  <2>3. CASE SleepIn(f, "enter") /\ UNCHANGED <<last_id, id, secure>>
    BY <2>1, <2>3, SleepStep
  <2>4. CASE SleepIn(f, "user") /\ UNCHANGED <<last_id, id, secure>>
    BY <2>1, <2>4, SleepStep
  <2> QED BY <1>3, <2>2, <2>3, <2>4 DEF EnterResume, EnterLoop
<1>4. CASE Unblock(f)
  BY <1>4, WaitStep DEF Unblock, process
<1>5. ASSUME NEW t, NEW wait, FusioneeKill(f, t, wait)
      PROVE  IInv'
  <2>1. /\ UNCHANGED <<refs, last_id, id, members, entries, rights, orphans, late, exiting>>
        /\ pc[f] # "closed" /\ killing \subseteq killing' /\ (UNCHANGED pc \/ SleepIn(f, "kill"))
    BY <1>5 DEF FusioneeKill, KillRound, Shoot, Entered, InUser, device, process
  <2>2. CASE UNCHANGED pc
    BY <2>1, <2>2, WaitStep
  <2>3. CASE SleepIn(f, "kill")
    BY <2>1, <2>3, SleepStep
  <2> QED BY <2>1, <2>2, <2>3
<1>6. CASE KillResume(f)
  <2>1. /\ UNCHANGED <<refs, last_id, id, members, entries, rights, orphans, late, exiting>>
        /\ pc[f] # "closed" /\ killing \subseteq killing'
        /\ SleepIn(f, "user") \/ SleepIn(f, "kill")
    BY <1>6 DEF KillResume, KillReturns, KillRound, Shoot, device, process
  <2>2. CASE SleepIn(f, "user")
    BY <2>1, <2>2, SleepStep
  <2>3. CASE SleepIn(f, "kill")
    BY <2>1, <2>3, SleepStep
  <2> QED BY <2>1, <2>2, <2>3
<1>7. CASE KillTimeout(f)
  BY <1>7, WaitStep DEF KillTimeout, device, process
<1>8. CASE Signal(f)
  BY <1>8, WaitStep DEF Signal, device, process
<1>9. CASE Exit(f)
  BY <1>9, WaitStep DEF Exit, device, waits
<1> QED BY <1>1, <1>2, <1>3, <1>4, <1>5, <1>6, <1>7, <1>8, <1>9 DEF WorldStep

LEMMA PermitInv ==
  ASSUME IInv, NEW f \in Files, Permit(f)
  PROVE  IInv'
<1>1. PICK k \in Kinds, i \in 1..MaxEntries, g \in 0..MaxIds, R \in Grants : AddPermissions(f, k, i, g, R)
  BY DEF Permit
<1>2. TablesInv' /\ RightsInv'
  BY <1>1, GrantTables, GrantRights DEF IInv
<1>3. UNCHANGED <<device, process, waits>>
  BY <1>1 DEF AddPermissions
<1> QED BY <1>2, <1>3, ObjectStep

LEMMA ReactorStepInv ==
  ASSUME IInv, NEW f \in Files, ReactorStep(f)
  PROVE  IInv'
<1>1. CASE ReactorNew(f)
  <2>1. "reactor" \in Kinds
    OBVIOUS
  <2> QED BY <1>1, <2>1, CreateStep DEF ReactorNew
<1>2. ASSUME NEW r, NEW c, Attach(f, r, c)
      PROVE  IInv'
  BY <1>2, KeepStep DEF Attach, OnlyReactors, entries
<1>3. ASSUME NEW r, NEW c, Detach(f, r, c)
      PROVE  IInv'
  <2>1. /\ UNCHANGED <<device, process, waits, ids>>
        /\ DestroyEntries(Only("reactor", r)) \/ UNCHANGED <<entry, table, rights>>
    BY <1>3 DEF Detach, OnlyReactors
  <2> QED BY <2>1, DestroyStep, KeepStep DEF entries
<1>4. ASSUME NEW r, NEW c, NEW self, Dispatch(f, r, c, self)
      PROVE  IInv'
  BY <1>4, KeepStep DEF Dispatch
<1>5. ASSUME NEW r, NEW call, SetCallback(f, r, call)
      PROVE  IInv'
  BY <1>5, KeepStep DEF SetCallback, OnlyReactors, entries
<1>6. ASSUME NEW r, ReactorDestroy(f, r)
      PROVE  IInv'
  <2>1. /\ UNCHANGED <<device, process, waits, ids>>
        /\ DestroyEntries(Only("reactor", r)) \/ UNCHANGED <<entry, table, rights>>
    BY <1>6 DEF ReactorDestroy, OnlyReactors
  <2> QED BY <2>1, DestroyStep, KeepStep DEF entries
<1>7. ASSUME NEW from, Fork(f, from)
      PROVE  IInv'
  BY <1>7, KeepStep DEF Fork, OnlyReactors, entries
<1> QED BY <1>1, <1>2, <1>3, <1>4, <1>5, <1>6, <1>7 DEF ReactorStep

\* The release of a file.
LEMMA ReleaseInv ==
  ASSUME IInv, NEW f \in Files, ReleaseAll(f)
  PROVE  IInv'
<1>1. /\ pc[f] = "user" /\ UNCHANGED last_id /\ members' = members \ {f}
  BY DEF ReleaseAll, Release
<1>2. PICK gone : DestroyEntries(gone)
  BY DEF ReleaseAll, Drop, EndOfWorld
<1>3. TablesInv'
  BY <1>2, DestroyTables DEF IInv
<1>4. CASE Close(f, late) /\ killing' = killing \ {f} /\ ~(id[f] = Master /\ Victims(f, 0) # {})
  <2>1. refs # 0
    BY <1>1, NoneOpen DEF IInv, OpenFiles
  <2>2. id[f] = Master => members \ {f} \subseteq killing \cup exiting \cup orphans \cup late
    BY <1>4 DEF Victims, Living, IInv, WorldInv, OpenFiles
  <2>3. ~MasterStays /\ last_id # 0 => members \subseteq killing \cup exiting \cup orphans \cup late
    BY <2>1 DEF IInv, NoSurvivor
  <2>4. last_id # 0 /\ (~MasterStays \/ id[f] = Master) =>
          members \ {f} \subseteq killing \cup exiting \cup orphans \cup late
    BY <2>2, <2>3
  <2>5. WorldInv' /\ NoSurvivor'
    BY <1>1, <1>4, <2>4, CloseWorld, CloseSurvivor DEF IInv
  <2>6. Ids
    BY <1>1, <1>4 DEF Close, Ids, IInv, WorldInv
  <2> QED BY <1>2, <1>3, <2>5, <2>6, DestroyRights DEF IInv
<1>5. CASE /\ id[f] = Master /\ SleepIn(f, "release") /\ Shoot(Victims(f, 0))
           /\ UNCHANGED <<refs, id, force_slave, exiting, orphans, late, pending>>
  <2>1. pc' = [pc EXCEPT ![f] = "release"] /\ killing' = killing \cup Victims(f, 0)
    BY <1>5 DEF SleepIn, Shoot
  <2>2. OpenFiles' = OpenFiles
    BY <1>1, <2>1 DEF OpenFiles, IInv, WorldInv
  <2>3. WorldInv'
    BY <1>1, <1>5, <2>1, <2>2 DEF IInv, WorldInv
  <2>4. members' \subseteq killing' \cup exiting'
    BY <1>1, <1>5, <2>1 DEF Victims, Living, IInv, WorldInv, OpenFiles
  <2>5. NoSurvivor'
    BY <2>4 DEF NoSurvivor
  <2>6. Ids
    BY <1>1, <1>5 DEF Ids
  <2> QED BY <1>2, <1>3, <2>3, <2>5, <2>6, DestroyRights DEF IInv
<1> QED BY <1>4, <1>5 DEF ReleaseAll, Release

\* The release of a master after its sleep.
LEMMA ReleaseResumeInv ==
  ASSUME IInv, NEW f \in Files, ReleaseAllResume(f)
  PROVE  IInv'
<1>1. pc[f] = "release" /\ UNCHANGED <<last_id, members>> /\ f \notin members
  BY DEF ReleaseAllResume, ReleaseResume, IInv, WorldInv
<1>2. (\E gone : DestroyEntries(gone)) \/ UNCHANGED <<entries, rights>>
  BY DEF ReleaseAllResume, EndOfWorld
<1>3. TablesInv'
  BY <1>2, DestroyTables, SameTables DEF IInv
<1>4. ASSUME Ids
      PROVE  RightsInv'
  BY <1>2, <1>4, DestroyRights, SameRights DEF IInv, entries
<1>5. CASE /\ Close(f, IF f \in pending THEN late ELSE {}) /\ killing' = killing \ {f}
           /\ f \in pending \/ Victims(f, 0) = {}
  <2>1. PICK latecomers : latecomers = IF f \in pending THEN late ELSE {}
    OBVIOUS
  <2>2. members \ {f} \subseteq killing \cup exiting \cup orphans \cup latecomers
    <3>1. CASE f \in pending
      <4>1. id[f] = Master /\ last_id # 0
        BY <1>1 DEF IInv, WorldInv
      <4>2. ~MasterStays
        BY <1>1, <4>1 DEF MasterStays, IInv, WorldInv
      <4>3. refs # 0
        BY <4>1, NoneOpen DEF IInv
      <4> QED BY <2>1, <3>1, <4>1, <4>2, <4>3 DEF IInv, NoSurvivor
    <3>2. CASE f \notin pending
      <4>1. Victims(f, 0) = {}
        BY <1>5, <3>2
      <4> QED BY <4>1 DEF Victims, Living, IInv, WorldInv, OpenFiles
    <3> QED BY <3>1, <3>2
  <2>3. members' = members \ {f}
    BY <1>1
  <2>4. WorldInv' /\ NoSurvivor'
    BY <1>1, <1>5, <2>1, <2>2, <2>3, CloseWorld, CloseSurvivor DEF IInv
  <2>5. Ids
    BY <1>1, <1>5 DEF Close, Ids, IInv, WorldInv
  <2> QED BY <1>3, <1>4, <2>4, <2>5 DEF IInv
<1>6. CASE KillRound(f, 0, "release") /\ UNCHANGED <<refs, id, force_slave, exiting, orphans, late, pending>>
  <2>1. pc' = [pc EXCEPT ![f] = "release"] /\ killing \subseteq killing'
    BY <1>6 DEF KillRound, SleepIn, Shoot
  <2>2. Quiet
    BY <1>1, <1>6, <2>1 DEF Quiet, IInv, WorldInv
  <2>3. WorldInv'
    BY <2>2, QuietWorld DEF IInv
  <2>4. MasterStays => MasterStays'
    BY <2>2 DEF MasterStays, Quiet, IInv, WorldInv
  <2>5. NoSurvivor'
    BY <1>1, <1>6, <2>1, <2>4, KeptSurvivor DEF IInv, Doomed
  <2>6. Ids
    BY <1>1, <1>6 DEF Ids
  <2> QED BY <1>3, <1>4, <2>3, <2>5, <2>6 DEF IInv
<1> QED BY <1>5, <1>6 DEF ReleaseAllResume, ReleaseResume

LEMMA QuotaStepInv ==
  ASSUME IInv, NEW f \in Files, QuotaStep(f)
  PROVE  IInv'
<1>1. CASE CallNew(f)
  <2>1. "call" \in Kinds
    OBVIOUS
  <2> QED BY <1>1, <2>1, CreateStep DEF CallNew
<1>2. ASSUME NEW c, NEW i, NEW limit, SetQuota(f, c, i, limit)
      PROVE  IInv'
  BY <1>2, WaitStep DEF SetQuota, device, process
<1>3. ASSUME NEW c, CallDestroy(f, c)
      PROVE  IInv'
  BY <1>3, DestroyStep DEF CallDestroy
<1>4. ASSUME NEW c, NEW done, NEW before, ExecuteLoop(f, c, done, before), pc[f] # "closed", OnlyBatches
      PROVE  IInv'
  <2>1. UNCHANGED <<refs, last_id, id, members, entries, rights, orphans, late, killing, exiting>>
    BY <1>4 DEF OnlyBatches, device, process
  <2>2. SleepIn(f, "quota") \/ SleepIn(f, "user")
    BY <1>4 DEF ExecuteLoop
  <2> QED BY <1>4, <2>1, <2>2, SleepStep
<1>5. ASSUME SleepIn(f, "user"), pc[f] # "closed", OnlyBatches
      PROVE  IInv'
  <2>1. UNCHANGED <<refs, last_id, id, members, entries, rights, orphans, late, killing, exiting>>
    BY <1>5 DEF OnlyBatches, device, process
  <2> QED BY <1>5, <2>1, SleepStep
<1>6. ASSUME NEW c, Execute(f, c)
      PROVE  IInv'
  BY <1>4, <1>6 DEF Execute, MayUse, Entered, InUser
<1>7. CASE ExecuteAgain(f)
  <2>1. pc[f] # "closed" /\ OnlyBatches
        /\ (SleepIn(f, "user") \/ \E c, done, before : ExecuteLoop(f, c, done, before))
    BY <1>7 DEF ExecuteAgain, ExecuteFails, Entered, InUser
  <2> QED BY <1>4, <1>5, <2>1
<1>8. CASE ExecuteResume(f)
  <2>1. pc[f] # "closed" /\ OnlyBatches
        /\ (SleepIn(f, "user") \/ \E c, done, before : ExecuteLoop(f, c, done, before))
    BY <1>8 DEF ExecuteResume, ExecuteFails
  <2> QED BY <1>4, <1>5, <2>1
<1>9. CASE Receive(f)
  BY <1>9, WaitStep DEF Receive, device, process
<1>10. CASE ReleaseAll(f)
  BY <1>10, ReleaseInv
<1>11. CASE ReleaseAllResume(f)
  BY <1>11, ReleaseResumeInv
<1> QED BY <1>1, <1>2, <1>3, <1>6, <1>7, <1>8, <1>9, <1>10, <1>11 DEF QuotaStep

\* The invariant is inductive.
LEMMA NextInv == IInv /\ [Next]_vars => IInv'
<1> SUFFICES ASSUME IInv, [Next]_vars
             PROVE  IInv'
  OBVIOUS
<1>1. ASSUME NEW f \in Files, Alone(WorldStep(f) \/ Permit(f))
      PROVE  IInv'
  BY <1>1, WorldStepInv, PermitInv DEF Alone
<1>2. ASSUME NEW f \in Files, ReactorStep(f)
      PROVE  IInv'
  BY <1>2, ReactorStepInv
<1>3. ASSUME NEW f \in Files, QuotaStep(f)
      PROVE  IInv'
  BY <1>3, QuotaStepInv
<1>4. CASE UNCHANGED vars
  BY <1>4, KeepStep DEF vars, worldVars
<1> QED BY <1>1, <1>2, <1>3, <1>4 DEF Next

\* IInv holds in every world.
THEOREM Invariance == Spec => []IInv
BY InitInv, NextInv, PTL DEF Spec

\* The lookup of fusion_entry_lookup agrees with the list of entries, whatever
\* is created and destroyed.
THEOREM TablesCorrect == Spec => []TablesAgree
<1>1. IInv => TablesAgree
  BY InvImpliesTablesAgree DEF IInv
<1> QED BY <1>1, Invariance, PTL

\* What check_permission grants was given to that process, or to everybody, or ahead to
\* the id with which the process entered later.
THEOREM RightsCorrect == Spec => []RightsAreGranted
<1>1. IInv => RightsAreGranted
  BY InvImpliesRightsAreGranted DEF IInv
<1> QED BY <1>1, Invariance, PTL

\* Nobody lives on without the master who opened the device before it began to leave;
\* who opened while it waited for the others does so only when a signal ended the wait.
THEOREM NobodySurvives == Spec => []NoSurvivor
<1>1. IInv => NoSurvivor
  BY DEF IInv
<1> QED BY <1>1, Invariance, PTL

-----------------------------------------------------------------------------
(* Counting the callbacks in the queues *)

Positions(s, cb) == {i \in DOMAIN s : s[i] = cb}

\* Sets with a map between them that hits each element once have the same size.
LEMMA SameSize ==
  ASSUME NEW S, NEW T, NEW F \in [S -> T], IsFiniteSet(S),
         \A a, b \in S : F[a] = F[b] => a = b, \A t \in T : \E a \in S : F[a] = t
  PROVE  IsFiniteSet(T) /\ Cardinality(T) = Cardinality(S)
<1>1. F \in Bijection(S, T)
  BY Fun_IsBij
<1> QED BY <1>1, FS_Bijection DEF ExistsBijection

LEMMA CountType ==
  ASSUME NEW X, NEW s \in Seq(X), NEW cb
  PROVE  IsFiniteSet(Positions(s, cb)) /\ CountIn(s, cb) = Cardinality(Positions(s, cb)) /\ CountIn(s, cb) \in Nat
<1>1. Len(s) \in Nat /\ DOMAIN s = 1..Len(s)
  OBVIOUS
<1>2. IsFiniteSet(1..Len(s))
  BY <1>1, FS_Interval
<1>3. Positions(s, cb) \subseteq 1..Len(s)
  BY <1>1 DEF Positions
<1>4. IsFiniteSet(Positions(s, cb))
  BY <1>2, <1>3, FS_Subset
<1> QED BY <1>4, FS_CardinalityType DEF CountIn, Positions

LEMMA CountNone ==
  ASSUME NEW s, NEW cb, \A i \in DOMAIN s : s[i] # cb
  PROVE  CountIn(s, cb) = 0
<1>1. {i \in DOMAIN s : s[i] = cb} = {}
  OBVIOUS
<1> QED BY <1>1, FS_EmptySet DEF CountIn

LEMMA ConcatFacts ==
  ASSUME NEW X, NEW s \in Seq(X), NEW t \in Seq(X)
  PROVE  /\ s \o t \in Seq(X) /\ Len(s) \in Nat /\ Len(t) \in Nat
         /\ Len(s \o t) = Len(s) + Len(t) /\ DOMAIN (s \o t) = 1..(Len(s) + Len(t))
         /\ \A i \in 1..Len(s) : (s \o t)[i] = s[i]
         /\ \A i \in 1..Len(t) : (s \o t)[Len(s) + i] = t[i]
<1>1. /\ s \o t \in Seq(X) /\ Len(s \o t) = Len(s) + Len(t) /\ Len(s) \in Nat /\ Len(t) \in Nat
      /\ \A i \in 1..Len(s) : (s \o t)[i] = s[i]
      /\ \A i \in 1..Len(t) : (s \o t)[Len(s) + i] = t[i]
  BY ConcatProperties
<1> DEFINE u == s \o t
<1>2. u \in Seq(X) /\ Len(u) = Len(s) + Len(t)
  BY <1>1
<1> HIDE DEF u
<1>3. DOMAIN u = 1..(Len(s) + Len(t))
  BY <1>2
<1> QED BY <1>1, <1>3 DEF u

LEMMA CountConcat ==
  ASSUME NEW X, NEW s \in Seq(X), NEW t \in Seq(X), NEW cb
  PROVE  s \o t \in Seq(X) /\ CountIn(s \o t, cb) = CountIn(s, cb) + CountIn(t, cb)
<1> DEFINE n == Len(s)
           A == Positions(s, cb)
           B == Positions(t, cb)
           C == {n + i : i \in B}
<1>1. /\ s \o t \in Seq(X) /\ Len(s \o t) = n + Len(t) /\ n \in Nat /\ Len(t) \in Nat
      /\ \A i \in 1..n : (s \o t)[i] = s[i]
      /\ \A i \in 1..Len(t) : (s \o t)[n + i] = t[i]
  BY ConcatProperties
<1>2. /\ IsFiniteSet(A) /\ CountIn(s, cb) = Cardinality(A) /\ IsFiniteSet(B) /\ CountIn(t, cb) = Cardinality(B)
      /\ CountIn(s \o t, cb) = Cardinality(Positions(s \o t, cb)) /\ CountIn(s, cb) \in Nat /\ CountIn(t, cb) \in Nat
  BY <1>1, CountType
<1>3. A \subseteq 1..n /\ B \subseteq 1..Len(t)
  BY <1>1 DEF Positions
<1>4. Positions(s \o t, cb) = A \cup C
  <2>1. ASSUME NEW i \in Positions(s \o t, cb)
        PROVE  i \in A \cup C
    <3>1. i \in 1..(n + Len(t)) /\ (s \o t)[i] = cb
      BY <1>1, <2>1 DEF Positions
    <3>2. CASE i <= n
      BY <1>1, <3>1, <3>2 DEF Positions
    <3>3. CASE i > n
      <4>1. i - n \in 1..Len(t) /\ i = n + (i - n)
        BY <1>1, <3>1, <3>3
      <4>2. i - n \in B
        BY <1>1, <3>1, <4>1 DEF Positions
      <4> QED BY <4>1, <4>2
    <3> QED BY <1>1, <3>1, <3>2, <3>3
  <2>2. ASSUME NEW i \in A
        PROVE  i \in Positions(s \o t, cb)
    BY <1>1, <1>3 DEF Positions
  <2>3. ASSUME NEW i \in B
        PROVE  n + i \in Positions(s \o t, cb)
    BY <1>1, <1>3 DEF Positions
  <2> QED BY <2>1, <2>2, <2>3
<1>5. IsFiniteSet(C) /\ Cardinality(C) = Cardinality(B)
  <2> DEFINE F == [i \in B |-> n + i]
  <2>1. F \in [B -> C] /\ \A a, b \in B : F[a] = F[b] => a = b
    BY <1>1, <1>3
  <2>2. \A c \in C : \E a \in B : F[a] = c
    OBVIOUS
  <2> HIDE DEF F, C, B
  <2> QED BY <1>2, <2>1, <2>2, SameSize, SMTT(20)
<1>6. A \cap C = {}
  BY <1>1, <1>3
<1> HIDE DEF A, B, C, n
<1>7. Cardinality(A \cup C) = Cardinality(A) + Cardinality(C) - Cardinality(A \cap C)
  BY <1>2, <1>5, FS_Union
<1>8. Cardinality(A \cap C) = 0
  BY <1>6, FS_EmptySet
<1>9. Cardinality(A) \in Nat /\ Cardinality(B) \in Nat /\ Cardinality(C) = Cardinality(B)
  BY <1>2, <1>5
<1>10. Cardinality(A \cup C) = Cardinality(A) + Cardinality(B)
  BY <1>7, <1>8, <1>9
<1> QED BY <1>1, <1>2, <1>4, <1>10

\* What is read of a queue and what is left.
LEMMA CountSplit ==
  ASSUME NEW X, NEW s \in Seq(X), NEW n \in 0..Len(s), NEW cb
  PROVE  /\ SubSeq(s, 1, n) \in Seq(X) /\ SubSeq(s, n + 1, Len(s)) \in Seq(X)
         /\ CountIn(s, cb) = CountIn(SubSeq(s, 1, n), cb) + CountIn(SubSeq(s, n + 1, Len(s)), cb)
<1> DEFINE a == SubSeq(s, 1, n)
           b == SubSeq(s, n + 1, Len(s))
<1>1. n \in Nat /\ Len(s) \in Nat /\ n <= Len(s)
  OBVIOUS
<1>2. /\ a \in Seq(X) /\ Len(a) = n /\ \A i \in 1..n : a[i] = s[i]
  BY <1>1, SubSeqProperties
<1>3. b \in Seq(X) /\ Len(b) = Len(s) - n /\ \A i \in 1..(Len(s) - n) : b[i] = s[n + i]
  BY <1>1, SubSeqProperties
<1> HIDE DEF a, b
<1>4. a \o b = s
  <2>1. /\ a \o b \in Seq(X) /\ Len(a \o b) = Len(s)
        /\ \A i \in 1..n : (a \o b)[i] = a[i] /\ \A j \in 1..(Len(s) - n) : (a \o b)[n + j] = b[j]
    BY <1>1, <1>2, <1>3, ConcatProperties
  <2>2. ASSUME NEW i \in 1..Len(s)
        PROVE  (a \o b)[i] = s[i]
    <3>1. CASE i <= n
      BY <1>1, <1>2, <1>3, <3>1, ConcatProperties
    <3>2. CASE i > n
      <4>1. i - n \in 1..Len(b) /\ i = n + (i - n)
        BY <1>1, <1>3, <3>2
      <4>2. (a \o b)[n + (i - n)] = b[i - n]
        BY <1>2, <1>3, <4>1, ConcatProperties
      <4> QED BY <1>3, <4>1, <4>2
    <3>3. i <= n \/ i > n
      BY <1>1
    <3> QED BY <3>1, <3>2, <3>3
  <2> QED BY <2>1, <2>2, SeqEqual
<1>5. CountIn(a \o b, cb) = CountIn(a, cb) + CountIn(b, cb)
  BY <1>2, <1>3, CountConcat
<1> QED BY <1>2, <1>3, <1>4, <1>5 DEF a, b

\* What the parts hold.
LEMMA SplitFacts ==
  ASSUME NEW X, NEW s \in Seq(X), NEW n \in 0..Len(s)
  PROVE  /\ \A j \in DOMAIN SubSeq(s, 1, n) : \E i \in DOMAIN s : SubSeq(s, 1, n)[j] = s[i]
         /\ \A j \in DOMAIN SubSeq(s, n + 1, Len(s)) : \E i \in DOMAIN s : SubSeq(s, n + 1, Len(s))[j] = s[i]
<1> DEFINE a == SubSeq(s, 1, n)
           b == SubSeq(s, n + 1, Len(s))
<1>1. n \in Nat /\ Len(s) \in Nat /\ n <= Len(s)
  OBVIOUS
<1>2. /\ a \in Seq(X) /\ Len(a) = n /\ \A i \in 1..n : a[i] = s[i]
  BY <1>1, SubSeqProperties
<1>3. b \in Seq(X) /\ Len(b) = Len(s) - n /\ \A i \in 1..(Len(s) - n) : b[i] = s[n + i]
  BY <1>1, SubSeqProperties
<1> HIDE DEF a, b
<1>4. DOMAIN a = 1..n /\ DOMAIN b = 1..(Len(s) - n) /\ DOMAIN s = 1..Len(s)
  BY <1>2, <1>3
<1>5. \A j \in DOMAIN a : j \in DOMAIN s /\ a[j] = s[j]
  BY <1>1, <1>2, <1>4
<1>6. \A j \in DOMAIN b : n + j \in DOMAIN s /\ b[j] = s[n + j]
  BY <1>1, <1>3, <1>4
<1> QED BY <1>5, <1>6 DEF a, b

\* A number of messages with the same callback.
LEMMA CountCopies ==
  ASSUME NEW n \in Nat, NEW cb
  PROVE  CountIn([k \in 1..n |-> cb], cb) = n
<1>1. {i \in DOMAIN [k \in 1..n |-> cb] : [k \in 1..n |-> cb][i] = cb} = 1..n
  OBVIOUS
<1>2. Cardinality(1..n) = n
  BY FS_Interval
<1> QED BY <1>1, <1>2 DEF CountIn

LEMMA PlaceFacts ==
  ASSUME NEW q, NEW cb, NEW x
  PROVE  x \in Places(q, cb) <=> \E f \in Files : \E i \in DOMAIN q[f] : q[f][i] = cb /\ x = <<f, i>>
<1>1. ASSUME x \in Places(q, cb)
      PROVE  \E f \in Files : \E i \in DOMAIN q[f] : q[f][i] = cb /\ x = <<f, i>>
  <2>1. PICK f \in Files : x \in {f} \X {i \in DOMAIN q[f] : q[f][i] = cb}
    BY <1>1 DEF Places
  <2> QED BY <2>1
<1>2. ASSUME NEW f \in Files, NEW i \in DOMAIN q[f], q[f][i] = cb, x = <<f, i>>
      PROVE  x \in Places(q, cb)
  <2>1. x \in {f} \X {j \in DOMAIN q[f] : q[f][j] = cb}
    BY <1>2
  <2> QED BY <2>1 DEF Places
<1> QED BY <1>1, <1>2

LEMMA PlacesNone ==
  ASSUME NEW q, NEW cb, \A f \in Files : \A i \in DOMAIN q[f] : q[f][i] # cb
  PROVE  Places(q, cb) = {} /\ Cardinality(Places(q, cb)) = 0
<1>1. Places(q, cb) = {}
  BY PlaceFacts
<1> QED BY <1>1, FS_EmptySet

\* The same callbacks at the same places.
LEMMA PlacesSame ==
  ASSUME NEW q, NEW r, NEW cb,
         \A f \in Files : \A i : i \in DOMAIN q[f] /\ q[f][i] = cb <=> i \in DOMAIN r[f] /\ r[f][i] = cb
  PROVE  Places(q, cb) = Places(r, cb)
<1>1. ASSUME NEW x \in Places(q, cb)
      PROVE  x \in Places(r, cb)
  BY PlaceFacts
<1>2. ASSUME NEW x \in Places(r, cb)
      PROVE  x \in Places(q, cb)
  BY PlaceFacts
<1> QED BY <1>1, <1>2

\* The queues hold finitely many messages: those of finitely many fusionees.
LEMMA PlacesFinite ==
  ASSUME NEW X, NEW q \in [Files -> Seq(X)], NEW cb, NEW M \in SUBSET Files, IsFiniteSet(M),
         \A f \in Files \ M : q[f] = <<>>
  PROVE  IsFiniteSet(Places(q, cb)) /\ Cardinality(Places(q, cb)) \in Nat
<1> DEFINE At(f) == {f} \X Positions(q[f], cb)
           G == [f \in M |-> At(f)]
           T == {At(f) : f \in M}
<1>1. ASSUME NEW f \in M
      PROVE  IsFiniteSet(At(f))
  <2>1. IsFiniteSet({f})
    BY FS_Singleton
  <2>2. IsFiniteSet(Positions(q[f], cb))
    BY CountType
  <2> QED BY <2>1, <2>2, FS_Product
<1>2. IsFiniteSet(T)
  <2>1. G \in [M -> T] /\ \A t \in T : \E f \in M : G[f] = t
    OBVIOUS
  <2> HIDE DEF G, T
  <2>2. G \in Surjection(M, T)
    BY <2>1, Fun_IsSurj
  <2> QED BY <2>2, FS_Surjection
<1>3. IsFiniteSet(UNION T)
  <2>1. \A t \in T : IsFiniteSet(t)
    BY <1>1
  <2> HIDE DEF T
  <2> QED BY <1>2, <2>1, FS_UNION
<1>4. ASSUME NEW x \in Places(q, cb)
      PROVE  x \in UNION T
  <2>1. PICK f \in Files : \E i \in DOMAIN q[f] : q[f][i] = cb /\ x = <<f, i>>
    BY PlaceFacts
  <2>2. PICK i \in DOMAIN q[f] : q[f][i] = cb /\ x = <<f, i>>
    BY <2>1
  <2>3. f \in M
    BY <2>2
  <2>4. x \in At(f)
    BY <2>2 DEF Positions
  <2> QED BY <2>3, <2>4
<1> HIDE DEF T
<1>5. IsFiniteSet(Places(q, cb))
  BY <1>3, <1>4, FS_Subset
<1> QED BY <1>5, FS_CardinalityType

\* The places in the queue of one fusionee, and in the others.
LEMMA PlacesParts ==
  ASSUME NEW X, NEW q \in [Files -> Seq(X)], NEW cb, NEW f \in Files, IsFiniteSet(Places(q, cb))
  PROVE  LET Rest == {x \in Places(q, cb) : x[1] # f} IN
         /\ IsFiniteSet(Rest) /\ Cardinality(Rest) \in Nat /\ CountIn(q[f], cb) \in Nat
         /\ Cardinality(Places(q, cb)) = Cardinality(Rest) + CountIn(q[f], cb)
<1> DEFINE P == Places(q, cb)
           Rest == {x \in P : x[1] # f}
           A == Positions(q[f], cb)
           Here == {f} \X A
<1>1. IsFiniteSet(A) /\ CountIn(q[f], cb) = Cardinality(A) /\ CountIn(q[f], cb) \in Nat
  BY CountType
<1>2. P = Rest \cup Here
  <2>1. ASSUME NEW x \in P, x[1] = f
        PROVE  x \in Here
    BY <2>1, PlaceFacts DEF Positions
  <2>2. ASSUME NEW i \in A
        PROVE  <<f, i>> \in P
    BY PlaceFacts DEF Positions
  <2> QED BY <2>1, <2>2
<1>3. Rest \cap Here = {}
  OBVIOUS
<1>4. IsFiniteSet(Rest) /\ Cardinality(Rest) \in Nat
  BY FS_Subset, FS_CardinalityType
<1>5. IsFiniteSet(Here) /\ Cardinality(Here) = Cardinality(A)
  <2>1. IsFiniteSet({f}) /\ Cardinality({f}) = 1
    BY FS_Singleton
  <2> HIDE DEF A
  <2>2. IsFiniteSet(Here) /\ Cardinality(Here) = 1 * Cardinality(A)
    BY <1>1, <2>1, FS_Product
  <2> QED BY <1>1, <2>2
<1> HIDE DEF P, Rest, Here, A
<1>6. Cardinality(Rest \cup Here) = Cardinality(Rest) + Cardinality(Here) - Cardinality(Rest \cap Here)
  BY <1>4, <1>5, FS_Union
<1>7. Cardinality(Rest \cap Here) = 0
  BY <1>3, FS_EmptySet
<1>8. Cardinality(P) = Cardinality(Rest) + CountIn(q[f], cb)
  BY <1>1, <1>2, <1>4, <1>5, <1>6, <1>7
<1> QED BY <1>1, <1>4, <1>8 DEF P, Rest

\* The queues of the others stay as they are.
Elsewhere(q, r, f) == \A g \in Files \ {f} : r[g] = q[g]

\* The number of places changes by what the queue of f holds.
Moved(q, r, f, cb) ==
  /\ Cardinality(Places(q, cb)) \in Nat /\ Cardinality(Places(r, cb)) \in Nat
  /\ CountIn(q[f], cb) \in Nat /\ CountIn(r[f], cb) \in Nat
  /\ CountIn(q[f], cb) <= Cardinality(Places(q, cb))
  /\ Cardinality(Places(r, cb)) = Cardinality(Places(q, cb)) - CountIn(q[f], cb) + CountIn(r[f], cb)

\* The queue of one fusionee changes.
LEMMA PlacesChange ==
  ASSUME NEW X, NEW q \in [Files -> Seq(X)], NEW r \in [Files -> Seq(X)], NEW cb, NEW f \in Files,
         IsFiniteSet(Places(q, cb)), IsFiniteSet(Places(r, cb)), Elsewhere(q, r, f)
  PROVE  Moved(q, r, f, cb)
<1> DEFINE Q == {x \in Places(q, cb) : x[1] # f}
           R == {x \in Places(r, cb) : x[1] # f}
<1>1. /\ IsFiniteSet(Q) /\ Cardinality(Q) \in Nat /\ CountIn(q[f], cb) \in Nat
      /\ Cardinality(Places(q, cb)) = Cardinality(Q) + CountIn(q[f], cb)
  BY PlacesParts
<1>2. /\ CountIn(r[f], cb) \in Nat
      /\ Cardinality(Places(r, cb)) = Cardinality(R) + CountIn(r[f], cb)
  BY PlacesParts
<1>3. Q = R
  <2>1. ASSUME NEW x \in Q
        PROVE  x \in R
    BY PlaceFacts DEF Elsewhere
  <2>2. ASSUME NEW x \in R
        PROVE  x \in Q
    BY PlaceFacts DEF Elsewhere
  <2> QED BY <2>1, <2>2
<1> HIDE DEF Q, R
<1> QED BY <1>1, <1>2, <1>3 DEF Moved

-----------------------------------------------------------------------------
(* The invariant of the callbacks *)

AnyCallback ==
  {NoCallback} \cup {DispatchCallback(d) : d \in Nat} \cup {QuotaCallback(c, i) : c \in Nat, i \in Nat}

\* A process that is in user space, or sleeps in an ioctl, is a member.
Present == \A f \in Files : pc[f] \notin {"closed", "release"} => f \in members

\* A callback in a queue of g is that of a dispatch, or of a quota of its calls.
Queued(s, g) ==
  \A j \in DOMAIN s :
    \/ s[j] = NoCallback
    \/ \E d \in DOMAIN dispatches : s[j] = DispatchCallback(d)
    \/ \E c \in OwnedBy(g) : \E i \in DOMAIN quotas[c] : s[j] = QuotaCallback(c, i)

QueueInv ==
  /\ inbox \in [Files -> Seq(AnyCallback)] /\ prev \in [Files -> Seq(AnyCallback)]
  /\ \A f \in Files \ members : inbox[f] = <<>> /\ prev[f] = <<>>
  /\ \A g \in Files : Queued(inbox[g], g) /\ Queued(prev[g], g)

\* Who is attached to a reactor is a member, and so is the owner of a call.
MemberIds == {id[f] : f \in members} \ {0}

NodesInv ==
  /\ DOMAIN reactor = 1..MaxEntries
  /\ \A r \in 1..MaxEntries : "nodes" \in DOMAIN reactor[r] /\ DOMAIN reactor[r].nodes \subseteq MemberIds

OwnerInv == \A c \in DOMAIN entry["call"] : c \in 1..MaxEntries /\ \E f \in members : c \in OwnedBy(f)

\* The state of a dispatch, of whose messages n are outstanding, when the
\* reactors of a set are there.
Counted(d, n, live) ==
  /\ d = [reactor |-> d.reactor, call |-> d.call, count |-> d.count, freed |-> d.freed, fired |-> d.fired]
  /\ d.count \in Nat /\ d.count >= n
  /\ d.freed => n = 0
  /\ d.fired \in {0, 1} /\ (d.fired = 1 => n = 0)
  /\ d.reactor \in live => d.count = n /\ (n = 0 => d.fired = 1)

DispatchInv ==
  /\ \E X : dispatches \in Seq(X)
  /\ \A d \in DOMAIN dispatches : Counted(dispatches[d], Outstanding(DispatchCallback(d)), Reactors)
  /\ \A d \in DOMAIN dispatches : dispatches[d].reactor \in 1..ids["reactor"]
  /\ refs = 0 => dispatches = <<>>

QuotaRecord == [count : Nat, limit : Nat, peak : Nat]

QuotaOk(q, n) == q \in QuotaRecord /\ q.limit <= q.peak /\ q.count <= q.peak /\ q.count = n

QuotaInv ==
  /\ DOMAIN quotas = 1..MaxEntries
  /\ \A c \in 1..MaxEntries : quotas[c] = [i \in DOMAIN quotas[c] |-> quotas[c][i]] /\ DOMAIN quotas[c] \subseteq Nat
  /\ \A c \in 1..MaxEntries : \A i \in DOMAIN quotas[c] : QuotaOk(quotas[c][i], Outstanding(QuotaCallback(c, i)))

CountInv == QueueInv /\ NodesInv /\ OwnerInv /\ DispatchInv /\ QuotaInv

BatchInv ==
  /\ batch \in [Files -> [call : 0..MaxEntries, done : 0..BatchSize]]
  /\ got \in [Files -> Seq(1..BatchSize)]
  /\ \A f \in Files : \A n \in DOMAIN got[f] : got[f][n] = n
  /\ \A f \in Files : batch[f].call # 0 => Len(got[f]) = batch[f].done

-----------------------------------------------------------------------------
(* What the invariant says of callbacks and calls *)

LEMMA CallbackFacts ==
  /\ NoCallback \in AnyCallback /\ NoCallback.kind = "none"
  /\ \A d \in Nat : DispatchCallback(d) \in AnyCallback
  /\ \A c, i \in Nat : QuotaCallback(c, i) \in AnyCallback
  /\ \A d : DispatchCallback(d).kind = "dispatch" /\ DispatchCallback(d).ctx = d
  /\ \A c, i : /\ QuotaCallback(c, i).kind = "quota" /\ QuotaCallback(c, i).ctx = <<c, i>>
               /\ QuotaCallback(c, i).ctx[1] = c /\ QuotaCallback(c, i).ctx[2] = i
<1>1. /\ NoCallback \in AnyCallback
      /\ \A d \in Nat : DispatchCallback(d) \in AnyCallback
      /\ \A c, i \in Nat : QuotaCallback(c, i) \in AnyCallback
  BY DEF AnyCallback
<1>2. NoCallback.kind = "none"
  BY DEF NoCallback
<1>3. \A d : DispatchCallback(d).kind = "dispatch" /\ DispatchCallback(d).ctx = d
  BY DEF DispatchCallback
<1>4. \A c, i : /\ QuotaCallback(c, i).kind = "quota" /\ QuotaCallback(c, i).ctx = <<c, i>>
                /\ QuotaCallback(c, i).ctx[1] = c /\ QuotaCallback(c, i).ctx[2] = i
  BY DEF QuotaCallback
<1> QED BY <1>1, <1>2, <1>3, <1>4

LEMMA CallbacksDiffer ==
  /\ \A d, e : DispatchCallback(d) = DispatchCallback(e) => d = e
  /\ \A c, i, b, j : QuotaCallback(c, i) = QuotaCallback(b, j) => c = b /\ i = j
  /\ \A d, c, i : DispatchCallback(d) # QuotaCallback(c, i)
  /\ \A d : DispatchCallback(d) # NoCallback
  /\ \A c, i : QuotaCallback(c, i) # NoCallback
<1>1. \A d, e : DispatchCallback(d) = DispatchCallback(e) => d = e
  BY CallbackFacts
<1>2. \A c, i, b, j : QuotaCallback(c, i) = QuotaCallback(b, j) => c = b /\ i = j
  BY CallbackFacts
<1>3. "quota" # "dispatch" /\ "quota" # "none" /\ "dispatch" # "none"
  OBVIOUS
<1>4. /\ \A d, c, i : DispatchCallback(d) # QuotaCallback(c, i)
      /\ \A d : DispatchCallback(d) # NoCallback
      /\ \A c, i : QuotaCallback(c, i) # NoCallback
  BY <1>3, CallbackFacts
<1> QED BY <1>1, <1>2, <1>4

\* A call has one owner.
LEMMA OneOwner ==
  ASSUME WorldInv, NEW f \in Files, NEW g \in Files, NEW c, c \in OwnedBy(f), c \in OwnedBy(g)
  PROVE  f = g
BY DEF WorldInv, OwnedBy

LEMMA OwnedIsEntry ==
  ASSUME TablesInv, NEW f, NEW c \in OwnedBy(f)
  PROVE  c \in DOMAIN entry["call"] /\ c \in 1..ids["call"]
BY DEF OwnedBy, TablesInv

LEMMA ExistsIsEntry ==
  ASSUME TablesInv, NEW k \in Kinds, NEW i \in Nat, Exists(k, i)
  PROVE  i \in DOMAIN entry[k]
<1> DEFINE S == DOMAIN entry[k]
<1>1. Holds(table[k], Pairs(S))
  BY DEF TablesInv
<1> HIDE DEF S
<1>2. (\A n \in Pairs(S) : n.key # i) => HashLookup(table[k], i) = NULL
  BY <1>1, LookupFinds
<1>3. i \in S
  BY <1>2, PairsOfKeys DEF Exists
<1> QED BY <1>3 DEF S

LEMMA MembersFinite ==
  ASSUME WorldInv
  PROVE  IsFiniteSet(members) /\ members \subseteq Files
BY FS_Subset DEF WorldInv, OpenFiles

\* Finitely many messages are outstanding.
LEMMA OutstandingType ==
  ASSUME WorldInv, QueueInv, NEW cb
  PROVE  /\ IsFiniteSet(Places(inbox, cb)) /\ IsFiniteSet(Places(prev, cb))
         /\ Cardinality(Places(inbox, cb)) \in Nat /\ Cardinality(Places(prev, cb)) \in Nat
         /\ Outstanding(cb) = Cardinality(Places(inbox, cb)) + Cardinality(Places(prev, cb))
         /\ Outstanding(cb) \in Nat
<1>1. IsFiniteSet(members) /\ members \in SUBSET Files
  BY MembersFinite
<1>2. IsFiniteSet(Places(inbox, cb)) /\ Cardinality(Places(inbox, cb)) \in Nat
  BY <1>1, PlacesFinite DEF QueueInv
<1>3. IsFiniteSet(Places(prev, cb)) /\ Cardinality(Places(prev, cb)) \in Nat
  BY <1>1, PlacesFinite DEF QueueInv
<1> QED BY <1>2, <1>3 DEF Outstanding

\* The callbacks of a dispatch that is not there, or of a quota that is not.
LEMMA NoneOutstanding ==
  ASSUME NEW cb, \A g \in Files : (\A j \in DOMAIN inbox[g] : inbox[g][j] # cb) /\ (\A j \in DOMAIN prev[g] : prev[g][j] # cb)
  PROVE  /\ Places(inbox, cb) = {} /\ Places(prev, cb) = {}
         /\ Outstanding(cb) = 0
<1>1. Places(inbox, cb) = {} /\ Cardinality(Places(inbox, cb)) = 0
  BY PlacesNone
<1>2. Places(prev, cb) = {} /\ Cardinality(Places(prev, cb)) = 0
  BY PlacesNone
<1> QED BY <1>1, <1>2 DEF Outstanding

LEMMA NoSuchDispatch ==
  ASSUME QueueInv, NEW d, d \notin DOMAIN dispatches
  PROVE  /\ \A g \in Files : (\A j \in DOMAIN inbox[g] : inbox[g][j] # DispatchCallback(d))
                             /\ (\A j \in DOMAIN prev[g] : prev[g][j] # DispatchCallback(d))
         /\ Outstanding(DispatchCallback(d)) = 0
<1>1. ASSUME NEW g \in Files, NEW s, Queued(s, g), NEW j \in DOMAIN s
      PROVE  s[j] # DispatchCallback(d)
  BY <1>1, CallbacksDiffer DEF Queued
<1>2. \A g \in Files : (\A j \in DOMAIN inbox[g] : inbox[g][j] # DispatchCallback(d))
                       /\ (\A j \in DOMAIN prev[g] : prev[g][j] # DispatchCallback(d))
  BY <1>1 DEF QueueInv
<1> QED BY <1>2, NoneOutstanding

LEMMA NoSuchQuota ==
  ASSUME QueueInv, NEW c, NEW i, ~\E g \in Files : c \in OwnedBy(g) /\ i \in DOMAIN quotas[c]
  PROVE  Outstanding(QuotaCallback(c, i)) = 0
<1>1. ASSUME NEW g \in Files, NEW s, Queued(s, g), NEW j \in DOMAIN s
      PROVE  s[j] # QuotaCallback(c, i)
  BY <1>1, CallbacksDiffer DEF Queued
<1>2. \A g \in Files : (\A j \in DOMAIN inbox[g] : inbox[g][j] # QuotaCallback(c, i))
                       /\ (\A j \in DOMAIN prev[g] : prev[g][j] # QuotaCallback(c, i))
  BY <1>1 DEF QueueInv
<1> QED BY <1>2, NoneOutstanding

-----------------------------------------------------------------------------
(* Who is a member *)

LEMMA PresentSleep ==
  ASSUME WorldInv, Present, NEW f \in Files, NEW where, SleepIn(f, where), UNCHANGED members,
         pc[f] \in {"closed", "release"} => where \in {"closed", "release"}
  PROVE  Present'
BY DEF WorldInv, Present, SleepIn

LEMMA PresentKept ==
  ASSUME Present, UNCHANGED <<members, pc>>
  PROVE  Present'
BY DEF Present

LEMMA PresentWorld ==
  ASSUME WorldInv, Present, NEW f \in Files, WorldStep(f)
  PROVE  Present'
<1>1. ASSUME NEW excl \in BOOLEAN, NEW append \in BOOLEAN, Open(f, excl, append)
      PROVE  Present'
  BY <1>1 DEF Open, NewFusionee, WorldInv, Present
<1>2. CASE FusioneeEnter(f) \/ EnterResume(f)
  <2>1. pc[f] \in {"user", "enter"} /\ UNCHANGED members
    BY <1>2 DEF FusioneeEnter, EnterResume, InUser
  <2>2. SleepIn(f, "user") \/ SleepIn(f, "enter")
    BY <1>2 DEF FusioneeEnter, EnterResume, EnterLoop, Enter, SleepIn
  <2> QED BY <2>1, <2>2, PresentSleep
<1>3. CASE Unblock(f) \/ KillTimeout(f) \/ Signal(f) \/ Exit(f)
  BY <1>3, PresentKept DEF Unblock, KillTimeout, Signal, Exit, device, process, waits
<1>4. ASSUME NEW t, NEW wait, FusioneeKill(f, t, wait)
      PROVE  Present'
  <2>1. pc[f] = "user" /\ UNCHANGED members /\ (UNCHANGED pc \/ SleepIn(f, "kill"))
    BY <1>4 DEF FusioneeKill, KillRound, Entered, InUser, device
  <2> QED BY <2>1, PresentKept, PresentSleep
<1>5. CASE KillResume(f)
  <2>1. pc[f] = "kill" /\ UNCHANGED members /\ (SleepIn(f, "user") \/ SleepIn(f, "kill"))
    BY <1>5 DEF KillResume, KillReturns, KillRound, device
  <2> QED BY <2>1, PresentSleep
<1> QED BY <1>1, <1>2, <1>3, <1>4, <1>5 DEF WorldStep

LEMMA PresentQuota ==
  ASSUME WorldInv, Present, NEW f \in Files, QuotaStep(f)
  PROVE  Present'
<1>1. ASSUME CallNew(f) \/ (\E c, i, limit : SetQuota(f, c, i, limit)) \/ (\E c : CallDestroy(f, c)) \/ Receive(f)
      PROVE  Present'
  BY <1>1, PresentKept DEF CallNew, SetQuota, CallDestroy, Receive, device, waits
<1>2. ASSUME (\E c : Execute(f, c)) \/ ExecuteAgain(f) \/ ExecuteResume(f)
      PROVE  Present'
  <2>1. pc[f] \in {"user", "quota"} /\ UNCHANGED members
    BY <1>2 DEF Execute, ExecuteAgain, ExecuteResume, MayUse, Entered, InUser, OnlyBatches, device
  <2>2. SleepIn(f, "user") \/ SleepIn(f, "quota")
    BY <1>2 DEF Execute, ExecuteAgain, ExecuteResume, ExecuteFails, ExecuteLoop
  <2> QED BY <2>1, <2>2, PresentSleep
<1>3. CASE ReleaseAll(f)
  <2>1. members' = members \ {f} /\ (pc' = [pc EXCEPT ![f] = "closed"] \/ pc' = [pc EXCEPT ![f] = "release"])
    BY <1>3 DEF ReleaseAll, Release, Close, SleepIn
  <2> QED BY <2>1 DEF WorldInv, Present
<1>4. CASE ReleaseAllResume(f)
  <2>1. UNCHANGED members /\ (SleepIn(f, "closed") \/ SleepIn(f, "release"))
    BY <1>4 DEF ReleaseAllResume, ReleaseResume, Close, KillRound, SleepIn
  <2> QED BY <2>1, PresentSleep
<1> QED BY <1>1, <1>2, <1>3, <1>4 DEF QuotaStep

\* What no operation of a reactor changes.
LEMMA ReactorFrame ==
  ASSUME NEW f, ReactorStep(f)
  PROVE  UNCHANGED <<device, process, waits, prev>>
<1>1. CASE ReactorNew(f)
  BY <1>1 DEF ReactorNew, callbacks
<1>2. ASSUME NEW r, NEW c, Attach(f, r, c)
      PROVE  UNCHANGED <<device, process, waits, prev>>
  BY <1>2 DEF Attach, OnlyReactors, callbacks
<1>3. ASSUME NEW r, NEW c, Detach(f, r, c)
      PROVE  UNCHANGED <<device, process, waits, prev>>
  BY <1>3 DEF Detach, OnlyReactors, callbacks
<1>4. ASSUME NEW r, NEW c, NEW self, Dispatch(f, r, c, self)
      PROVE  UNCHANGED <<device, process, waits, prev>>
  BY <1>4 DEF Dispatch
<1>5. ASSUME NEW r, NEW call, SetCallback(f, r, call)
      PROVE  UNCHANGED <<device, process, waits, prev>>
  BY <1>5 DEF SetCallback, OnlyReactors, callbacks
<1>6. ASSUME NEW r, ReactorDestroy(f, r)
      PROVE  UNCHANGED <<device, process, waits, prev>>
  BY <1>6 DEF ReactorDestroy, OnlyReactors, callbacks
<1>7. ASSUME NEW from, Fork(f, from)
      PROVE  UNCHANGED <<device, process, waits, prev>>
  BY <1>7 DEF Fork, OnlyReactors, callbacks
<1> QED BY <1>1, <1>2, <1>3, <1>4, <1>5, <1>6, <1>7 DEF ReactorStep

LEMMA PresentNext ==
  ASSUME WorldInv, Present, [Next]_vars
  PROVE  Present'
<1>1. ASSUME NEW f \in Files, Permit(f) \/ ReactorStep(f)
      PROVE  Present'
  <2>1. UNCHANGED <<members, pc>>
    BY <1>1, ReactorFrame DEF Permit, AddPermissions, device, waits
  <2> QED BY <2>1, PresentKept
<1>2. CASE UNCHANGED vars
  BY <1>2, PresentKept DEF vars, worldVars, device, waits
<1> QED BY <1>1, <1>2, PresentWorld, PresentQuota DEF Next, Alone

-----------------------------------------------------------------------------
(* Steps that send and process nothing *)

\* A reactor that a dispatch names is not there again.
ReactorsKept ==
  \/ dispatches = <<>>
  \/ /\ 1..ids["reactor"] \subseteq 1..ids'["reactor"]
     /\ \A r \in 1..ids["reactor"] : r \in DOMAIN entry'["reactor"] => r \in DOMAIN entry["reactor"]

\* Processes come, and get an id.
Grows == members \subseteq members' /\ \A f \in Files : id'[f] = id[f] \/ id[f] = 0

\* The calls keep their owners, or there are none.
OwnersKept ==
  \A c : /\ c \in DOMAIN entry'["call"]
            => c \in DOMAIN entry["call"] \/ (c \in 1..MaxEntries /\ \E f \in members' : c \in OwnedBy(f)')
         /\ \A g \in Files : c \in OwnedBy(g) => c \in DOMAIN entry'["call"] /\ entry'["call"][c].creator = id[g]

LEMMA OwnersGrow ==
  ASSUME Grows, OwnersKept, OwnerInv, WorldInv
  PROVE  OwnerInv' /\ \A g \in Files : OwnedBy(g) \subseteq OwnedBy(g)'
<1>1. ASSUME NEW g \in Files, NEW c \in OwnedBy(g)
      PROVE  c \in OwnedBy(g)'
  <2>1. id[g] # 0 /\ id'[g] = id[g]
    BY DEF Grows, OwnedBy
  <2> QED BY <2>1 DEF OwnersKept, OwnedBy
<1>2. ASSUME NEW c \in DOMAIN entry'["call"]
      PROVE  c \in 1..MaxEntries /\ \E f \in members' : c \in OwnedBy(f)'
  <2>1. CASE c \in DOMAIN entry["call"]
    <3>1. c \in 1..MaxEntries
      BY <2>1 DEF OwnerInv
    <3>2. PICK f \in members : c \in OwnedBy(f)
      BY <2>1 DEF OwnerInv
    <3> QED BY <1>1, <3>1, <3>2, MembersFinite DEF Grows
  <2> QED BY <2>1 DEF OwnersKept
<1>3. OwnerInv'
  BY <1>2 DEF OwnerInv
<1> QED BY <1>1, <1>3

LEMMA QueueKept ==
  ASSUME QueueInv, UNCHANGED callbacks, members \subseteq members',
         DOMAIN dispatches \subseteq DOMAIN dispatches',
         \A g \in Files : OwnedBy(g) \subseteq OwnedBy(g)',
         \A g \in Files : \A c \in OwnedBy(g) : DOMAIN quotas[c] \subseteq DOMAIN quotas'[c]
  PROVE  QueueInv'
<1>1. inbox' = inbox /\ prev' = prev
  BY DEF callbacks
<1>2. ASSUME NEW g \in Files, NEW s, Queued(s, g)
      PROVE  Queued(s, g)'
  BY <1>2 DEF Queued
<1>3. ASSUME NEW g \in Files
      PROVE  Queued(inbox[g], g)' /\ Queued(prev[g], g)'
  <2> DEFINE s == inbox[g]
             t == prev[g]
  <2>1. Queued(s, g) /\ Queued(t, g)
    BY DEF QueueInv
  <2>2. inbox'[g] = s /\ prev'[g] = t
    BY <1>1
  <2> QED BY <1>1, <1>2, <2>1 DEF Queued
<1>4. \A g \in Files \ members' : inbox'[g] = <<>> /\ prev'[g] = <<>>
  BY <1>1 DEF QueueInv
<1>5. inbox' \in [Files -> Seq(AnyCallback)] /\ prev' \in [Files -> Seq(AnyCallback)]
  BY <1>1 DEF QueueInv
<1> QED BY <1>3, <1>4, <1>5 DEF QueueInv

LEMMA OutstandingKept ==
  ASSUME UNCHANGED callbacks
  PROVE  \A cb : Outstanding(cb)' = Outstanding(cb)
BY DEF Outstanding, callbacks, Places

LEMMA CountedKept ==
  ASSUME NEW d, NEW n, NEW live, NEW now, Counted(d, n, live), d.reactor \in now => d.reactor \in live
  PROVE  Counted(d, n, now)
BY DEF Counted

LEMMA DispatchKept ==
  ASSUME DispatchInv, UNCHANGED callbacks, UNCHANGED dispatches,
         ReactorsKept, refs' = 0 => dispatches = <<>>
  PROVE  DispatchInv'
<1> DEFINE live == Reactors
           now == DOMAIN entry'["reactor"]
<1>1. ASSUME NEW d \in DOMAIN dispatches
      PROVE  /\ Counted(dispatches[d], Outstanding(DispatchCallback(d)), now)
             /\ dispatches[d].reactor \in 1..ids'["reactor"]
  <2>1. Counted(dispatches[d], Outstanding(DispatchCallback(d)), live) /\ dispatches[d].reactor \in 1..ids["reactor"]
    BY DEF DispatchInv
  <2>2. dispatches # <<>>
    OBVIOUS
  <2>3. /\ dispatches[d].reactor \in now => dispatches[d].reactor \in live
        /\ dispatches[d].reactor \in 1..ids'["reactor"]
    BY <2>1, <2>2 DEF Reactors, ReactorsKept
  <2> HIDE DEF live, now
  <2> QED BY <2>1, <2>3, CountedKept
<1>2. \A d \in DOMAIN dispatches' : Counted(dispatches'[d], Outstanding(DispatchCallback(d))', now)
  BY <1>1, OutstandingKept
<1>3. \E X : dispatches' \in Seq(X)
  BY DEF DispatchInv
<1>4. refs' = 0 => dispatches' = <<>>
  OBVIOUS
<1>5. \A d \in DOMAIN dispatches' : dispatches'[d].reactor \in 1..ids'["reactor"]
  BY <1>1
<1>6. \A d \in DOMAIN dispatches' : Counted(dispatches[d], Outstanding(DispatchCallback(d)), Reactors)'
  BY <1>2 DEF Counted, Reactors
<1> HIDE DEF live, now
<1> QED BY <1>3, <1>4, <1>5, <1>6 DEF DispatchInv

LEMMA QuotaKept ==
  ASSUME QuotaInv, UNCHANGED callbacks, UNCHANGED quotas
  PROVE  QuotaInv'
<1>1. \A c \in 1..MaxEntries : \A i \in DOMAIN quotas[c] : QuotaOk(quotas[c][i], Outstanding(QuotaCallback(c, i)))
  BY DEF QuotaInv
<1>2. ASSUME NEW c \in 1..MaxEntries, NEW i \in DOMAIN quotas'[c]
      PROVE  QuotaOk(quotas[c][i], Outstanding(QuotaCallback(c, i)))'
  BY <1>1, OutstandingKept DEF QuotaOk
<1> QED BY <1>2 DEF QuotaInv

LEMMA NodesKept ==
  ASSUME NodesInv, WorldInv, Grows, UNCHANGED reactor
  PROVE  NodesInv'
<1>1. MemberIds \subseteq MemberIds'
  BY MembersFinite DEF Grows, MemberIds
<1> QED BY <1>1 DEF NodesInv

\* Nothing is sent or processed, and no call is destroyed.
LEMMA RestKept ==
  ASSUME WorldInv, CountInv, Grows, OwnersKept, UNCHANGED <<callbacks, dispatches, quotas>>, NodesInv',
         ReactorsKept, refs' = 0 => dispatches = <<>>
  PROVE  CountInv'
<1>1. UNCHANGED callbacks /\ UNCHANGED dispatches /\ UNCHANGED quotas
  OBVIOUS
<1>2. OwnerInv' /\ \A g \in Files : OwnedBy(g) \subseteq OwnedBy(g)'
  BY OwnersGrow DEF CountInv
<1>3. QueueInv'
  BY <1>1, <1>2, QueueKept DEF CountInv, Grows
<1>4. DispatchInv'
  BY <1>1, DispatchKept DEF CountInv
<1>5. QuotaInv'
  BY <1>1, QuotaKept DEF CountInv
<1> QED BY <1>2, <1>3, <1>4, <1>5 DEF CountInv

LEMMA CountKept ==
  ASSUME WorldInv, CountInv, Grows, OwnersKept, UNCHANGED <<callbacks, reactorVars, quotas>>,
         ReactorsKept, refs' = 0 => dispatches = <<>>
  PROVE  CountInv'
<1>1. NodesInv'
  BY NodesKept DEF CountInv, reactorVars
<1> QED BY <1>1, RestKept DEF reactorVars

\* As long as the device is new no process has an id, and nothing was sent.
LEMMA NewCount ==
  ASSUME WorldInv, TablesInv, CountInv, NEW f \in Files, NEW excl, NEW append, Open(f, excl, append),
         UNCHANGED <<callbacks, reactorVars, quotas>>
  PROVE  CountInv'
<1>1. /\ members' = members \cup {f} /\ id' = [id EXCEPT ![f] = 0] /\ refs' = refs + 1
      /\ IF refs = 0 THEN NewDevice ELSE UNCHANGED <<last_id, enter_ok, secure, entries>>
      /\ pc[f] = "closed"
  BY DEF Open, NewFusionee
<1>2. id[f] = 0 /\ id \in [Files -> Nat] /\ refs \in Nat
  BY <1>1, FS_CardinalityType DEF WorldInv
<1>3. Grows /\ refs' # 0
  BY <1>1, <1>2 DEF Grows
<1>4. CASE refs = 0
  <2>1. \A g \in Files : OwnedBy(g) = {}
    BY <1>4, NoneOpen DEF OwnedBy
  <2>2. entry' = [k \in Kinds |-> <<>>]
    BY <1>1, <1>4 DEF NewDevice
  <2>3. DOMAIN entry'["call"] = {}
    BY <2>2
  <2>4. OwnersKept
    BY <2>1, <2>3 DEF OwnersKept
  <2>5. dispatches = <<>>
    BY <1>4 DEF CountInv, DispatchInv
  <2> QED BY <1>3, <2>4, <2>5, CountKept DEF ReactorsKept
<1>5. CASE refs # 0
  <2>1. UNCHANGED <<ids, entry>>
    BY <1>1, <1>5 DEF entries
  <2>2. OwnersKept
    BY <2>1 DEF OwnersKept, OwnedBy
  <2> QED BY <1>3, <2>1, <2>2, CountKept DEF ReactorsKept
<1> QED BY <1>4, <1>5

\* The objects are left alone.
LEMMA EntriesCount ==
  ASSUME WorldInv, CountInv, Grows, UNCHANGED <<callbacks, reactorVars, quotas, entries>>, refs' = 0 => refs = 0
  PROVE  CountInv'
<1>1. OwnersKept
  BY DEF OwnersKept, OwnedBy, entries
<1>2. ReactorsKept
  BY DEF ReactorsKept, entries
<1>3. refs' = 0 => dispatches = <<>>
  BY DEF CountInv, DispatchInv
<1> QED BY <1>1, <1>2, <1>3, CountKept

\* A new object.
LEMMA CreateCount ==
  ASSUME WorldInv, TablesInv, Present, CountInv, NEW k \in Kinds, NEW f \in Files, Entered(f), CreateEntry(k, f),
         UNCHANGED <<callbacks, reactorVars, quotas, refs, members, id>>
  PROVE  CountInv'
<1> DEFINE i == ids[k] + 1
           new == [creator |-> id[f], permissions |-> {}]
           all == [j \in DOMAIN entry[k] \cup {i} |-> IF j = i THEN new ELSE entry[k][j]]
<1>1. ids' = [ids EXCEPT ![k] = i] /\ entry' = [entry EXCEPT ![k] = all]
  BY DEF CreateEntry
<1>2. ids \in [Kinds -> Nat] /\ DOMAIN entry = Kinds /\ DOMAIN entry[k] \subseteq 1..ids[k] /\ i \notin DOMAIN entry[k]
  BY DEF TablesInv
<1>3. f \in members /\ id[f] # 0
  BY DEF Present, Entered, InUser
<1>4. DOMAIN all = DOMAIN entry[k] \cup {i} /\ all[i].creator = id[f] /\ \A j \in DOMAIN entry[k] : all[j] = entry[k][j]
  BY <1>2
<1> HIDE DEF all, new
<1>5. entry'[k] = all /\ \A j \in Kinds \ {k} : entry'[j] = entry[j]
  BY <1>1, <1>2
<1>6. Grows
  BY DEF Grows
<1>7. OwnersKept
  <2>1. CASE k = "call"
    <3>1. i \in OwnedBy(f)'
      BY <1>3, <1>4, <1>5, <2>1 DEF OwnedBy
    <3>2. \A c \in DOMAIN all : c \in DOMAIN entry["call"] \/ (c \in 1..MaxEntries /\ \E g \in members' : c \in OwnedBy(g)')
      <4>1. i \in 1..MaxEntries
        BY <1>2 DEF CreateEntry
      <4> QED BY <1>3, <1>4, <2>1, <3>1, <4>1
    <3>3. \A g \in Files : \A c \in OwnedBy(g) : c \in DOMAIN all /\ all[c].creator = id[g]
      BY <1>4, <2>1 DEF OwnedBy
    <3> QED BY <1>5, <2>1, <3>2, <3>3 DEF OwnersKept
  <2>2. CASE k # "call"
    <3>1. entry'["call"] = entry["call"]
      BY <1>5, <2>2
    <3> QED BY <3>1 DEF OwnersKept, OwnedBy
  <2> QED BY <2>1, <2>2
<1>8. ReactorsKept
  <2>1. CASE k = "reactor"
    <3>1. ids'["reactor"] = ids["reactor"] + 1 /\ ids["reactor"] \in Nat
      BY <1>1, <1>2, <2>1
    <3>2. \A r \in 1..ids["reactor"] : r \in DOMAIN all => r \in DOMAIN entry["reactor"]
      BY <1>2, <1>4, <2>1
    <3> QED BY <1>5, <2>1, <3>1, <3>2 DEF ReactorsKept
  <2>2. CASE k # "reactor"
    <3>1. entry'["reactor"] = entry["reactor"] /\ ids'["reactor"] = ids["reactor"]
      BY <1>1, <1>2, <1>5, <2>2
    <3> QED BY <3>1 DEF ReactorsKept
  <2> QED BY <2>1, <2>2
<1>9. refs' = 0 => dispatches = <<>>
  BY DEF CountInv, DispatchInv
<1> QED BY <1>6, <1>7, <1>8, <1>9, CountKept

\* A grant leaves the creators of the entries as they are.
LEMMA PermitCount ==
  ASSUME WorldInv, TablesInv, CountInv, NEW f \in Files, Permit(f), UNCHANGED <<callbacks, reactorVars, quotas>>
  PROVE  CountInv'
<1>1. PICK k \in Kinds, i \in 1..MaxEntries, g \in 0..MaxIds, R \in Grants : AddPermissions(f, k, i, g, R)
  BY DEF Permit
<1> DEFINE more == {<<g, r>> : r \in R}
           new == [entry[k][i] EXCEPT !.permissions = @ \cup more]
<1>2. entry' = [entry EXCEPT ![k] = [entry[k] EXCEPT ![i] = new]] /\ Exists(k, i)
      /\ UNCHANGED <<refs, members, id, ids>>
  BY <1>1 DEF AddPermissions, device, process
<1>3. i \in DOMAIN entry[k] /\ DOMAIN entry = Kinds
  BY <1>2, ExistsIsEntry DEF TablesInv
<1>4. new.creator = entry[k][i].creator
  OBVIOUS
<1> HIDE DEF new
<1>5. /\ \A j \in Kinds : DOMAIN entry'[j] = DOMAIN entry[j]
      /\ \A j \in Kinds : \A c \in DOMAIN entry[j] : entry'[j][c].creator = entry[j][c].creator
  BY <1>2, <1>3, <1>4
<1>6. OwnersKept
  BY <1>5 DEF OwnersKept, OwnedBy
<1>7. ReactorsKept
  BY <1>2, <1>5 DEF ReactorsKept
<1>8. refs' = 0 => dispatches = <<>>
  BY <1>2 DEF CountInv, DispatchInv
<1>9. Grows
  BY <1>2 DEF Grows
<1> QED BY <1>6, <1>7, <1>8, <1>9, CountKept

LEMMA WorldCount ==
  ASSUME WorldInv, TablesInv, CountInv, NEW f \in Files, WorldStep(f), UNCHANGED <<callbacks, reactorVars, quotas>>
  PROVE  CountInv'
<1>1. ASSUME NEW excl, NEW append, Open(f, excl, append)
      PROVE  CountInv'
  BY <1>1, NewCount
<1>2. CASE FusioneeEnter(f) \/ EnterResume(f)
  <2>1. UNCHANGED <<refs, members, entries>>
    BY <1>2 DEF FusioneeEnter, EnterResume
  <2>2. id[f] = 0
    BY <1>2 DEF FusioneeEnter, EnterResume, WorldInv
  <2>3. \A g \in Files : g # f => id'[g] = id[g]
    BY <1>2 DEF FusioneeEnter, EnterResume, EnterLoop, Enter, WorldInv
  <2>4. Grows
    BY <2>1, <2>2, <2>3 DEF Grows
  <2> QED BY <2>1, <2>4, EntriesCount
<1>3. ASSUME UNCHANGED <<refs, members, entries, id>>
      PROVE  CountInv'
  BY <1>3, EntriesCount DEF Grows
<1>4. CASE Unblock(f) \/ KillTimeout(f) \/ Signal(f) \/ Exit(f) \/ KillResume(f)
  BY <1>3, <1>4 DEF Unblock, KillTimeout, Signal, Exit, KillResume, device, process
<1>5. ASSUME NEW t, NEW wait, FusioneeKill(f, t, wait)
      PROVE  CountInv'
  BY <1>3, <1>5 DEF FusioneeKill, device, process
<1> QED BY <1>1, <1>2, <1>4, <1>5 DEF WorldStep

-----------------------------------------------------------------------------
(* The operations of a reactor but the dispatch *)

LEMMA NodesSet ==
  ASSUME NodesInv, NEW r \in 1..MaxEntries, NEW nodes, DOMAIN nodes \subseteq MemberIds, UNCHANGED <<id, members>>,
         reactor' = [reactor EXCEPT ![r].nodes = nodes]
  PROVE  NodesInv'
<1> DEFINE new == [reactor[r] EXCEPT !.nodes = nodes]
<1>1. "nodes" \in DOMAIN new /\ new.nodes = nodes
  BY DEF NodesInv
<1> HIDE DEF new
<1>2. reactor' = [reactor EXCEPT ![r] = new] /\ MemberIds' = MemberIds
  BY DEF new, MemberIds
<1> QED BY <1>1, <1>2 DEF NodesInv

\* What else changes in a reactor.
LEMMA NodesSame ==
  ASSUME NodesInv, NEW r \in 1..MaxEntries, NEW new, "nodes" \in DOMAIN new, new.nodes = reactor[r].nodes,
         UNCHANGED <<id, members>>, reactor' = [reactor EXCEPT ![r] = new]
  PROVE  NodesInv'
BY DEF NodesInv, MemberIds

LEMMA NodesFreed ==
  ASSUME NodesInv, NEW gone, UNCHANGED <<id, members>>, reactor' = FreeReactors(gone)
  PROVE  NodesInv'
<1>1. NewReactor.nodes = <<>> /\ "nodes" \in DOMAIN NewReactor /\ DOMAIN <<>> = {}
  BY DEF NewReactor
<1>2. MemberIds' = MemberIds
  BY DEF MemberIds
<1> QED BY <1>1, <1>2 DEF NodesInv, FreeReactors

\* A reactor goes, or not.
LEMMA ReactorCount ==
  ASSUME WorldInv, CountInv, NodesInv', UNCHANGED <<device, process, ids, callbacks, dispatches, quotas>>,
         UNCHANGED entry \/ \E r : DestroyEntries(Only("reactor", r))
  PROVE  CountInv'
<1>1. UNCHANGED <<refs, members, id, ids>>
  BY DEF device, process
<1>2. /\ DOMAIN entry'["call"] = DOMAIN entry["call"] /\ DOMAIN entry'["reactor"] \subseteq DOMAIN entry["reactor"]
      /\ \A c \in DOMAIN entry["call"] : entry'["call"][c] = entry["call"][c]
  <2>1. ASSUME NEW r, DestroyEntries(Only("reactor", r))
        PROVE  /\ DOMAIN entry'["call"] = DOMAIN entry["call"]
               /\ DOMAIN entry'["reactor"] \subseteq DOMAIN entry["reactor"]
               /\ \A c \in DOMAIN entry["call"] : entry'["call"][c] = entry["call"][c]
    <3>1. entry' = [k \in Kinds |-> [j \in DOMAIN entry[k] \ Only("reactor", r)[k] |-> entry[k][j]]]
      BY <2>1 DEF DestroyEntries
    <3>2. Only("reactor", r)["call"] = {}
      BY DEF Only
    <3> QED BY <3>1, <3>2
  <2> QED BY <2>1
<1>3. Grows
  BY <1>1 DEF Grows
<1>4. OwnersKept
  BY <1>1, <1>2 DEF OwnersKept, OwnedBy
<1>5. ReactorsKept
  BY <1>1, <1>2 DEF ReactorsKept
<1>6. refs' = 0 => dispatches = <<>>
  BY <1>1 DEF CountInv, DispatchInv
<1> QED BY <1>3, <1>4, <1>5, <1>6, RestKept

LEMMA ReactorOthers ==
  ASSUME WorldInv, Present, CountInv, NEW f \in Files, UNCHANGED quotas,
         \/ \E r \in 1..MaxEntries, c \in Channels : Attach(f, r, c) \/ Detach(f, r, c)
         \/ \E r \in 1..MaxEntries, call \in CallbackCalls : SetCallback(f, r, call)
         \/ \E r \in 1..MaxEntries : ReactorDestroy(f, r)
         \/ \E from \in 1..MaxIds : Fork(f, from)
  PROVE  CountInv'
<1> SUFFICES NodesInv' /\ UNCHANGED <<device, process, ids, callbacks, dispatches>>
             /\ (UNCHANGED entry \/ \E r : DestroyEntries(Only("reactor", r)))
  BY ReactorCount
<1>1. NodesInv
  BY DEF CountInv
<1>2. ASSUME Entered(f)
      PROVE  id[f] \in MemberIds
  BY <1>2 DEF Entered, InUser, Present, MemberIds
<1>3. ASSUME NEW r \in 1..MaxEntries, NEW c \in Channels, Attach(f, r, c)
      PROVE  NodesInv' /\ UNCHANGED entry /\ UNCHANGED <<device, process, ids, callbacks, dispatches>>
  <2> DEFINE nodes == reactor[r].nodes
             old == IF id[f] \in DOMAIN nodes THEN nodes[id[f]] ELSE NoCounts
             new == [i \in DOMAIN nodes \cup {id[f]} |-> IF i = id[f] THEN [old EXCEPT ![c] = @ + 1] ELSE nodes[i]]
  <2>1. Entered(f) /\ UNCHANGED entry /\ UNCHANGED <<device, process, ids, callbacks, dispatches>>
        /\ reactor' = [reactor EXCEPT ![r].nodes = new]
    BY <1>3 DEF Attach, MayUse, OnlyReactors
  <2>2. DOMAIN new \subseteq MemberIds
    BY <1>1, <1>2, <2>1 DEF NodesInv
  <2> HIDE DEF new
  <2>3. UNCHANGED <<id, members>>
    BY <2>1 DEF device, process
  <2>4. NodesInv'
    BY <1>1, <2>1, <2>2, <2>3, NodesSet
  <2> QED BY <2>1, <2>4
<1>4. ASSUME NEW r \in 1..MaxEntries, NEW c \in Channels, Detach(f, r, c)
      PROVE  /\ NodesInv' /\ UNCHANGED <<device, process, ids, callbacks, dispatches>>
             /\ UNCHANGED entry \/ DestroyEntries(Only("reactor", r))
  <2> DEFINE nodes == reactor[r].nodes
             counts == [nodes[id[f]] EXCEPT ![c] = @ - 1]
             empty == \A d \in Channels : counts[d] = 0
             left == IF empty THEN Without(nodes, id[f]) ELSE [nodes EXCEPT ![id[f]] = counts]
  <2>1. /\ UNCHANGED <<device, process, ids, callbacks, dispatches>>
        /\ UNCHANGED entry \/ DestroyEntries(Only("reactor", r))
        /\ reactor' = FreeReactors({r}) \/ reactor' = [reactor EXCEPT ![r].nodes = left]
    BY <1>4 DEF Detach, OnlyReactors
  <2>2. DOMAIN left \subseteq MemberIds
    BY <1>1 DEF NodesInv, Without
  <2> HIDE DEF left
  <2>3. UNCHANGED <<id, members>>
    BY <2>1 DEF device, process
  <2>4. CASE reactor' = FreeReactors({r})
    BY <1>1, <2>1, <2>3, <2>4, NodesFreed
  <2>5. CASE reactor' = [reactor EXCEPT ![r].nodes = left]
    BY <1>1, <2>1, <2>2, <2>3, <2>5, NodesSet
  <2> QED BY <2>1, <2>4, <2>5
<1>5. ASSUME NEW r \in 1..MaxEntries, NEW call, SetCallback(f, r, call)
      PROVE  NodesInv' /\ UNCHANGED entry /\ UNCHANGED <<device, process, ids, callbacks, dispatches>>
  <2> DEFINE new == [reactor[r] EXCEPT !.call = call]
  <2>1. /\ UNCHANGED entry /\ UNCHANGED <<device, process, ids, callbacks, dispatches>>
        /\ reactor' = [reactor EXCEPT ![r] = new]
    BY <1>5 DEF SetCallback, OnlyReactors
  <2>2. "nodes" \in DOMAIN new /\ new.nodes = reactor[r].nodes
    BY <1>1 DEF NodesInv
  <2> HIDE DEF new
  <2> QED BY <1>1, <2>1, <2>2, NodesSame DEF device, process
<1>6. ASSUME NEW r \in 1..MaxEntries, ReactorDestroy(f, r)
      PROVE  /\ NodesInv' /\ UNCHANGED <<device, process, ids, callbacks, dispatches>>
             /\ UNCHANGED entry \/ DestroyEntries(Only("reactor", r))
  <2> DEFINE new == [reactor[r] EXCEPT !.destroyed = TRUE]
  <2>1. /\ UNCHANGED <<device, process, ids, callbacks, dispatches>>
        /\ UNCHANGED entry \/ DestroyEntries(Only("reactor", r))
        /\ reactor' = FreeReactors({r}) \/ reactor' = [reactor EXCEPT ![r] = new]
    BY <1>6 DEF ReactorDestroy, OnlyReactors
  <2>2. "nodes" \in DOMAIN new /\ new.nodes = reactor[r].nodes
    BY <1>1 DEF NodesInv
  <2> HIDE DEF new
  <2>3. UNCHANGED <<id, members>>
    BY <2>1 DEF device, process
  <2>4. CASE reactor' = FreeReactors({r})
    BY <1>1, <2>1, <2>3, <2>4, NodesFreed
  <2>5. CASE reactor' = [reactor EXCEPT ![r] = new]
    BY <1>1, <2>1, <2>2, <2>3, <2>5, NodesSame
  <2> QED BY <2>1, <2>4, <2>5
<1>7. ASSUME NEW from, Fork(f, from)
      PROVE  NodesInv' /\ UNCHANGED entry /\ UNCHANGED <<device, process, ids, callbacks, dispatches>>
  <2> DEFINE more(r) == [i \in DOMAIN reactor[r].nodes \cup {id[f]} |->
                          IF i = id[f] THEN reactor[r].nodes[from] ELSE reactor[r].nodes[i]]
             new(r) == [reactor[r] EXCEPT !.nodes = more(r)]
  <2>1. /\ Entered(f) /\ UNCHANGED entry /\ UNCHANGED <<device, process, ids, callbacks, dispatches>>
        /\ reactor' = [r \in DOMAIN reactor |->
                         IF r \in Reactors /\ from \in DOMAIN reactor[r].nodes THEN new(r) ELSE reactor[r]]
    BY <1>7 DEF Fork, OnlyReactors
  <2>2. ASSUME NEW r \in 1..MaxEntries
        PROVE  "nodes" \in DOMAIN new(r) /\ DOMAIN new(r).nodes \subseteq MemberIds
    <3>1. "nodes" \in DOMAIN new(r) /\ new(r).nodes = more(r)
      BY <1>1 DEF NodesInv
    <3>2. DOMAIN more(r) = DOMAIN reactor[r].nodes \cup {id[f]}
      OBVIOUS
    <3>3. DOMAIN more(r) \subseteq MemberIds
      BY <1>1, <1>2, <2>1, <3>2 DEF NodesInv
    <3> HIDE DEF more, new
    <3> QED BY <3>1, <3>3
  <2> HIDE DEF new
  <2>3. MemberIds' = MemberIds
    BY <2>1 DEF device, process, MemberIds
  <2>4. \A r \in 1..MaxEntries : reactor'[r] = new(r) \/ reactor'[r] = reactor[r]
    BY <1>1, <2>1 DEF NodesInv
  <2>5. DOMAIN reactor' = 1..MaxEntries
    BY <1>1, <2>1 DEF NodesInv
  <2>6. NodesInv'
    BY <1>1, <2>2, <2>3, <2>4, <2>5 DEF NodesInv
  <2> QED BY <2>1, <2>6
<1> QED BY <1>3, <1>4, <1>5, <1>6, <1>7

-----------------------------------------------------------------------------
(* The dispatch *)

\* The queues q become s when a message is sent to each of a set of fusionees.
Sent(q, s, M, cb) ==
  /\ s = [g \in Files |-> s[g]]
  /\ \A g \in Files : s[g] = IF g \in M THEN Append(q[g], cb) ELSE q[g]

LEMMA SendPlaces ==
  ASSUME NEW X, NEW q \in [Files -> Seq(X)], NEW M \in SUBSET Files, IsFiniteSet(M), NEW cb \in X, NEW s,
         Sent(q, s, M, cb)
  PROVE  /\ s \in [Files -> Seq(X)]
         /\ \A g \in Files : \A j \in DOMAIN s[g] : (j \in DOMAIN q[g] /\ s[g][j] = q[g][j]) \/ s[g][j] = cb
         /\ \A other : other # cb => Places(s, other) = Places(q, other)
         /\ Places(q, cb) = {} => IsFiniteSet(Places(s, cb)) /\ Cardinality(Places(s, cb)) = Cardinality(M)
<1>1. ASSUME NEW g \in Files
      PROVE  /\ Len(q[g]) \in Nat /\ DOMAIN q[g] = 1..Len(q[g]) /\ s[g] \in Seq(X)
             /\ g \notin M => s[g] = q[g]
             /\ g \in M => /\ DOMAIN s[g] = 1..(Len(q[g]) + 1) /\ s[g][Len(q[g]) + 1] = cb
                           /\ \A j \in 1..Len(q[g]) : s[g][j] = q[g][j]
  <2>1. q[g] \in Seq(X)
    OBVIOUS
  <2>2. Len(q[g]) \in Nat /\ DOMAIN q[g] = 1..Len(q[g])
    BY <2>1
  <2>3. CASE g \in M
    <3>1. s[g] = Append(q[g], cb)
      BY <2>3 DEF Sent
    <3>2. /\ Append(q[g], cb) \in Seq(X) /\ Len(Append(q[g], cb)) = Len(q[g]) + 1
          /\ \A j \in 1..Len(q[g]) : Append(q[g], cb)[j] = q[g][j]
          /\ Append(q[g], cb)[Len(q[g]) + 1] = cb
      BY <2>1, AppendProperties
    <3>3. DOMAIN Append(q[g], cb) = 1..(Len(q[g]) + 1)
      BY <3>2
    <3> QED BY <2>2, <2>3, <3>1, <3>2, <3>3
  <2>4. CASE g \notin M
    BY <2>1, <2>2, <2>4 DEF Sent
  <2> QED BY <2>3, <2>4
<1>2. s \in [Files -> Seq(X)]
  BY <1>1 DEF Sent
<1>3. ASSUME NEW g \in Files, NEW j \in DOMAIN s[g]
      PROVE  (j \in DOMAIN q[g] /\ s[g][j] = q[g][j]) \/ s[g][j] = cb
  <2>1. CASE g \in M
    <3>1. j \in 1..Len(q[g]) \/ j = Len(q[g]) + 1
      BY <1>1, <2>1
    <3> QED BY <1>1, <2>1, <3>1
  <2>2. CASE g \notin M
    BY <1>1, <2>2
  <2> QED BY <2>1, <2>2
<1>4. ASSUME NEW g \in Files, NEW j \in DOMAIN q[g]
      PROVE  j \in DOMAIN s[g] /\ s[g][j] = q[g][j]
  <2>1. CASE g \in M
    <3>1. j \in 1..Len(q[g]) /\ Len(q[g]) \in Nat
      BY <1>1
    <3> QED BY <1>1, <2>1, <3>1
  <2>2. CASE g \notin M
    BY <1>1, <2>2
  <2> QED BY <2>1, <2>2
<1>5. ASSUME NEW other, other # cb
      PROVE  Places(s, other) = Places(q, other)
  <2>1. \A g \in Files : \A i : i \in DOMAIN s[g] /\ s[g][i] = other <=> i \in DOMAIN q[g] /\ q[g][i] = other
    BY <1>3, <1>4, <1>5
  <2>2. ASSUME NEW x \in Places(s, other)
        PROVE  x \in Places(q, other)
    <3>1. PICK g \in Files : \E i \in DOMAIN s[g] : s[g][i] = other /\ x = <<g, i>>
      BY PlaceFacts
    <3>2. \E i \in DOMAIN q[g] : q[g][i] = other /\ x = <<g, i>>
      BY <2>1, <3>1
    <3> QED BY <3>2, PlaceFacts
  <2>3. ASSUME NEW x \in Places(q, other)
        PROVE  x \in Places(s, other)
    <3>1. PICK g \in Files : \E i \in DOMAIN q[g] : q[g][i] = other /\ x = <<g, i>>
      BY PlaceFacts
    <3>2. \E i \in DOMAIN s[g] : s[g][i] = other /\ x = <<g, i>>
      BY <2>1, <3>1
    <3> QED BY <3>2, PlaceFacts
  <2> QED BY <2>2, <2>3
<1>6. ASSUME Places(q, cb) = {}
      PROVE  IsFiniteSet(Places(s, cb)) /\ Cardinality(Places(s, cb)) = Cardinality(M)
  <2> DEFINE F == [g \in M |-> <<g, Len(q[g]) + 1>>]
             P == Places(s, cb)
  <2>1. ASSUME NEW g \in M
        PROVE  F[g] \in P
    BY <1>1, PlaceFacts
  <2>2. ASSUME NEW x \in P
        PROVE  \E g \in M : F[g] = x
    <3>1. PICK g \in Files : \E j \in DOMAIN s[g] : s[g][j] = cb /\ x = <<g, j>>
      BY PlaceFacts
    <3>2. PICK j \in DOMAIN s[g] : s[g][j] = cb /\ x = <<g, j>>
      BY <3>1
    <3>3. ~(j \in DOMAIN q[g] /\ q[g][j] = cb)
      <4>1. <<g, j>> \notin Places(q, cb)
        BY <1>6
      <4> QED BY <4>1, PlaceFacts
    <3>4. g \in M
      BY <1>1, <3>2, <3>3
    <3>5. j = Len(q[g]) + 1
      <4>1. j \in 1..(Len(q[g]) + 1) /\ Len(q[g]) \in Nat
        BY <1>1, <3>4
      <4>2. j \notin 1..Len(q[g])
        BY <1>1, <3>2, <3>3, <3>4
      <4> QED BY <4>1, <4>2
    <3> QED BY <3>2, <3>4, <3>5
  <2>3. F \in [M -> P]
    BY <2>1
  <2>4. \A a, b \in M : F[a] = F[b] => a = b
    OBVIOUS
  <2> HIDE DEF F
  <2> QED BY <2>2, <2>3, <2>4, SameSize
<1> QED BY <1>2, <1>3, <1>5, <1>6

\* As many fusionees as ids of members.
LEMMA AsManyIds ==
  ASSUME WorldInv, NEW to, to \subseteq MemberIds
  PROVE  LET M == {g \in members : id[g] \in to} IN
         M \subseteq Files /\ IsFiniteSet(M) /\ IsFiniteSet(to) /\ Cardinality(M) = Cardinality(to)
<1> DEFINE M == {g \in members : id[g] \in to}
           F == [g \in M |-> id[g]]
<1>1. IsFiniteSet(members) /\ members \subseteq Files
  BY MembersFinite
<1>2. IsFiniteSet(M) /\ M \subseteq Files
  BY <1>1, FS_Subset
<1>3. F \in [M -> to] /\ \A t \in to : \E g \in M : F[g] = t
  BY DEF MemberIds
<1>4. \A a, b \in M : F[a] = F[b] => a = b
  BY <1>1 DEF WorldInv, MemberIds
<1> HIDE DEF M, F
<1>5. IsFiniteSet(to) /\ Cardinality(to) = Cardinality(M)
  BY <1>2, <1>3, <1>4, SameSize
<1> QED BY <1>2, <1>5 DEF M

\* A dispatch counts the messages it sends, and is done when there are none.
LEMMA NewIsCounted ==
  ASSUME NEW n \in Nat, NEW none \in BOOLEAN, none <=> n = 0, NEW r, NEW call, NEW live, NEW d,
         d = [reactor |-> r, call |-> call, count |-> n, freed |-> none, fired |-> IF none THEN 1 ELSE 0]
  PROVE  Counted(d, n, live) /\ d.reactor = r
BY DEF Counted

LEMMA DispatchCount ==
  ASSUME WorldInv, TablesInv, CountInv, NEW f \in Files, NEW r \in 1..MaxEntries, NEW c \in Channels, NEW self \in BOOLEAN,
         Dispatch(f, r, c, self), UNCHANGED quotas
  PROVE  CountInv'
<1>4. PICK X : dispatches \in Seq(X)
  BY DEF CountInv, DispatchInv
<1>5. PICK m \in Nat : m = Len(dispatches) /\ DOMAIN dispatches = 1..m
  BY <1>4
<1> DEFINE to == Recipients(r, c, IF self THEN 0 ELSE id[f])
           cb == DispatchCallback(m + 1)
           M == {g \in members : id[g] \in to}
           new == [reactor |-> r, call |-> reactor[r].call, count |-> Cardinality(to),
                   freed |-> to = {}, fired |-> IF to = {} THEN 1 ELSE 0]
<1>1. /\ dispatches' = Append(dispatches, new) /\ Exists("reactor", r)
      /\ UNCHANGED <<device, process, entries, reactor, prev>>
      /\ inbox' = [g \in Files |-> IF id[g] \in to /\ g \in members THEN Append(inbox[g], cb) ELSE inbox[g]]
  BY <1>5 DEF Dispatch, Send, MayUse
<1>2. UNCHANGED <<members, id, refs, ids, entry>>
  BY <1>1 DEF device, process, entries
<1>3. r \in DOMAIN entry["reactor"]
  BY <1>1, ExistsIsEntry
<1>6. to \subseteq MemberIds
  BY DEF CountInv, NodesInv, Recipients
<1>7. M \in SUBSET Files /\ IsFiniteSet(M) /\ IsFiniteSet(to) /\ Cardinality(M) = Cardinality(to)
  BY <1>6, AsManyIds
<1>8. cb \in AnyCallback
  BY <1>5, CallbackFacts
<1>9. Sent(inbox, inbox', M, cb)
  BY <1>1 DEF Sent
<1>10. inbox \in [Files -> Seq(AnyCallback)]
  BY DEF CountInv, QueueInv
<1> HIDE DEF to, M, cb, new
<1>11. /\ inbox' \in [Files -> Seq(AnyCallback)]
       /\ \A g \in Files : \A j \in DOMAIN inbox'[g] : (j \in DOMAIN inbox[g] /\ inbox'[g][j] = inbox[g][j]) \/ inbox'[g][j] = cb
       /\ \A other : other # cb => Places(inbox', other) = Places(inbox, other)
       /\ Places(inbox, cb) = {} => IsFiniteSet(Places(inbox', cb)) /\ Cardinality(Places(inbox', cb)) = Cardinality(M)
  BY <1>7, <1>8, <1>9, <1>10, SendPlaces
<1>12. prev' = prev
  BY <1>1
<1>13. m + 1 \notin DOMAIN dispatches
  BY <1>5
<1>14. Places(inbox, cb) = {} /\ Places(prev, cb) = {}
  <2>1. \A g \in Files : (\A j \in DOMAIN inbox[g] : inbox[g][j] # cb) /\ (\A j \in DOMAIN prev[g] : prev[g][j] # cb)
    BY <1>13, NoSuchDispatch DEF CountInv, cb
  <2> QED BY <2>1, NoneOutstanding
<1>15. ASSUME NEW other, other # cb
       PROVE  Outstanding(other)' = Outstanding(other)
  BY <1>11, <1>12, <1>15 DEF Outstanding
<1>16. Cardinality(to) \in Nat /\ (to = {} <=> Cardinality(to) = 0)
  BY <1>7, FS_CardinalityType, FS_EmptySet
<1>17. Outstanding(cb)' = Cardinality(to)
  <2>1. Cardinality(Places(prev, cb)) = 0
    BY <1>14, FS_EmptySet
  <2>2. Outstanding(cb)' = Cardinality(Places(inbox', cb)) + Cardinality(Places(prev, cb))
    BY <1>12 DEF Outstanding
  <2> QED BY <1>7, <1>11, <1>14, <1>16, <2>1, <2>2
<1>18. /\ dispatches' \in Seq(X \cup {new}) /\ DOMAIN dispatches' = 1..(m + 1) /\ dispatches'[m + 1] = new
       /\ \A d \in 1..m : dispatches'[d] = dispatches[d]
  <2>1. dispatches \in Seq(X \cup {new})
    BY <1>4
  <2>2. /\ Append(dispatches, new) \in Seq(X \cup {new}) /\ Len(Append(dispatches, new)) = m + 1
        /\ \A d \in 1..m : Append(dispatches, new)[d] = dispatches[d]
        /\ Append(dispatches, new)[m + 1] = new
    BY <1>5, <2>1, AppendProperties
  <2>3. DOMAIN Append(dispatches, new) = 1..(m + 1)
    BY <2>2
  <2> QED BY <1>1, <2>2, <2>3
<1>19. QueueInv'
  <2>1. ASSUME NEW g \in Files
        PROVE  OwnedBy(g)' = OwnedBy(g)
    BY <1>2 DEF OwnedBy
  <2>2. m + 1 \in DOMAIN dispatches' /\ DOMAIN dispatches \subseteq DOMAIN dispatches'
    BY <1>5, <1>18
  <2>3. ASSUME NEW g \in Files, NEW s, NEW t, Queued(s, g),
               \A j \in DOMAIN t : (j \in DOMAIN s /\ t[j] = s[j]) \/ t[j] = cb
        PROVE  \A j \in DOMAIN t :
                 \/ t[j] = NoCallback
                 \/ \E d \in DOMAIN dispatches' : t[j] = DispatchCallback(d)
                 \/ \E b \in OwnedBy(g)' : \E i \in DOMAIN quotas'[b] : t[j] = QuotaCallback(b, i)
    BY <2>1, <2>2, <2>3 DEF Queued, cb
  <2>4. ASSUME NEW g \in Files
        PROVE  Queued(inbox[g], g)' /\ Queued(prev[g], g)'
    <3>1. Queued(inbox[g], g) /\ Queued(prev[g], g)
      BY DEF CountInv, QueueInv
    <3> DEFINE s == inbox[g]
               t == inbox'[g]
               p == prev[g]
    <3>2. \A j \in DOMAIN t : (j \in DOMAIN s /\ t[j] = s[j]) \/ t[j] = cb
      BY <1>11
    <3>3. Queued(s, g) /\ Queued(p, g) /\ prev'[g] = p
      BY <1>12, <3>1
    <3> HIDE DEF s, t, p
    <3>4. \A j \in DOMAIN t :
            \/ t[j] = NoCallback
            \/ \E d \in DOMAIN dispatches' : t[j] = DispatchCallback(d)
            \/ \E b \in OwnedBy(g)' : \E i \in DOMAIN quotas'[b] : t[j] = QuotaCallback(b, i)
      BY <2>3, <3>2, <3>3
    <3>5. \A j \in DOMAIN p :
            \/ p[j] = NoCallback
            \/ \E d \in DOMAIN dispatches' : p[j] = DispatchCallback(d)
            \/ \E b \in OwnedBy(g)' : \E i \in DOMAIN quotas'[b] : p[j] = QuotaCallback(b, i)
      BY <2>3, <3>3
    <3>6. Queued(inbox[g], g)'
      BY <3>4 DEF Queued, t
    <3>7. Queued(prev[g], g)'
      BY <3>3, <3>5 DEF Queued
    <3> QED BY <3>6, <3>7
  <2>5. ASSUME NEW g \in Files \ members'
        PROVE  inbox'[g] = <<>> /\ prev'[g] = <<>>
    BY <1>2, <1>9, <1>12 DEF CountInv, QueueInv, M, Sent
  <2>6. prev' \in [Files -> Seq(AnyCallback)]
    BY <1>12 DEF CountInv, QueueInv
  <2> QED BY <1>11, <2>4, <2>5, <2>6 DEF QueueInv
<1>20. NodesInv' /\ OwnerInv'
  BY <1>1, <1>2 DEF CountInv, NodesInv, OwnerInv, MemberIds, OwnedBy
<1>21. QuotaInv'
  <2>1. ASSUME NEW b \in 1..MaxEntries, NEW i \in DOMAIN quotas[b]
        PROVE  QuotaOk(quotas[b][i], Outstanding(QuotaCallback(b, i))')
    <3>1. QuotaCallback(b, i) # cb
      BY CallbacksDiffer DEF cb
    <3>2. QuotaOk(quotas[b][i], Outstanding(QuotaCallback(b, i)))
      BY DEF CountInv, QuotaInv
    <3> QED BY <1>15, <3>1, <3>2
  <2> QED BY <2>1 DEF CountInv, QuotaInv, QuotaOk
<1>22. DispatchInv'
  <2>1. Counted(new, Cardinality(to), Reactors) /\ new.reactor = r
    <3> DEFINE none == to = {}
               n == Cardinality(to)
               call == reactor[r].call
    <3>1. n \in Nat /\ none \in BOOLEAN /\ (none <=> n = 0)
      BY <1>16
    <3>2. new = [reactor |-> r, call |-> call, count |-> n, freed |-> none, fired |-> IF none THEN 1 ELSE 0]
      BY DEF new
    <3> HIDE DEF none, n, call
    <3>3. Counted(new, n, Reactors) /\ new.reactor = r
      BY <3>1, <3>2, NewIsCounted
    <3> QED BY <3>3 DEF n
  <2>2. ASSUME NEW d \in 1..(m + 1)
        PROVE  /\ Counted(dispatches'[d], Outstanding(DispatchCallback(d))', Reactors)
               /\ dispatches'[d].reactor \in 1..ids["reactor"]
    <3>1. CASE d = m + 1
      <4>1. r \in 1..ids["reactor"]
        BY <1>3 DEF TablesInv
      <4>2. DispatchCallback(d) = cb /\ dispatches'[d] = new
        BY <1>18, <3>1 DEF cb
      <4>3. Outstanding(DispatchCallback(d))' = Cardinality(to)
        BY <1>17, <4>2
      <4> QED BY <2>1, <4>1, <4>2, <4>3
    <3>2. CASE d # m + 1
      <4>1. d \in 1..m
        BY <1>5, <3>2
      <4>2. DispatchCallback(d) # cb
        BY <3>2, CallbacksDiffer DEF cb
      <4>3. Counted(dispatches[d], Outstanding(DispatchCallback(d)), Reactors) /\ dispatches[d].reactor \in 1..ids["reactor"]
        BY <1>5, <4>1 DEF CountInv, DispatchInv
      <4> QED BY <1>15, <1>18, <4>1, <4>2, <4>3
    <3> QED BY <3>1, <3>2
  <2>3. ASSUME NEW d \in DOMAIN dispatches'
        PROVE  Counted(dispatches[d], Outstanding(DispatchCallback(d)), Reactors)'
    BY <1>2, <1>18, <2>2 DEF Counted, Reactors
  <2>4. \A d \in DOMAIN dispatches' : dispatches'[d].reactor \in 1..ids'["reactor"]
    BY <1>2, <1>18, <2>2
  <2>5. refs' # 0
    <3>1. refs # 0
      <4>1. pc[f] # "closed" /\ f \in OpenFiles
        BY DEF Dispatch, MayUse, Entered, InUser, OpenFiles
      <4> QED BY <4>1, NoneOpen
    <3> QED BY <1>2, <3>1
  <2> QED BY <1>18, <2>3, <2>4, <2>5 DEF DispatchInv
<1> QED BY <1>19, <1>20, <1>21, <1>22 DEF CountInv

-----------------------------------------------------------------------------
(* Quotas, and the end of a call *)

LEMMA LimitOk ==
  ASSUME NEW q, NEW n, QuotaOk(q, n), NEW limit \in Nat, NEW new,
         new = [q EXCEPT !.limit = limit, !.peak = IF limit > @ THEN limit ELSE @]
  PROVE  QuotaOk(new, n)
<1>1. q \in QuotaRecord /\ q.limit <= q.peak /\ q.count <= q.peak /\ q.count = n
  BY DEF QuotaOk
<1>2. q.count \in Nat /\ q.limit \in Nat /\ q.peak \in Nat
  BY <1>1 DEF QuotaRecord
<1>3. new.count = q.count /\ new.limit = limit /\ new.peak = IF limit > q.peak THEN limit ELSE q.peak
  BY <1>1 DEF QuotaRecord
<1>4. new \in QuotaRecord
  BY <1>1, <1>2 DEF QuotaRecord
<1> QED BY <1>1, <1>2, <1>3, <1>4 DEF QuotaOk

LEMMA SetQuotaCount ==
  ASSUME WorldInv, TablesInv, CountInv, NEW f \in Files, NEW c \in 1..MaxEntries, NEW i \in Nat, NEW limit \in Nat,
         SetQuota(f, c, i, limit)
  PROVE  CountInv'
<1> DEFINE q == quotas[c]
           set == [q[i] EXCEPT !.limit = limit, !.peak = IF limit > @ THEN limit ELSE @]
           fresh == [count |-> 0, limit |-> limit, peak |-> limit]
           new == IF i \in DOMAIN q THEN set ELSE fresh
           Q == [j \in DOMAIN q \cup {i} |-> IF j = i THEN new ELSE q[j]]
<1>1. /\ quotas' = [quotas EXCEPT ![c] = Q]
      /\ UNCHANGED callbacks /\ UNCHANGED dispatches /\ UNCHANGED reactor /\ UNCHANGED <<refs, members, id, ids, entry>>
  BY DEF SetQuota, device, process, entries, reactorVars
<1>2. /\ DOMAIN quotas = 1..MaxEntries /\ DOMAIN q \subseteq Nat
      /\ \A b \in 1..MaxEntries : quotas[b] = [j \in DOMAIN quotas[b] |-> quotas[b][j]] /\ DOMAIN quotas[b] \subseteq Nat
  BY DEF CountInv, QuotaInv
<1>3. QuotaOk(new, Outstanding(QuotaCallback(c, i)))
  <2>1. CASE i \in DOMAIN q
    <3> DEFINE old == q[i]
               n == Outstanding(QuotaCallback(c, i))
    <3>1. QuotaOk(old, n)
      BY <2>1 DEF CountInv, QuotaInv
    <3>2. new = [old EXCEPT !.limit = limit, !.peak = IF limit > @ THEN limit ELSE @]
      BY <2>1
    <3> HIDE DEF old, n, new
    <3>3. QuotaOk(new, n)
      BY <3>1, <3>2, LimitOk
    <3> QED BY <3>3 DEF n
  <2>2. CASE i \notin DOMAIN q
    <3>1. Outstanding(QuotaCallback(c, i)) = 0
      BY <2>2, NoSuchQuota DEF CountInv
    <3>2. QuotaOk(fresh, 0)
      BY DEF QuotaOk, QuotaRecord
    <3>3. new = fresh
      BY <2>2
    <3> HIDE DEF new, fresh
    <3> QED BY <3>1, <3>2, <3>3
  <2> QED BY <2>1, <2>2
<1> HIDE DEF set, fresh, new
<1>4. DOMAIN Q = DOMAIN q \cup {i} /\ Q[i] = new /\ (\A j \in DOMAIN q \ {i} : Q[j] = q[j]) /\ Q = [j \in DOMAIN Q |-> Q[j]]
  OBVIOUS
<1> HIDE DEF Q
<1>5. quotas'[c] = Q /\ DOMAIN quotas' = 1..MaxEntries /\ \A b \in 1..MaxEntries \ {c} : quotas'[b] = quotas[b]
  BY <1>1, <1>2
<1>6. QuotaInv'
  <2>1. ASSUME NEW b \in 1..MaxEntries, NEW j \in DOMAIN quotas'[b]
        PROVE  QuotaOk(quotas'[b][j], Outstanding(QuotaCallback(b, j))')
    <3>1. Outstanding(QuotaCallback(b, j))' = Outstanding(QuotaCallback(b, j))
      BY <1>1, OutstandingKept
    <3>2. CASE b = c /\ j = i
      BY <1>3, <1>4, <1>5, <3>1, <3>2
    <3>3. CASE b = c /\ j # i
      <4>1. j \in DOMAIN q /\ quotas'[b][j] = q[j]
        BY <1>4, <1>5, <3>3
      <4>2. QuotaOk(q[j], Outstanding(QuotaCallback(b, j)))
        BY <3>3, <4>1 DEF CountInv, QuotaInv
      <4> QED BY <3>1, <4>1, <4>2
    <3>4. CASE b # c
      <4>1. quotas'[b] = quotas[b]
        BY <1>5, <3>4
      <4>2. QuotaOk(quotas[b][j], Outstanding(QuotaCallback(b, j)))
        BY <4>1 DEF CountInv, QuotaInv
      <4> QED BY <3>1, <4>1, <4>2
    <3> QED BY <3>2, <3>3, <3>4
  <2>2. ASSUME NEW b \in 1..MaxEntries
        PROVE  quotas'[b] = [j \in DOMAIN quotas'[b] |-> quotas'[b][j]] /\ DOMAIN quotas'[b] \subseteq Nat
    <3>1. CASE b = c
      BY <1>2, <1>4, <1>5, <3>1
    <3>2. CASE b # c
      BY <1>2, <1>5, <3>2
    <3> QED BY <3>1, <3>2
  <2>3. \A b \in 1..MaxEntries : \A j \in DOMAIN quotas'[b] : QuotaOk(quotas[b][j], Outstanding(QuotaCallback(b, j)))'
    BY <2>1 DEF QuotaOk
  <2> QED BY <1>5, <2>2, <2>3 DEF QuotaInv
<1>7. Grows
  BY <1>1 DEF Grows
<1>8. OwnerInv' /\ \A g \in Files : OwnedBy(g) \subseteq OwnedBy(g)'
  <2>1. OwnersKept
    BY <1>1 DEF OwnersKept, OwnedBy
  <2> QED BY <1>7, <2>1, OwnersGrow DEF CountInv
<1>9. QueueInv'
  <2>1. ASSUME NEW g \in Files, NEW b \in OwnedBy(g)
        PROVE  DOMAIN quotas[b] \subseteq DOMAIN quotas'[b]
    <3>1. b \in 1..MaxEntries
      BY DEF CountInv, OwnerInv, OwnedBy
    <3> QED BY <1>4, <1>5, <3>1
  <2>2. members \subseteq members' /\ DOMAIN dispatches \subseteq DOMAIN dispatches'
    BY <1>1
  <2> QED BY <1>1, <1>8, <2>1, <2>2, QueueKept DEF CountInv
<1>10. DispatchInv'
  <2>1. ReactorsKept
    BY <1>1 DEF ReactorsKept
  <2>2. refs' = 0 => dispatches = <<>>
    BY <1>1 DEF CountInv, DispatchInv
  <2> QED BY <1>1, <2>1, <2>2, DispatchKept DEF CountInv
<1>11. NodesInv'
  BY <1>1, <1>7, NodesKept DEF CountInv
<1> QED BY <1>6, <1>8, <1>9, <1>10, <1>11 DEF CountInv

\* fusionee_remove_message_callbacks leaves the other callbacks where they are.
LEMMA UnquotedFacts ==
  ASSUME NEW s \in Seq(AnyCallback), NEW calls
  PROVE  /\ Unquoted(s, calls) \in Seq(AnyCallback) /\ DOMAIN Unquoted(s, calls) = DOMAIN s
         /\ \A j \in DOMAIN s : Unquoted(s, calls)[j] = s[j] \/ Unquoted(s, calls)[j] = NoCallback
         /\ \A j \in DOMAIN s, c \in calls : \A i : Unquoted(s, calls)[j] # QuotaCallback(c, i)
         /\ \A j \in DOMAIN s : \A d : s[j] = DispatchCallback(d) => Unquoted(s, calls)[j] = s[j]
         /\ \A j \in DOMAIN s : \A c, i : c \notin calls /\ s[j] = QuotaCallback(c, i) => Unquoted(s, calls)[j] = s[j]
<1> DEFINE u == Unquoted(s, calls)
           gone(j) == s[j].kind = "quota" /\ s[j].ctx[1] \in calls
<1>1. Len(s) \in Nat /\ DOMAIN s = 1..Len(s) /\ \A j \in DOMAIN s : s[j] \in AnyCallback
  OBVIOUS
<1>2. u = [j \in 1..Len(s) |-> IF gone(j) THEN NoCallback ELSE s[j]]
  BY <1>1 DEF Unquoted
<1> HIDE DEF gone
<1>3. DOMAIN u = 1..Len(s) /\ \A j \in 1..Len(s) : u[j] = IF gone(j) THEN NoCallback ELSE s[j]
  BY <1>2
<1>4. u \in Seq(AnyCallback)
  <2>1. u \in [1..Len(s) -> AnyCallback]
    BY <1>1, <1>2, CallbackFacts
  <2> HIDE DEF u
  <2> QED BY <1>1, <2>1
<1> HIDE DEF u
<1>5. ASSUME NEW j \in DOMAIN s, NEW c \in calls, NEW i
      PROVE  u[j] # QuotaCallback(c, i)
  <2>1. CASE gone(j)
    BY <1>1, <1>3, <2>1, CallbacksDiffer
  <2>2. CASE ~gone(j)
    <3>1. s[j] # QuotaCallback(c, i)
      BY <2>2, CallbackFacts DEF gone
    <3> QED BY <1>1, <1>3, <2>2, <3>1
  <2> QED BY <2>1, <2>2
<1>6. ASSUME NEW j \in DOMAIN s, NEW d, s[j] = DispatchCallback(d)
      PROVE  u[j] = s[j]
  <2>1. s[j].kind = "dispatch" /\ "dispatch" # "quota"
    BY <1>6, CallbackFacts
  <2>2. ~gone(j)
    BY <2>1 DEF gone
  <2> QED BY <1>1, <1>3, <2>2
<1>7. ASSUME NEW j \in DOMAIN s, NEW c, NEW i, c \notin calls, s[j] = QuotaCallback(c, i)
      PROVE  u[j] = s[j]
  <2>1. s[j].ctx[1] = c
    BY <1>7, CallbackFacts
  <2>2. ~gone(j)
    BY <1>7, <2>1 DEF gone
  <2> QED BY <1>1, <1>3, <2>2
<1>8. \A j \in DOMAIN s : u[j] = s[j] \/ u[j] = NoCallback
  BY <1>1, <1>3
<1> QED BY <1>1, <1>3, <1>4, <1>5, <1>6, <1>7, <1>8 DEF u

\* The queues q become s, and what is not a callback of a set of calls stays.
Cleared(q, s, calls) == \A f \in Files : s[f] = Unquoted(q[f], calls)

Spared(cb, calls) == (\E d : cb = DispatchCallback(d)) \/ (\E c, i : c \notin calls /\ cb = QuotaCallback(c, i))

\* The places of a callback that is not removed.
LEMMA UnquotedPlaces ==
  ASSUME NEW q \in [Files -> Seq(AnyCallback)], NEW calls, NEW s, NEW cb, Cleared(q, s, calls), Spared(cb, calls)
  PROVE  Places(s, cb) = Places(q, cb)
<1>1. ASSUME NEW f \in Files, NEW i
      PROVE  i \in DOMAIN s[f] /\ s[f][i] = cb <=> i \in DOMAIN q[f] /\ q[f][i] = cb
  <2> DEFINE t == q[f]
             u == Unquoted(t, calls)
  <2>1. t \in Seq(AnyCallback) /\ s[f] = u
    BY DEF Cleared
  <2> HIDE DEF t, u
  <2>2. /\ DOMAIN u = DOMAIN t /\ \A j \in DOMAIN t : u[j] = t[j] \/ u[j] = NoCallback
        /\ \A j \in DOMAIN t : \A d : t[j] = DispatchCallback(d) => u[j] = t[j]
        /\ \A j \in DOMAIN t : \A c, k : c \notin calls /\ t[j] = QuotaCallback(c, k) => u[j] = t[j]
    BY <2>1, UnquotedFacts DEF u
  <2>3. cb # NoCallback
    BY CallbacksDiffer DEF Spared
  <2>4. \A j \in DOMAIN t : t[j] = cb => u[j] = t[j]
    BY <2>2 DEF Spared
  <2>5. i \in DOMAIN u /\ u[i] = cb <=> i \in DOMAIN t /\ t[i] = cb
    BY <2>2, <2>3, <2>4
  <2> QED BY <2>1, <2>5 DEF t
<1>2. ASSUME NEW x \in Places(s, cb)
      PROVE  x \in Places(q, cb)
  <2>1. PICK g \in Files : \E i \in DOMAIN s[g] : s[g][i] = cb /\ x = <<g, i>>
    BY PlaceFacts
  <2>2. \E i \in DOMAIN q[g] : q[g][i] = cb /\ x = <<g, i>>
    BY <1>1, <2>1
  <2> QED BY <2>2, PlaceFacts
<1>3. ASSUME NEW x \in Places(q, cb)
      PROVE  x \in Places(s, cb)
  <2>1. PICK g \in Files : \E i \in DOMAIN q[g] : q[g][i] = cb /\ x = <<g, i>>
    BY PlaceFacts
  <2>2. \E i \in DOMAIN s[g] : s[g][i] = cb /\ x = <<g, i>>
    BY <1>1, <2>1
  <2> QED BY <2>2, PlaceFacts
<1> QED BY <1>2, <1>3

\* The end of a call takes its quotas and their callbacks.
LEMMA DestroyCount ==
  ASSUME WorldInv, TablesInv, CountInv, NEW f \in Files, NEW c \in 1..MaxEntries, CallDestroy(f, c)
  PROVE  CountInv'
<1>1. /\ UNCHANGED <<refs, members, id, ids>> /\ UNCHANGED dispatches /\ UNCHANGED reactor
      /\ DestroyEntries(Only("call", c)) /\ FreeQuotas({c})
      /\ inbox' = [g \in Files |-> Unquoted(inbox[g], {c})] /\ prev' = [g \in Files |-> Unquoted(prev[g], {c})]
  BY DEF CallDestroy, RemoveCallbacks, device, process, reactorVars, DestroyEntries
<1>2. /\ DOMAIN quotas' = 1..MaxEntries /\ quotas'[c] = <<>>
      /\ \A b \in 1..MaxEntries \ {c} : quotas'[b] = quotas[b]
  BY <1>1 DEF FreeQuotas, CountInv, QuotaInv
<1>3. /\ DOMAIN entry'["call"] = DOMAIN entry["call"] \ {c} /\ DOMAIN entry'["reactor"] = DOMAIN entry["reactor"]
      /\ \A b \in DOMAIN entry["call"] \ {c} : entry'["call"][b] = entry["call"][b]
  <2>1. entry' = [k \in Kinds |-> [j \in DOMAIN entry[k] \ Only("call", c)[k] |-> entry[k][j]]]
    BY <1>1 DEF DestroyEntries
  <2>2. Only("call", c)["call"] = {c} /\ Only("call", c)["reactor"] = {}
    BY DEF Only
  <2> QED BY <2>1, <2>2
<1>4. \A g : OwnedBy(g)' = OwnedBy(g) \ {c}
  BY <1>1, <1>3 DEF OwnedBy
<1>5. inbox \in [Files -> Seq(AnyCallback)] /\ prev \in [Files -> Seq(AnyCallback)]
  BY DEF CountInv, QueueInv
<1>6. \A g \in Files : inbox'[g] = Unquoted(inbox[g], {c}) /\ prev'[g] = Unquoted(prev[g], {c})
  BY <1>1
<1>7. ASSUME NEW cb, Spared(cb, {c})
      PROVE  Outstanding(cb)' = Outstanding(cb)
  <2> DEFINE C == {c}
  <2>3. Spared(cb, C)
    BY <1>7
  <2>4. Cleared(inbox, inbox', C)
    BY <1>6 DEF Cleared
  <2>5. Cleared(prev, prev', C)
    BY <1>6 DEF Cleared
  <2>6. inbox \in [Files -> Seq(AnyCallback)]
    BY <1>5
  <2>7. prev \in [Files -> Seq(AnyCallback)]
    BY <1>5
  <2> HIDE DEF C
  <2>1. Places(inbox', cb) = Places(inbox, cb)
    BY <2>3, <2>4, <2>6, UnquotedPlaces
  <2>2. Places(prev', cb) = Places(prev, cb)
    BY <2>3, <2>5, <2>7, UnquotedPlaces
  <2> QED BY <2>1, <2>2 DEF Outstanding
<1>8. QueueInv'
  <2>1. ASSUME NEW g \in Files, NEW s \in Seq(AnyCallback), Queued(s, g)
        PROVE  \A j \in DOMAIN Unquoted(s, {c}) :
                 \/ Unquoted(s, {c})[j] = NoCallback
                 \/ \E d \in DOMAIN dispatches : Unquoted(s, {c})[j] = DispatchCallback(d)
                 \/ \E b \in OwnedBy(g) \ {c} : \E i \in DOMAIN quotas'[b] : Unquoted(s, {c})[j] = QuotaCallback(b, i)
    <3> DEFINE u == Unquoted(s, {c})
    <3>1. /\ DOMAIN u = DOMAIN s /\ \A j \in DOMAIN s : u[j] = s[j] \/ u[j] = NoCallback
          /\ \A j \in DOMAIN s : \A i : u[j] # QuotaCallback(c, i)
      <4> DEFINE C == {c}
                 v == Unquoted(s, C)
      <4>1. c \in C /\ u = v
        OBVIOUS
      <4> HIDE DEF C
      <4>2. DOMAIN v = DOMAIN s
        BY UnquotedFacts
      <4>3. \A j \in DOMAIN s : v[j] = s[j] \/ v[j] = NoCallback
        BY UnquotedFacts
      <4>4. \A j \in DOMAIN s : \A i : v[j] # QuotaCallback(c, i)
        BY <4>1, UnquotedFacts
      <4> HIDE DEF u, v
      <4> QED BY <4>1, <4>2, <4>3, <4>4
    <3> HIDE DEF u
    <3>2. ASSUME NEW j \in DOMAIN u, u[j] # NoCallback
          PROVE  \/ \E d \in DOMAIN dispatches : u[j] = DispatchCallback(d)
                 \/ \E b \in OwnedBy(g) \ {c} : \E i \in DOMAIN quotas'[b] : u[j] = QuotaCallback(b, i)
      <4>1. j \in DOMAIN s /\ u[j] = s[j]
        BY <3>1, <3>2
      <4>2. ASSUME NEW b \in OwnedBy(g), NEW i \in DOMAIN quotas[b], s[j] = QuotaCallback(b, i)
            PROVE  b # c /\ i \in DOMAIN quotas'[b]
        <5>1. b # c
          BY <3>1, <4>1, <4>2
        <5>2. b \in 1..MaxEntries
          BY DEF CountInv, OwnerInv, OwnedBy
        <5> QED BY <1>2, <5>1, <5>2
      <4>3. \/ \E d \in DOMAIN dispatches : s[j] = DispatchCallback(d)
            \/ \E b \in OwnedBy(g) : \E i \in DOMAIN quotas[b] : s[j] = QuotaCallback(b, i)
        BY <2>1, <3>2, <4>1 DEF Queued
      <4> QED BY <4>1, <4>2, <4>3
    <3> QED BY <3>2 DEF u
  <2>2. ASSUME NEW g \in Files
        PROVE  Queued(inbox[g], g)' /\ Queued(prev[g], g)'
    <3> DEFINE s == inbox[g]
               t == prev[g]
    <3>1. s \in Seq(AnyCallback) /\ t \in Seq(AnyCallback) /\ Queued(s, g) /\ Queued(t, g)
      BY <1>5 DEF CountInv, QueueInv
    <3> DEFINE u == Unquoted(s, {c})
               v == Unquoted(t, {c})
    <3>2. inbox'[g] = u /\ prev'[g] = v
      BY <1>6
    <3> HIDE DEF s, t
    <3>3. \A j \in DOMAIN u :
            \/ u[j] = NoCallback
            \/ \E d \in DOMAIN dispatches : u[j] = DispatchCallback(d)
            \/ \E b \in OwnedBy(g) \ {c} : \E i \in DOMAIN quotas'[b] : u[j] = QuotaCallback(b, i)
      <4>1. s \in Seq(AnyCallback) /\ Queued(s, g)
        BY <3>1
      <4> QED BY <2>1, <4>1
    <3>4. \A j \in DOMAIN v :
            \/ v[j] = NoCallback
            \/ \E d \in DOMAIN dispatches : v[j] = DispatchCallback(d)
            \/ \E b \in OwnedBy(g) \ {c} : \E i \in DOMAIN quotas'[b] : v[j] = QuotaCallback(b, i)
      <4>1. t \in Seq(AnyCallback) /\ Queued(t, g)
        BY <3>1
      <4> QED BY <2>1, <4>1
    <3> HIDE DEF u, v
    <3>5. OwnedBy(g)' = OwnedBy(g) \ {c} /\ dispatches' = dispatches
      BY <1>1, <1>4
    <3>6. Queued(inbox[g], g)'
      BY <3>2, <3>3, <3>5 DEF Queued
    <3>7. Queued(prev[g], g)'
      BY <3>2, <3>4, <3>5 DEF Queued
    <3> QED BY <3>6, <3>7
  <2>3. ASSUME NEW g \in Files \ members'
        PROVE  inbox'[g] = <<>> /\ prev'[g] = <<>>
    <3>1. inbox[g] = <<>> /\ prev[g] = <<>>
      BY <1>1 DEF CountInv, QueueInv
    <3>2. Unquoted(<<>>, {c}) = <<>>
      BY DEF Unquoted
    <3> QED BY <1>6, <3>1, <3>2
  <2>4. inbox' \in [Files -> Seq(AnyCallback)] /\ prev' \in [Files -> Seq(AnyCallback)]
    <3>1. \A g \in Files : Unquoted(inbox[g], {c}) \in Seq(AnyCallback) /\ Unquoted(prev[g], {c}) \in Seq(AnyCallback)
      BY <1>5, UnquotedFacts
    <3> QED BY <1>1, <3>1
  <2> QED BY <2>2, <2>3, <2>4 DEF QueueInv
<1>9. QuotaInv'
  <2>1. ASSUME NEW b \in 1..MaxEntries, NEW i \in DOMAIN quotas'[b]
        PROVE  QuotaOk(quotas'[b][i], Outstanding(QuotaCallback(b, i))')
    <3>1. b # c
      BY <1>2
    <3>2. quotas'[b] = quotas[b]
      BY <1>2, <3>1
    <3>3. Outstanding(QuotaCallback(b, i))' = Outstanding(QuotaCallback(b, i))
      BY <1>7, <3>1 DEF Spared
    <3>4. QuotaOk(quotas[b][i], Outstanding(QuotaCallback(b, i)))
      BY <3>2 DEF CountInv, QuotaInv
    <3> QED BY <3>2, <3>3, <3>4
  <2>2. \A b \in 1..MaxEntries : quotas'[b] = [i \in DOMAIN quotas'[b] |-> quotas'[b][i]] /\ DOMAIN quotas'[b] \subseteq Nat
    <3>1. <<>> = [i \in DOMAIN <<>> |-> <<>>[i]] /\ DOMAIN <<>> = {}
      OBVIOUS
    <3> QED BY <1>2, <3>1 DEF CountInv, QuotaInv
  <2>3. \A b \in 1..MaxEntries : \A i \in DOMAIN quotas'[b] : QuotaOk(quotas[b][i], Outstanding(QuotaCallback(b, i)))'
    BY <2>1 DEF QuotaOk
  <2> QED BY <1>2, <2>2, <2>3 DEF QuotaInv
<1>10. DispatchInv'
  <2>1. ASSUME NEW d \in DOMAIN dispatches
        PROVE  Counted(dispatches[d], Outstanding(DispatchCallback(d))', Reactors)
    <3>1. Outstanding(DispatchCallback(d))' = Outstanding(DispatchCallback(d))
      BY <1>7 DEF Spared
    <3> QED BY <3>1 DEF CountInv, DispatchInv
  <2>2. \A d \in DOMAIN dispatches' : Counted(dispatches[d], Outstanding(DispatchCallback(d)), Reactors)'
    BY <1>1, <1>3, <2>1 DEF Counted, Reactors
  <2>3. (\E X : dispatches' \in Seq(X)) /\ (refs' = 0 => dispatches' = <<>>)
    BY <1>1 DEF CountInv, DispatchInv
  <2>4. \A d \in DOMAIN dispatches' : dispatches'[d].reactor \in 1..ids'["reactor"]
    BY <1>1 DEF CountInv, DispatchInv
  <2> QED BY <2>2, <2>3, <2>4 DEF DispatchInv
<1>11. NodesInv'
  BY <1>1 DEF CountInv, NodesInv, MemberIds
<1>12. OwnerInv'
  <2>1. ASSUME NEW b \in DOMAIN entry'["call"]
        PROVE  b \in 1..MaxEntries /\ \E g \in members' : b \in OwnedBy(g)'
    <3>1. b \in DOMAIN entry["call"] /\ b # c
      BY <1>3
    <3> QED BY <1>1, <1>4, <3>1 DEF CountInv, OwnerInv
  <2> QED BY <2>1 DEF OwnerInv
<1> QED BY <1>8, <1>9, <1>10, <1>11, <1>12 DEF CountInv

-----------------------------------------------------------------------------
(* Messages are processed *)

LEMMA DispatchFields ==
  ASSUME NEW d, NEW r, NEW call, NEW n, NEW freed, NEW fired, NEW count, NEW gone, NEW done,
         d = [reactor |-> r, call |-> call, count |-> n, freed |-> freed, fired |-> fired]
  PROVE  /\ [d EXCEPT !.count = count, !.freed = gone, !.fired = done]
              = [reactor |-> r, call |-> call, count |-> count, freed |-> gone, fired |-> done]
         /\ [d EXCEPT !.count = count, !.freed = gone]
              = [reactor |-> r, call |-> call, count |-> count, freed |-> gone, fired |-> fired]
<1> DEFINE one == [d EXCEPT !.count = count]
           two == [one EXCEPT !.freed = gone]
           three == [two EXCEPT !.fired = done]
<1>1. one = [reactor |-> r, call |-> call, count |-> count, freed |-> freed, fired |-> fired]
  OBVIOUS
<1> HIDE DEF one
<1>2. two = [reactor |-> r, call |-> call, count |-> count, freed |-> gone, fired |-> fired]
  BY <1>1
<1> HIDE DEF two
<1>3. three = [reactor |-> r, call |-> call, count |-> count, freed |-> gone, fired |-> done]
  BY <1>2
<1> QED BY <1>2, <1>3 DEF one, two

\* k of the n outstanding messages of a dispatch are processed.
LEMMA ProcessedCounted ==
  ASSUME NEW d, NEW n \in Nat, NEW k \in 0..n, NEW live, NEW listed, listed \subseteq live, Counted(d, n, live)
  PROVE  Counted(Processed(d, k, listed), n - k, listed) /\ Processed(d, k, listed).reactor = d.reactor
<1> DEFINE last == d.count - k = 0
           once == [d EXCEPT !.count = @ - k, !.freed = last, !.fired = IF last THEN @ + 1 ELSE @]
           gone == [d EXCEPT !.count = @ - k, !.freed = last]
<1>1. /\ d = [reactor |-> d.reactor, call |-> d.call, count |-> d.count, freed |-> d.freed, fired |-> d.fired]
      /\ d.count \in Nat /\ d.count >= n /\ (d.freed => n = 0) /\ d.fired \in {0, 1} /\ (d.fired = 1 => n = 0)
      /\ d.reactor \in live => d.count = n /\ (n = 0 => d.fired = 1)
  BY DEF Counted
<1>2. CASE k = 0
  <2>1. Processed(d, k, listed) = d /\ n - k = n
    BY <1>2 DEF Processed
  <2> QED BY <1>1, <2>1 DEF Counted
<1>3. CASE k # 0
  <2>1. n # 0 /\ d.fired = 0 /\ ~d.freed /\ n - k \in Nat /\ d.count - k \in Nat /\ d.count - k >= n - k
    BY <1>1, <1>3
  <2>2. CASE d.reactor \in listed
    <3>1. Processed(d, k, listed) = once
      BY <1>3, <2>2 DEF Processed
    <3>2. once = [reactor |-> d.reactor, call |-> d.call, count |-> d.count - k, freed |-> last,
                  fired |-> IF last THEN 1 ELSE 0]
      <4> DEFINE r == d.reactor
                 call == d.call
                 count == d.count
                 freed == d.freed
                 fired == d.fired
                 left == count - k
                 done == IF last THEN fired + 1 ELSE fired
      <4>1. d = [reactor |-> r, call |-> call, count |-> count, freed |-> freed, fired |-> fired]
        BY <1>1
      <4>2. once = [d EXCEPT !.count = left, !.freed = last, !.fired = done]
        OBVIOUS
      <4>3. done = IF last THEN 1 ELSE 0
        BY <2>1
      <4> HIDE DEF r, call, count, freed, fired, left, last, done, once
      <4>4. once = [reactor |-> r, call |-> call, count |-> left, freed |-> last, fired |-> done]
        BY <4>1, <4>2, DispatchFields
      <4> QED BY <4>3, <4>4 DEF r, call, count, left
    <3>3. d.count = n
      BY <1>1, <2>2
    <3> HIDE DEF once
    <3>4. once.reactor = d.reactor /\ once.count = n - k /\ (once.freed <=> n - k = 0) /\ once.fired = IF n - k = 0 THEN 1 ELSE 0
      BY <3>2, <3>3
    <3>5. once = [reactor |-> once.reactor, call |-> once.call, count |-> once.count, freed |-> once.freed, fired |-> once.fired]
      BY <3>2
    <3> QED BY <2>1, <3>1, <3>4, <3>5 DEF Counted
  <2>3. CASE d.reactor \notin listed /\ listed = {}
    <3>1. Processed(d, k, listed) = gone
      BY <1>3, <2>3 DEF Processed
    <3>2. gone = [reactor |-> d.reactor, call |-> d.call, count |-> d.count - k, freed |-> last, fired |-> d.fired]
      <4> DEFINE r == d.reactor
                 call == d.call
                 count == d.count
                 freed == d.freed
                 fired == d.fired
                 left == count - k
      <4>1. d = [reactor |-> r, call |-> call, count |-> count, freed |-> freed, fired |-> fired]
        BY <1>1
      <4>2. gone = [d EXCEPT !.count = left, !.freed = last]
        OBVIOUS
      <4> HIDE DEF r, call, count, freed, fired, left, last, gone
      <4>4. gone = [reactor |-> r, call |-> call, count |-> left, freed |-> last, fired |-> fired]
        BY <4>1, <4>2, DispatchFields
      <4> QED BY <4>4 DEF r, call, count, left, fired
    <3> HIDE DEF gone
    <3>3. gone.reactor = d.reactor /\ gone.count = d.count - k /\ (gone.freed <=> d.count - k = 0) /\ gone.fired = 0
      BY <2>1, <3>2
    <3>4. gone = [reactor |-> gone.reactor, call |-> gone.call, count |-> gone.count, freed |-> gone.freed, fired |-> gone.fired]
      BY <3>2
    <3>5. gone.freed => n - k = 0
      BY <1>1, <2>1, <3>3
    <3> QED BY <2>1, <2>3, <3>1, <3>3, <3>4, <3>5 DEF Counted
  <2>4. CASE d.reactor \notin listed /\ listed # {}
    <3>1. Processed(d, k, listed) = d
      BY <1>3, <2>4 DEF Processed
    <3> QED BY <1>1, <2>1, <2>4, <3>1 DEF Counted
  <2> QED BY <2>2, <2>3, <2>4
<1> QED BY <1>2, <1>3

\* Of the n outstanding messages with a callback, those in s are processed.
Less(s, cb) ==
  /\ Outstanding(cb) \in Nat /\ CountIn(s, cb) \in 0..Outstanding(cb)
  /\ Outstanding(cb)' = Outstanding(cb) - CountIn(s, cb)

LEMMA DispatchRun ==
  ASSUME DispatchInv, NEW s, NEW listed, listed \subseteq Reactors, RunDispatchCallbacks(s, listed),
         \A d \in DOMAIN dispatches : Less(s, DispatchCallback(d)),
         Reactors' = listed, ids'["reactor"] = ids["reactor"], refs' # 0
  PROVE  DispatchInv' /\ DOMAIN dispatches' = DOMAIN dispatches
<1>1. PICK X : dispatches \in Seq(X)
  BY DEF DispatchInv
<1>2. PICK m \in Nat : m = Len(dispatches) /\ DOMAIN dispatches = 1..m
  BY <1>1
<1> DEFINE P(d) == Processed(dispatches[d], CountIn(s, DispatchCallback(d)), listed)
           new == [d \in 1..m |-> P(d)]
           Y == {P(d) : d \in 1..m}
<1>3. dispatches' = new
  BY <1>2 DEF RunDispatchCallbacks
<1>4. new \in Seq(Y)
  <2>1. new \in [1..m -> Y]
    OBVIOUS
  <2>2. m \in Nat
    OBVIOUS
  <2> HIDE DEF new, Y
  <2> QED BY <2>1, <2>2
<1>5. ASSUME NEW d \in 1..m
      PROVE  /\ Counted(P(d), Outstanding(DispatchCallback(d))', listed)
             /\ P(d).reactor \in 1..ids["reactor"]
  <2> DEFINE n == Outstanding(DispatchCallback(d))
             k == CountIn(s, DispatchCallback(d))
             e == dispatches[d]
             live == Reactors
  <2>1. Counted(e, n, live) /\ e.reactor \in 1..ids["reactor"]
    BY <1>2 DEF DispatchInv
  <2>2. n \in Nat /\ k \in 0..n /\ Outstanding(DispatchCallback(d))' = n - k
    BY <1>2 DEF Less
  <2>3. listed \subseteq live
    OBVIOUS
  <2> HIDE DEF n, k, e, live
  <2>4. Counted(Processed(e, k, listed), n - k, listed) /\ Processed(e, k, listed).reactor = e.reactor
    BY <2>1, <2>2, <2>3, ProcessedCounted
  <2>5. P(d) = Processed(e, k, listed)
    BY DEF e, k
  <2> QED BY <2>1, <2>2, <2>4, <2>5
<1>6. DOMAIN dispatches' = 1..m /\ \A d \in 1..m : dispatches'[d] = P(d)
  BY <1>3
<1> HIDE DEF new, P, Y
<1>7. ASSUME NEW d \in DOMAIN dispatches'
      PROVE  Counted(dispatches[d], Outstanding(DispatchCallback(d)), Reactors)' /\ dispatches'[d].reactor \in 1..ids'["reactor"]
  <2>1. Counted(dispatches'[d], Outstanding(DispatchCallback(d))', listed) /\ dispatches'[d].reactor \in 1..ids["reactor"]
    BY <1>5, <1>6
  <2> QED BY <2>1 DEF Counted
<1>8. \E Z : dispatches' \in Seq(Z)
  BY <1>3, <1>4
<1> QED BY <1>2, <1>6, <1>7, <1>8 DEF DispatchInv

LEMMA QuotaLess ==
  ASSUME NEW q, NEW n \in Nat, NEW k \in 0..n, QuotaOk(q, n), NEW new, new = [q EXCEPT !.count = @ - k]
  PROVE  QuotaOk(new, n - k)
<1>1. q \in QuotaRecord /\ q.limit <= q.peak /\ q.count <= q.peak /\ q.count = n
  BY DEF QuotaOk
<1>2. q.count \in Nat /\ q.limit \in Nat /\ q.peak \in Nat /\ q.count - k \in Nat
  BY <1>1 DEF QuotaRecord
<1>3. new.count = q.count - k /\ new.limit = q.limit /\ new.peak = q.peak
  BY <1>1 DEF QuotaRecord
<1>4. new \in QuotaRecord
  BY <1>1, <1>2 DEF QuotaRecord
<1> QED BY <1>1, <1>2, <1>3, <1>4 DEF QuotaOk

LEMMA QuotaRun ==
  ASSUME QuotaInv, NEW s, RunQuotaCallbacks(s),
         \A c \in 1..MaxEntries : \A i \in DOMAIN quotas[c] : Less(s, QuotaCallback(c, i))
  PROVE  QuotaInv' /\ \A c \in 1..MaxEntries : DOMAIN quotas'[c] = DOMAIN quotas[c]
<1> DEFINE R(c, i) == [quotas[c][i] EXCEPT !.count = @ - CountIn(s, QuotaCallback(c, i))]
<1>1. quotas' = [c \in DOMAIN quotas |-> [i \in DOMAIN quotas[c] |-> R(c, i)]]
  BY DEF RunQuotaCallbacks
<1>2. ASSUME NEW c \in 1..MaxEntries, NEW i \in DOMAIN quotas[c]
      PROVE  QuotaOk(R(c, i), Outstanding(QuotaCallback(c, i))')
  <2> DEFINE n == Outstanding(QuotaCallback(c, i))
             k == CountIn(s, QuotaCallback(c, i))
             q == quotas[c][i]
             new == R(c, i)
  <2>1. QuotaOk(q, n)
    BY DEF QuotaInv
  <2>2. n \in Nat /\ k \in 0..n /\ Outstanding(QuotaCallback(c, i))' = n - k
    BY DEF Less
  <2>3. new = [q EXCEPT !.count = @ - k]
    OBVIOUS
  <2> HIDE DEF n, k, q, new
  <2>4. QuotaOk(new, n - k)
    BY <2>1, <2>2, <2>3, QuotaLess
  <2> QED BY <2>2, <2>4 DEF new
<1> HIDE DEF R
<1>3. DOMAIN quotas' = 1..MaxEntries
  BY <1>1 DEF QuotaInv
<1>4. \A c \in 1..MaxEntries : quotas'[c] = [i \in DOMAIN quotas[c] |-> R(c, i)]
  BY <1>1 DEF QuotaInv
<1>5. ASSUME NEW c \in 1..MaxEntries
      PROVE  /\ DOMAIN quotas'[c] = DOMAIN quotas[c] /\ DOMAIN quotas[c] \subseteq Nat
             /\ quotas'[c] = [i \in DOMAIN quotas'[c] |-> quotas'[c][i]]
             /\ \A i \in DOMAIN quotas'[c] : quotas'[c][i] = R(c, i)
  BY <1>4 DEF QuotaInv
<1>6. ASSUME NEW c \in 1..MaxEntries, NEW i \in DOMAIN quotas'[c]
      PROVE  QuotaOk(quotas[c][i], Outstanding(QuotaCallback(c, i)))'
  <2>1. QuotaOk(quotas'[c][i], Outstanding(QuotaCallback(c, i))')
    BY <1>2, <1>5
  <2> QED BY <2>1 DEF QuotaOk
<1> QED BY <1>3, <1>5, <1>6 DEF QuotaInv

\* A queue whose messages are among those of another.
LEMMA QueuedPart ==
  ASSUME NEW g, NEW s, NEW t, Queued(s, g), \A j \in DOMAIN t : \E i \in DOMAIN s : t[j] = s[i]
  PROVE  Queued(t, g)
BY DEF Queued

\* What a queue held, it holds when dispatches and quotas are kept.
LEMMA QueuedKept ==
  ASSUME NEW g, NEW s, Queued(s, g), DOMAIN dispatches' = DOMAIN dispatches, OwnedBy(g) \subseteq OwnedBy(g)',
         \A c \in OwnedBy(g) : DOMAIN quotas[c] \subseteq DOMAIN quotas'[c]
  PROVE  \A j \in DOMAIN s :
           \/ s[j] = NoCallback
           \/ \E d \in DOMAIN dispatches' : s[j] = DispatchCallback(d)
           \/ \E c \in OwnedBy(g)' : \E i \in DOMAIN quotas'[c] : s[j] = QuotaCallback(c, i)
BY DEF Queued

\* A fusionee reads n packets, and those it read before are processed.
Read(f, n) ==
  /\ prev'  = [prev EXCEPT ![f] = SubSeq(inbox[f], 1, n)]
  /\ inbox' = [inbox EXCEPT ![f] = SubSeq(@, n + 1, Len(@))]

LEMMA ReadFacts ==
  ASSUME WorldInv, QueueInv, NEW f \in members, NEW n \in 0..Len(inbox[f]), Read(f, n)
  PROVE  /\ inbox' \in [Files -> Seq(AnyCallback)] /\ prev' \in [Files -> Seq(AnyCallback)]
         /\ \A g \in Files \ {f} : inbox'[g] = inbox[g] /\ prev'[g] = prev[g]
         /\ Queued(inbox'[f], f) /\ Queued(prev'[f], f)
         /\ \A cb : Less(prev[f], cb)
<1> DEFINE s == inbox[f]
           p == prev[f]
           a == SubSeq(s, 1, n)
           b == SubSeq(s, n + 1, Len(s))
<1>1. /\ inbox \in [Files -> Seq(AnyCallback)] /\ prev \in [Files -> Seq(AnyCallback)] /\ f \in Files
      /\ IsFiniteSet(members) /\ members \in SUBSET Files /\ \A g \in Files \ members : inbox[g] = <<>> /\ prev[g] = <<>>
  BY MembersFinite DEF QueueInv
<1>2. prev' = [prev EXCEPT ![f] = a] /\ inbox' = [inbox EXCEPT ![f] = b]
  BY DEF Read
<1>3. s \in Seq(AnyCallback) /\ n \in 0..Len(s) /\ Queued(s, f)
  BY <1>1 DEF QueueInv
<1> HIDE DEF s, p
<1>4. ASSUME NEW cb
      PROVE  a \in Seq(AnyCallback) /\ b \in Seq(AnyCallback) /\ CountIn(s, cb) = CountIn(a, cb) + CountIn(b, cb)
  BY <1>3, CountSplit
<1>5. (\A j \in DOMAIN a : \E i \in DOMAIN s : a[j] = s[i]) /\ (\A j \in DOMAIN b : \E i \in DOMAIN s : b[j] = s[i])
  BY <1>3, SplitFacts
<1>6. a \in Seq(AnyCallback) /\ b \in Seq(AnyCallback)
  BY <1>4
<1> HIDE DEF a, b
<1>7. /\ inbox' \in [Files -> Seq(AnyCallback)] /\ prev' \in [Files -> Seq(AnyCallback)]
      /\ inbox'[f] = b /\ prev'[f] = a
      /\ \A g \in Files \ {f} : inbox'[g] = inbox[g] /\ prev'[g] = prev[g]
  BY <1>1, <1>2, <1>6
<1>8. \A g \in Files \ members : inbox'[g] = <<>> /\ prev'[g] = <<>>
  BY <1>1, <1>7
<1>9. Queued(inbox'[f], f) /\ Queued(prev'[f], f)
  BY <1>3, <1>5, <1>7, QueuedPart
<1>10. ASSUME NEW cb
       PROVE  Less(p, cb)
  <2> DEFINE i0 == Cardinality(Places(inbox, cb))
             i1 == Cardinality(Places(inbox', cb))
             p0 == Cardinality(Places(prev, cb))
             p1 == Cardinality(Places(prev', cb))
  <2>1. /\ IsFiniteSet(Places(inbox, cb)) /\ IsFiniteSet(Places(prev, cb))
        /\ IsFiniteSet(Places(inbox', cb)) /\ IsFiniteSet(Places(prev', cb))
    <3>1. IsFiniteSet(Places(inbox, cb)) /\ IsFiniteSet(Places(prev, cb))
      BY OutstandingType
    <3>2. inbox' \in [Files -> Seq(AnyCallback)] /\ IsFiniteSet(members) /\ members \in SUBSET Files
          /\ \A g \in Files \ members : inbox'[g] = <<>>
      BY <1>1, <1>7, <1>8
    <3>3. prev' \in [Files -> Seq(AnyCallback)] /\ \A g \in Files \ members : prev'[g] = <<>>
      BY <1>7, <1>8
    <3>4. IsFiniteSet(Places(inbox', cb))
      BY <3>2, PlacesFinite
    <3>5. IsFiniteSet(Places(prev', cb))
      BY <3>2, <3>3, PlacesFinite
    <3> QED BY <3>1, <3>4, <3>5
  <2>2. /\ i0 \in Nat /\ i1 \in Nat /\ CountIn(s, cb) \in Nat /\ CountIn(b, cb) \in Nat
        /\ i1 = i0 - CountIn(s, cb) + CountIn(b, cb)
    <3>1. inbox \in [Files -> Seq(AnyCallback)] /\ inbox' \in [Files -> Seq(AnyCallback)] /\ f \in Files
          /\ Elsewhere(inbox, inbox', f)
      BY <1>1, <1>7 DEF Elsewhere
    <3>2. IsFiniteSet(Places(inbox, cb)) /\ IsFiniteSet(Places(inbox', cb))
      BY <2>1
    <3>3. Moved(inbox, inbox', f, cb)
      BY <3>1, <3>2, PlacesChange
    <3>4. inbox[f] = s /\ inbox'[f] = b
      BY <1>7 DEF s
    <3> QED BY <3>3, <3>4 DEF Moved
  <2>3. /\ p0 \in Nat /\ p1 \in Nat /\ CountIn(p, cb) \in Nat /\ CountIn(a, cb) \in Nat
        /\ CountIn(p, cb) <= p0 /\ p1 = p0 - CountIn(p, cb) + CountIn(a, cb)
    <3>1. prev \in [Files -> Seq(AnyCallback)] /\ prev' \in [Files -> Seq(AnyCallback)] /\ f \in Files
          /\ Elsewhere(prev, prev', f)
      BY <1>1, <1>7 DEF Elsewhere
    <3>2. IsFiniteSet(Places(prev, cb)) /\ IsFiniteSet(Places(prev', cb))
      BY <2>1
    <3>3. Moved(prev, prev', f, cb)
      BY <3>1, <3>2, PlacesChange
    <3>4. prev[f] = p /\ prev'[f] = a
      BY <1>7 DEF p
    <3> QED BY <3>3, <3>4 DEF Moved
  <2>4. CountIn(s, cb) = CountIn(a, cb) + CountIn(b, cb)
    BY <1>4
  <2>5. Outstanding(cb) = i0 + p0 /\ Outstanding(cb)' = i1 + p1
    BY DEF Outstanding
  <2> HIDE DEF i0, i1, p0, p1
  <2>6. i1 + p1 = (i0 + p0) - CountIn(p, cb)
    <3> DEFINE x == CountIn(a, cb)
               y == CountIn(p, cb)
    <3>1. i1 = i0 - x
      BY <2>2, <2>3, <2>4
    <3>2. i0 \in Nat /\ i1 \in Nat /\ p0 \in Nat /\ p1 \in Nat /\ x \in Nat /\ y \in Nat /\ p1 = p0 - y + x
      BY <2>2, <2>3
    <3> HIDE DEF x, y
    <3>3. i1 + p1 = (i0 + p0) - y
      BY <3>1, <3>2
    <3> QED BY <3>3 DEF y
  <2>7. i0 + p0 \in Nat /\ CountIn(p, cb) \in 0..(i0 + p0)
    BY <2>2, <2>3
  <2> QED BY <2>5, <2>6, <2>7 DEF Less
<1> QED BY <1>7, <1>9, <1>10 DEF p

LEMMA ReceiveCount ==
  ASSUME WorldInv, CountInv, NEW f \in Files, Receive(f)
  PROVE  CountInv'
<1>1. /\ f \in members /\ UNCHANGED <<device, process, entries, reactor>>
      /\ RunDispatchCallbacks(prev[f], Reactors) /\ RunQuotaCallbacks(prev[f])
  BY DEF Receive
<1>2. UNCHANGED <<refs, members, id, ids, entry>>
  BY <1>1 DEF device, process, entries
<1>3. PICK n \in 0..Len(inbox[f]) : Read(f, n)
  BY DEF Receive, Read
<1>4. /\ inbox' \in [Files -> Seq(AnyCallback)] /\ prev' \in [Files -> Seq(AnyCallback)]
      /\ \A g \in Files \ {f} : inbox'[g] = inbox[g] /\ prev'[g] = prev[g]
      /\ Queued(inbox'[f], f) /\ Queued(prev'[f], f)
      /\ \A cb : Less(prev[f], cb)
  BY <1>1, <1>3, ReadFacts DEF CountInv
<1>5. DispatchInv' /\ DOMAIN dispatches' = DOMAIN dispatches
  <2> DEFINE listed == Reactors
             s == prev[f]
  <2>1. Reactors' = listed /\ ids'["reactor"] = ids["reactor"]
    BY <1>2 DEF Reactors
  <2>2. refs' # 0
    BY <1>1, <1>2, NoneOpen DEF WorldInv, OpenFiles
  <2>3. RunDispatchCallbacks(s, listed) /\ listed \subseteq Reactors /\ \A d \in DOMAIN dispatches : Less(s, DispatchCallback(d))
    BY <1>1, <1>4
  <2>4. DispatchInv
    BY DEF CountInv
  <2> HIDE DEF listed, s
  <2> QED BY <2>1, <2>2, <2>3, <2>4, DispatchRun
<1>6. QuotaInv' /\ \A c \in 1..MaxEntries : DOMAIN quotas'[c] = DOMAIN quotas[c]
  <2> DEFINE s == prev[f]
  <2>1. QuotaInv /\ RunQuotaCallbacks(s) /\ \A c \in 1..MaxEntries : \A i \in DOMAIN quotas[c] : Less(s, QuotaCallback(c, i))
    BY <1>1, <1>4 DEF CountInv
  <2> HIDE DEF s
  <2> QED BY <2>1, QuotaRun
<1>7. \A g \in Files : OwnedBy(g)' = OwnedBy(g)
  BY <1>2 DEF OwnedBy
<1>8. QueueInv'
  <2>1. ASSUME NEW g \in Files
        PROVE  Queued(inbox'[g], g) /\ Queued(prev'[g], g)
    BY <1>4 DEF CountInv, QueueInv
  <2>2. ASSUME NEW g \in Files, NEW s, Queued(s, g)
        PROVE  \A j \in DOMAIN s :
                 \/ s[j] = NoCallback
                 \/ \E d \in DOMAIN dispatches' : s[j] = DispatchCallback(d)
                 \/ \E c \in OwnedBy(g)' : \E i \in DOMAIN quotas'[c] : s[j] = QuotaCallback(c, i)
    <3>1. \A c \in OwnedBy(g) : DOMAIN quotas[c] \subseteq DOMAIN quotas'[c]
      BY <1>6 DEF CountInv, OwnerInv, OwnedBy
    <3> QED BY <1>5, <1>7, <2>2, <3>1, QueuedKept
  <2>3. ASSUME NEW g \in Files
        PROVE  Queued(inbox[g], g)' /\ Queued(prev[g], g)'
    <3>1. Queued(inbox[g], g)'
      BY <2>1, <2>2 DEF Queued
    <3>2. Queued(prev[g], g)'
      BY <2>1, <2>2 DEF Queued
    <3> QED BY <3>1, <3>2
  <2>4. \A g \in Files \ members' : inbox'[g] = <<>> /\ prev'[g] = <<>>
    BY <1>1, <1>2, <1>4 DEF CountInv, QueueInv
  <2> QED BY <1>4, <2>3, <2>4 DEF QueueInv
<1>9. NodesInv' /\ OwnerInv'
  <2>1. NodesInv'
    BY <1>1, <1>2 DEF CountInv, NodesInv, MemberIds
  <2>2. OwnerInv'
    BY <1>2, <1>7, MembersFinite DEF CountInv, OwnerInv
  <2> QED BY <2>1, <2>2
<1> QED BY <1>5, <1>6, <1>8, <1>9 DEF CountInv

-----------------------------------------------------------------------------
(* Batches *)

LEMMA LeftToDo ==
  ASSUME QuotaAssumption, NEW done \in 0..BatchSize
  PROVE  Cardinality(NotDone(done)) = BatchSize - done /\ BatchSize - done \in Nat /\ BatchSize \in Nat
<1>1. BatchSize \in Nat /\ done \in Nat /\ done <= BatchSize
  BY DEF QuotaAssumption
<1>2. Cardinality((done + 1)..BatchSize) = IF done + 1 > BatchSize THEN 0 ELSE BatchSize - (done + 1) + 1
  BY <1>1, FS_Interval
<1> QED BY <1>1, <1>2 DEF NotDone

\* The quota lets no more through than there are messages, or than its limit.
LEMMA RoomFacts ==
  ASSUME QuotaInv, NEW c \in 1..MaxEntries, NEW i, NEW n \in Nat
  PROVE  /\ Room(c, i, n) \in 0..n
         /\ i \in DOMAIN quotas[c] => quotas[c][i].count + Room(c, i, n) <= quotas[c][i].peak
<1>1. CASE i \notin DOMAIN quotas[c]
  BY <1>1 DEF Room
<1>2. CASE i \in DOMAIN quotas[c]
  <2> DEFINE q == quotas[c][i]
  <2>1. QuotaOk(q, Outstanding(QuotaCallback(c, i)))
    BY <1>2 DEF QuotaInv
  <2>2. q.count \in Nat /\ q.limit \in Nat /\ q.peak \in Nat /\ q.limit <= q.peak /\ q.count <= q.peak
    BY <2>1 DEF QuotaOk, QuotaRecord
  <2>3. Room(c, i, n) = IF q.count >= q.limit THEN 0 ELSE IF q.limit - q.count < n THEN q.limit - q.count ELSE n
    BY <1>2 DEF Room
  <2> HIDE DEF q
  <2>4. Room(c, i, n) \in 0..n /\ q.count + Room(c, i, n) <= q.peak
    BY <2>2, <2>3
  <2> QED BY <2>4 DEF q
<1> QED BY <1>1, <1>2

\* The first n messages of a batch were sent, and no other.
FirstSent(s, n) == s \in Seq(1..BatchSize) /\ Len(s) = n /\ \A k \in DOMAIN s : s[k] = k

\* The messages of a batch are sent in order, each of them once.
LEMMA ExecuteBatch ==
  ASSUME QuotaAssumption, QuotaInv, BatchInv, NEW f \in Files, NEW c \in 1..MaxEntries, NEW done \in 0..BatchSize,
         NEW before, FirstSent(before, done), ExecuteLoop(f, c, done, before)
  PROVE  BatchInv'
<1> DEFINE left == Cardinality(NotDone(done))
           n == Room(c, id[f], left)
           new == [k \in 1..n |-> BatchSize - left + k]
           all == before \o new
           now == [call |-> c, done |-> BatchSize - left + n]
<1>1. batch' = [batch EXCEPT ![f] = now] /\ got' = [got EXCEPT ![f] = all]
  BY DEF ExecuteLoop
<1>2. left = BatchSize - done /\ left \in Nat /\ BatchSize \in Nat /\ done \in Nat /\ BatchSize - left = done
  <2>1. left = BatchSize - done /\ BatchSize - done \in Nat /\ BatchSize \in Nat
    BY LeftToDo
  <2> HIDE DEF left
  <2> QED BY <2>1
<1>3. n \in 0..left
  <2> HIDE DEF left
  <2> QED BY <1>2, RoomFacts
<1>4. new = [k \in 1..n |-> done + k] /\ now = [call |-> c, done |-> done + n]
  BY <1>2
<1> HIDE DEF left, n, now
<1>5. n \in Nat /\ done + n \in 0..BatchSize
  BY <1>2, <1>3
<1>6. new \in Seq(1..BatchSize) /\ Len(new) = n /\ \A k \in 1..n : new[k] = done + k
  <2>1. new \in [1..n -> 1..BatchSize]
    BY <1>2, <1>4, <1>5
  <2> QED BY <1>4, <1>5, <2>1
<1> HIDE DEF new
<1>7. /\ all \in Seq(1..BatchSize) /\ Len(all) = done + n
      /\ \A k \in 1..done : all[k] = before[k]
      /\ \A k \in 1..n : all[done + k] = new[k]
      /\ DOMAIN all = 1..(done + n)
  <2> DEFINE S == 1..BatchSize
  <2>1. new \in Seq(S) /\ before \in Seq(S)
    BY <1>6 DEF FirstSent
  <2> HIDE DEF S
  <2>2. /\ all \in Seq(S) /\ Len(all) = Len(before) + Len(new) /\ DOMAIN all = 1..(Len(before) + Len(new))
        /\ \A i \in 1..Len(before) : all[i] = before[i]
        /\ \A i \in 1..Len(new) : all[Len(before) + i] = new[i]
    BY <2>1, ConcatFacts
  <2> HIDE DEF all
  <2> QED BY <1>6, <2>2 DEF S, FirstSent
<1> HIDE DEF all
<1>8. ASSUME NEW k \in DOMAIN all
      PROVE  all[k] = k
  <2>1. k \in 1..(done + n)
    BY <1>7
  <2>2. CASE k <= done
    <3>1. k \in 1..done /\ k \in DOMAIN before /\ before[k] = k
      BY <1>2, <2>1, <2>2 DEF FirstSent
    <3> QED BY <1>7, <3>1
  <2>3. CASE ~(k <= done)
    <3>1. k - done \in 1..n /\ k = done + (k - done)
      BY <1>2, <1>5, <2>1, <2>3
    <3>2. all[done + (k - done)] = new[k - done]
      BY <1>7, <3>1
    <3>3. new[k - done] = done + (k - done)
      BY <1>6, <3>1
    <3> QED BY <3>1, <3>2, <3>3
  <2> QED BY <2>2, <2>3
<1>9. now \in [call : 0..MaxEntries, done : 0..BatchSize] /\ now.done = done + n
  BY <1>4, <1>5
<1> QED BY <1>1, <1>7, <1>8, <1>9 DEF BatchInv

\* n messages with the same callback are sent to o.
Posted(q, r, o, n, cb) ==
  /\ r = [g \in Files |-> r[g]] /\ Elsewhere(q, r, o)
  /\ r[o] = q[o] \o [k \in 1..n |-> cb]

\* What is in the queues then.
Arrived(q, r, o, n, cb) ==
  /\ \A g \in Files : \A j \in DOMAIN r[g] : (\E i \in DOMAIN q[g] : r[g][j] = q[g][i]) \/ (g = o /\ r[g][j] = cb)
  /\ \A other : /\ Cardinality(Places(q, other)) \in Nat
                /\ Cardinality(Places(r, other)) = Cardinality(Places(q, other)) + IF other = cb THEN n ELSE 0

LEMMA PostFacts ==
  ASSUME NEW X, NEW q \in [Files -> Seq(X)], NEW M \in SUBSET Files, IsFiniteSet(M), NEW o \in M,
         \A g \in Files \ M : q[g] = <<>>, NEW cb \in X, NEW n \in Nat, NEW r, Posted(q, r, o, n, cb)
  PROVE  r \in [Files -> Seq(X)] /\ Arrived(q, r, o, n, cb)
<1> DEFINE s == q[o]
           new == [k \in 1..n |-> cb]
           t == s \o new
<1>1. s \in Seq(X) /\ o \in Files
  OBVIOUS
<1>2. new \in Seq(X) /\ Len(new) = n /\ \A k \in 1..n : new[k] = cb
  <2>1. new \in [1..n -> X]
    OBVIOUS
  <2> QED BY <2>1
<1>3. r[o] = t /\ \A g \in Files \ {o} : r[g] = q[g]
  BY DEF Posted, Elsewhere
<1>4. CountIn(new, cb) = n
  BY CountCopies
<1>5. ASSUME NEW other, other # cb
      PROVE  CountIn(new, other) = 0
  <2>1. \A k \in DOMAIN new : new[k] # other
    BY <1>5
  <2> HIDE DEF new
  <2> QED BY <2>1, CountNone
<1> HIDE DEF s, new
<1>6. ASSUME NEW other
      PROVE  t \in Seq(X) /\ CountIn(t, other) = CountIn(s, other) + CountIn(new, other)
  BY <1>1, <1>2, CountConcat
<1>7. t \in Seq(X)
  BY <1>6
<1>8. ASSUME NEW j \in DOMAIN t
      PROVE  (\E i \in DOMAIN s : t[j] = s[i]) \/ t[j] = cb
  <2>1. /\ Len(t) = Len(s) + n /\ Len(s) \in Nat /\ DOMAIN t = 1..Len(t) /\ DOMAIN s = 1..Len(s)
        /\ \A i \in 1..Len(s) : t[i] = s[i]
        /\ \A i \in 1..n : t[Len(s) + i] = new[i]
    <3>1. /\ t \in Seq(X) /\ Len(s) \in Nat
          /\ Len(t) = Len(s) + Len(new) /\ DOMAIN t = 1..(Len(s) + Len(new))
          /\ \A i \in 1..Len(s) : t[i] = s[i]
          /\ \A i \in 1..Len(new) : t[Len(s) + i] = new[i]
      <4>1. new \in Seq(X)
        BY <1>2
      <4> QED BY <1>1, <4>1, ConcatFacts
    <3> HIDE DEF t
    <3> QED BY <1>1, <1>2, <3>1
  <2> HIDE DEF t
  <2>2. CASE j <= Len(s)
    <3>1. j \in DOMAIN s /\ t[j] = s[j]
      BY <2>1, <2>2
    <3> QED BY <3>1
  <2>3. CASE ~(j <= Len(s))
    <3>1. j - Len(s) \in 1..n /\ j = Len(s) + (j - Len(s))
      BY <2>1, <2>3
    <3>2. t[Len(s) + (j - Len(s))] = new[j - Len(s)]
      BY <2>1, <3>1
    <3>3. new[j - Len(s)] = cb
      BY <1>2, <3>1
    <3> QED BY <3>1, <3>2, <3>3
  <2> QED BY <2>2, <2>3
<1> HIDE DEF t
<1>9. r \in [Files -> Seq(X)]
  <2>1. \A g \in Files : r[g] \in Seq(X)
    BY <1>3, <1>7
  <2> QED BY <2>1 DEF Posted
<1>10. ASSUME NEW g \in Files, NEW j \in DOMAIN r[g]
       PROVE  (\E i \in DOMAIN q[g] : r[g][j] = q[g][i]) \/ (g = o /\ r[g][j] = cb)
  <2>1. CASE g = o
    BY <1>3, <1>8, <2>1 DEF s
  <2>2. CASE g # o
    BY <1>3, <2>2
  <2> QED BY <2>1, <2>2
<1>11. ASSUME NEW other
       PROVE  /\ Cardinality(Places(q, other)) \in Nat
              /\ Cardinality(Places(r, other)) = Cardinality(Places(q, other)) + IF other = cb THEN n ELSE 0
  <2>1. IsFiniteSet(Places(q, other))
    BY PlacesFinite
  <2>2. \A g \in Files \ M : r[g] = <<>>
    BY <1>3
  <2>3. IsFiniteSet(Places(r, other))
    BY <1>9, <2>2, PlacesFinite
  <2>4. Elsewhere(q, r, o)
    BY DEF Posted
  <2>5. Moved(q, r, o, other)
    BY <1>1, <1>9, <2>1, <2>3, <2>4, PlacesChange
  <2> DEFINE x == Cardinality(Places(q, other))
             y == Cardinality(Places(r, other))
             a == CountIn(s, other)
             b == CountIn(new, other)
  <2>6. x \in Nat /\ y \in Nat /\ a \in Nat /\ y = x - a + CountIn(t, other)
    BY <1>3, <2>5 DEF Moved, s
  <2>7. CountIn(t, other) = a + b
    BY <1>6
  <2>8. b = IF other = cb THEN n ELSE 0
    BY <1>4, <1>5
  <2> HIDE DEF x, y, a, b
  <2>9. b \in Nat
    BY <2>8
  <2>10. y = x + b
    BY <2>6, <2>7, <2>9
  <2> QED BY <2>6, <2>8, <2>10 DEF x, y
<1> QED BY <1>9, <1>10, <1>11 DEF Arrived

LEMMA BatchFrame ==
  ASSUME WorldInv, CountInv, OnlyBatches, UNCHANGED quotas, UNCHANGED inbox
  PROVE  CountInv'
<1>1. UNCHANGED <<refs, members, id>> /\ UNCHANGED <<callbacks, reactorVars, quotas, entries>>
  BY DEF OnlyBatches, device, process, callbacks
<1> QED BY <1>1, EntriesCount DEF Grows

LEMMA QuotaMore ==
  ASSUME NEW q, NEW n \in Nat, NEW k \in Nat, QuotaOk(q, n), q.count + k <= q.peak, NEW new, new = [q EXCEPT !.count = @ + k]
  PROVE  QuotaOk(new, n + k)
<1>1. q \in QuotaRecord /\ q.limit <= q.peak /\ q.count <= q.peak /\ q.count = n
  BY DEF QuotaOk
<1>2. q.count \in Nat /\ q.limit \in Nat /\ q.peak \in Nat /\ q.count + k \in Nat
  BY <1>1 DEF QuotaRecord
<1>3. new.count = q.count + k /\ new.limit = q.limit /\ new.peak = q.peak
  BY <1>1 DEF QuotaRecord
<1>4. new \in QuotaRecord
  BY <1>1, <1>2 DEF QuotaRecord
<1> QED BY <1>1, <1>2, <1>3, <1>4 DEF QuotaOk

\* The messages of a batch are counted by the quota of its sender, and are
\* sent to the owner of the call.
LEMMA ExecuteCount ==
  ASSUME QuotaAssumption, WorldInv, TablesInv, CountInv, NEW f \in Files, NEW c \in 1..MaxEntries, Exists("call", c),
         NEW done \in 0..BatchSize, NEW before, ExecuteLoop(f, c, done, before), OnlyBatches
  PROVE  CountInv'
<1>3. PICK i \in Nat : i = id[f]
  BY DEF WorldInv
<1>1. CASE i \notin DOMAIN quotas[c]
  <2>1. UNCHANGED quotas /\ UNCHANGED inbox
    BY <1>1, <1>3 DEF ExecuteLoop
  <2> QED BY <2>1, BatchFrame
<1>2. CASE i \in DOMAIN quotas[c]
  <2>4. c \in Nat /\ c \in DOMAIN entry["call"]
    BY ExistsIsEntry
  <2>5. PICK o \in members : o = Owner(c) /\ c \in OwnedBy(o) /\ o \in Files
    <3>1. \E g \in members : c \in OwnedBy(g)
      BY <2>4 DEF CountInv, OwnerInv
    <3> QED BY <3>1, MembersFinite DEF Owner
  <2>3. PICK k \in Nat : k = Room(c, i, Cardinality(NotDone(done))) /\ quotas[c][i].count + k <= quotas[c][i].peak
    <3> DEFINE left == Cardinality(NotDone(done))
    <3>1. left \in Nat
      BY LeftToDo
    <3>2. QuotaInv
      BY DEF CountInv
    <3> HIDE DEF left
    <3>3. Room(c, i, left) \in 0..left /\ (i \in DOMAIN quotas[c] => quotas[c][i].count + Room(c, i, left) <= quotas[c][i].peak)
      BY <3>1, <3>2, RoomFacts
    <3>4. Room(c, i, left) \in Nat /\ quotas[c][i].count + Room(c, i, left) <= quotas[c][i].peak
      BY <1>2, <3>1, <3>3
    <3> QED BY <3>4 DEF left
  <2> DEFINE cb == QuotaCallback(c, i)
             q == quotas[c][i]
             new == [q EXCEPT !.count = @ + k]
  <2>1. /\ quotas' = [quotas EXCEPT ![c] = [quotas[c] EXCEPT ![i] = new]]
        /\ inbox' = [inbox EXCEPT ![o] = @ \o [j \in 1..k |-> cb]]
    BY <1>2, <1>3, <2>3, <2>5 DEF ExecuteLoop
  <2>2. UNCHANGED prev /\ UNCHANGED dispatches /\ UNCHANGED reactor /\ UNCHANGED <<refs, members, id, ids, entry>>
    BY DEF OnlyBatches, device, process, entries, reactorVars
  <2>6. /\ inbox \in [Files -> Seq(AnyCallback)] /\ IsFiniteSet(members) /\ members \in SUBSET Files
        /\ \A g \in Files \ members : inbox[g] = <<>>
    BY MembersFinite DEF CountInv, QueueInv
  <2>7. cb \in AnyCallback
    BY <2>4, CallbackFacts
  <2>8. Posted(inbox, inbox', o, k, cb)
    BY <2>1, <2>5, <2>6 DEF Posted, Elsewhere
  <2> HIDE DEF cb, q, new
  <2>9. /\ inbox' \in [Files -> Seq(AnyCallback)]
        /\ \A g \in Files : \A j \in DOMAIN inbox'[g] : (\E m \in DOMAIN inbox[g] : inbox'[g][j] = inbox[g][m]) \/ (g = o /\ inbox'[g][j] = cb)
        /\ \A other : /\ Cardinality(Places(inbox, other)) \in Nat
                      /\ Cardinality(Places(inbox', other)) = Cardinality(Places(inbox, other)) + IF other = cb THEN k ELSE 0
    <3>1. o \in members /\ k \in Nat
      BY <2>3, <2>5
    <3>2. inbox' \in [Files -> Seq(AnyCallback)] /\ Arrived(inbox, inbox', o, k, cb)
      BY <2>6, <2>7, <2>8, <3>1, PostFacts
    <3> QED BY <3>2 DEF Arrived
  <2>10. ASSUME NEW other, other # cb
         PROVE  Outstanding(other)' = Outstanding(other)
    BY <2>2, <2>9, <2>10 DEF Outstanding
  <2>11. Outstanding(cb) \in Nat /\ Outstanding(cb)' = Outstanding(cb) + k
    <3> DEFINE x == Cardinality(Places(inbox, cb))
               y == Cardinality(Places(prev, cb))
               z == Cardinality(Places(inbox', cb))
    <3>1. z = x + k
      BY <2>9
    <3>2. x \in Nat /\ y \in Nat
      BY OutstandingType DEF CountInv
    <3>3. Outstanding(cb) = x + y /\ Outstanding(cb)' = z + y
      BY <2>2 DEF Outstanding
    <3> HIDE DEF x, y, z
    <3>4. z + y = (x + y) + k /\ x + y \in Nat
      BY <2>3, <3>1, <3>2
    <3> QED BY <3>3, <3>4
  <2>12. /\ DOMAIN quotas' = 1..MaxEntries /\ DOMAIN quotas'[c] = DOMAIN quotas[c] /\ quotas'[c][i] = new
         /\ quotas'[c] = [j \in DOMAIN quotas[c] |-> quotas'[c][j]]
         /\ \A j \in DOMAIN quotas[c] \ {i} : quotas'[c][j] = quotas[c][j]
         /\ \A b \in 1..MaxEntries \ {c} : quotas'[b] = quotas[b]
    <3>1. DOMAIN quotas = 1..MaxEntries
      BY DEF CountInv, QuotaInv
    <3> QED BY <1>2, <2>1, <3>1
  <2>13. QuotaOk(new, Outstanding(cb) + k)
    <3> DEFINE n == Outstanding(cb)
    <3>1. QuotaOk(q, n)
      BY <1>2 DEF CountInv, QuotaInv, q, cb
    <3>2. n \in Nat /\ new = [q EXCEPT !.count = @ + k]
      BY <2>11 DEF new
    <3> HIDE DEF n
    <3>3. QuotaOk(new, n + k)
      BY <2>3, <3>1, <3>2, QuotaMore DEF q
    <3> QED BY <3>3 DEF n
  <2>14. QuotaInv'
    <3>1. ASSUME NEW b \in 1..MaxEntries, NEW j \in DOMAIN quotas'[b]
          PROVE  QuotaOk(quotas'[b][j], Outstanding(QuotaCallback(b, j))')
      <4>1. CASE b = c /\ j = i
        <5>1. QuotaCallback(b, j) = cb /\ quotas'[b][j] = new
          BY <2>12, <4>1 DEF cb
        <5> QED BY <2>11, <2>13, <5>1
      <4>2. CASE ~(b = c /\ j = i)
        <5>1. QuotaCallback(b, j) # cb
          BY <4>2, CallbacksDiffer DEF cb
        <5>2. j \in DOMAIN quotas[b] /\ quotas'[b][j] = quotas[b][j]
          BY <2>12, <4>2
        <5>3. QuotaOk(quotas[b][j], Outstanding(QuotaCallback(b, j)))
          BY <5>2 DEF CountInv, QuotaInv
        <5> QED BY <2>10, <5>1, <5>2, <5>3
      <4> QED BY <4>1, <4>2
    <3>2. ASSUME NEW b \in 1..MaxEntries
          PROVE  quotas'[b] = [j \in DOMAIN quotas'[b] |-> quotas'[b][j]] /\ DOMAIN quotas'[b] \subseteq Nat
      <4>1. DOMAIN quotas'[b] = DOMAIN quotas[b]
        BY <2>12
      <4>2. DOMAIN quotas[b] \subseteq Nat /\ quotas[b] = [j \in DOMAIN quotas[b] |-> quotas[b][j]]
        BY DEF CountInv, QuotaInv
      <4> QED BY <2>12, <4>1, <4>2
    <3>3. \A b \in 1..MaxEntries : \A j \in DOMAIN quotas'[b] : QuotaOk(quotas[b][j], Outstanding(QuotaCallback(b, j)))'
      BY <3>1 DEF QuotaOk
    <3> QED BY <2>12, <3>2, <3>3 DEF QuotaInv
  <2>15. DispatchInv'
    <3>1. ASSUME NEW d \in DOMAIN dispatches
          PROVE  Counted(dispatches[d], Outstanding(DispatchCallback(d))', Reactors)
      <4>1. DispatchCallback(d) # cb
        BY CallbacksDiffer DEF cb
      <4> QED BY <2>10, <4>1 DEF CountInv, DispatchInv
    <3>2. \A d \in DOMAIN dispatches' : Counted(dispatches[d], Outstanding(DispatchCallback(d)), Reactors)'
      BY <2>2, <3>1 DEF Counted, Reactors
    <3>3. (\E X : dispatches' \in Seq(X)) /\ (refs' = 0 => dispatches' = <<>>)
      BY <2>2 DEF CountInv, DispatchInv
    <3>4. \A d \in DOMAIN dispatches' : dispatches'[d].reactor \in 1..ids'["reactor"]
      BY <2>2 DEF CountInv, DispatchInv
    <3> QED BY <3>2, <3>3, <3>4 DEF DispatchInv
  <2>16. \A g : OwnedBy(g)' = OwnedBy(g)
    BY <2>2 DEF OwnedBy
  <2>17. QueueInv'
    <3>1. ASSUME NEW g \in Files, NEW s, Queued(s, g)
          PROVE  \A j \in DOMAIN s :
                   \/ s[j] = NoCallback
                   \/ \E d \in DOMAIN dispatches' : s[j] = DispatchCallback(d)
                   \/ \E b \in OwnedBy(g)' : \E m \in DOMAIN quotas'[b] : s[j] = QuotaCallback(b, m)
      <4>1. \A b \in OwnedBy(g) : DOMAIN quotas[b] \subseteq DOMAIN quotas'[b]
        BY <2>12 DEF CountInv, OwnerInv, OwnedBy
      <4> QED BY <2>2, <2>16, <3>1, <4>1, QueuedKept
    <3>2. ASSUME NEW g \in Files
          PROVE  Queued(inbox[g], g)'
      <4> DEFINE s == inbox[g]
      <4>1. Queued(s, g)
        BY DEF CountInv, QueueInv
      <4>2. \A j \in DOMAIN inbox'[g] : (\E m \in DOMAIN s : inbox'[g][j] = s[m]) \/ (g = o /\ inbox'[g][j] = cb)
        BY <2>9
      <4> HIDE DEF s
      <4>3. \A j \in DOMAIN s :
              \/ s[j] = NoCallback
              \/ \E d \in DOMAIN dispatches' : s[j] = DispatchCallback(d)
              \/ \E b \in OwnedBy(g)' : \E m \in DOMAIN quotas'[b] : s[j] = QuotaCallback(b, m)
        BY <3>1, <4>1
      <4>4. c \in OwnedBy(o)' /\ i \in DOMAIN quotas'[c]
        BY <1>2, <2>5, <2>12, <2>16
      <4>5. \A j \in DOMAIN inbox'[g] :
              \/ inbox'[g][j] = NoCallback
              \/ \E d \in DOMAIN dispatches' : inbox'[g][j] = DispatchCallback(d)
              \/ \E b \in OwnedBy(g)' : \E m \in DOMAIN quotas'[b] : inbox'[g][j] = QuotaCallback(b, m)
        BY <4>2, <4>3, <4>4 DEF cb
      <4> QED BY <4>5 DEF Queued
    <3>3. ASSUME NEW g \in Files
          PROVE  Queued(prev[g], g)'
      <4>1. prev'[g] = prev[g] /\ Queued(prev[g], g)
        BY <2>2 DEF CountInv, QueueInv
      <4> QED BY <3>1, <4>1 DEF Queued
    <3>4. \A g \in Files \ members' : inbox'[g] = <<>> /\ prev'[g] = <<>>
      BY <2>2, <2>5, <2>8 DEF CountInv, QueueInv, Posted, Elsewhere
    <3>5. prev' \in [Files -> Seq(AnyCallback)]
      BY <2>2 DEF CountInv, QueueInv
    <3> QED BY <2>9, <3>2, <3>3, <3>4, <3>5 DEF QueueInv
  <2>18. NodesInv'
    BY <2>2 DEF CountInv, NodesInv, MemberIds
  <2>19. OwnerInv'
    BY <2>2, <2>16 DEF CountInv, OwnerInv
  <2> QED BY <2>14, <2>15, <2>17, <2>18, <2>19 DEF CountInv
<1> QED BY <1>1, <1>2

-----------------------------------------------------------------------------
(* The end of a fusionee, and of the world *)

LEMMA LastOne ==
  ASSUME WorldInv, NEW f \in Files, pc[f] # "closed"
  PROVE  refs \in Nat \ {0} /\ (refs = 1 => members \subseteq {f})
<1>1. f \in OpenFiles /\ IsFiniteSet(OpenFiles) /\ refs = Cardinality(OpenFiles) /\ members \subseteq OpenFiles
  BY DEF OpenFiles, WorldInv
<1>2. refs \in Nat /\ refs # 0
  BY <1>1, FS_CardinalityType, FS_EmptySet
<1>3. ASSUME refs = 1
      PROVE  members \subseteq {f}
  <2>1. \E x : OpenFiles = {x}
    BY <1>1, <1>3, FS_Singleton
  <2> QED BY <1>1, <2>1
<1> QED BY <1>2, <1>3

\* Nothing is left at the end of a world.
LEMMA EndCount ==
  ASSUME CountInv, EndOfWorld, members' = {}, inbox' = [g \in Files |-> <<>>], prev' = [g \in Files |-> <<>>]
  PROVE  CountInv'
<1>1. /\ DestroyEntries(AllEntries) /\ FreeQuotas(DOMAIN quotas)
      /\ reactor' = FreeReactors(DOMAIN reactor) /\ dispatches' = <<>>
  BY DEF EndOfWorld
<1>2. /\ DOMAIN quotas' = 1..MaxEntries /\ \A c \in 1..MaxEntries : quotas'[c] = <<>>
  BY <1>1 DEF FreeQuotas, CountInv, QuotaInv
<1>3. DOMAIN reactor' = 1..MaxEntries /\ \A r \in 1..MaxEntries : reactor'[r] = NewReactor
  BY <1>1 DEF FreeReactors, CountInv, NodesInv
<1>4. DOMAIN entry'["call"] = {}
  <2>1. entry' = [k \in Kinds |-> [j \in DOMAIN entry[k] \ AllEntries[k] |-> entry[k][j]]]
    BY <1>1 DEF DestroyEntries
  <2>2. AllEntries["call"] = DOMAIN entry["call"]
    BY DEF AllEntries
  <2> QED BY <2>1, <2>2
<1>5. DOMAIN <<>> = {} /\ <<>> \in Seq(AnyCallback) /\ <<>> = [i \in DOMAIN <<>> |-> <<>>[i]]
  OBVIOUS
<1>6. QueueInv'
  <2>1. \A g \in Files : inbox'[g] = <<>> /\ prev'[g] = <<>>
    OBVIOUS
  <2>2. inbox' \in [Files -> Seq(AnyCallback)] /\ prev' \in [Files -> Seq(AnyCallback)]
    BY <1>5
  <2>3. ASSUME NEW g \in Files
        PROVE  Queued(inbox[g], g)' /\ Queued(prev[g], g)'
    BY <1>5, <2>1 DEF Queued
  <2> QED BY <2>1, <2>2, <2>3 DEF QueueInv
<1>7. NodesInv'
  <2>1. "nodes" \in DOMAIN NewReactor /\ NewReactor.nodes = <<>>
    BY DEF NewReactor
  <2> QED BY <1>3, <1>5, <2>1 DEF NodesInv
<1>8. OwnerInv'
  BY <1>4 DEF OwnerInv
<1>9. DispatchInv'
  <2>1. DOMAIN dispatches' = {} /\ \E X : dispatches' \in Seq(X)
    BY <1>1, <1>5
  <2> QED BY <1>1, <2>1 DEF DispatchInv
<1>10. QuotaInv'
  <2>1. \A c \in 1..MaxEntries : DOMAIN quotas'[c] = {}
    BY <1>2, <1>5
  <2> QED BY <1>2, <1>5, <2>1 DEF QuotaInv
<1> QED BY <1>6, <1>7, <1>8, <1>9, <1>10 DEF CountInv

\* A fusionee goes, and others stay.
Leaves(f) ==
  /\ members' = members \ {f} /\ (\A g \in Files \ {f} : id'[g] = id[g]) /\ id'[f] \in {id[f], 0}
  /\ UNCHANGED ids /\ refs' # 0
  /\ inbox' = [inbox EXCEPT ![f] = <<>>] /\ prev' = [prev EXCEPT ![f] = <<>>]

\* The calls of the others are theirs.
LEMMA LeaveOwners ==
  ASSUME WorldInv, TablesInv, CountInv, NEW f \in Files, Leaves(f),
         DOMAIN entry'["call"] = DOMAIN entry["call"] \ OwnedBy(f),
         \A c \in DOMAIN entry["call"] \ OwnedBy(f) : entry'["call"][c] = entry["call"][c]
  PROVE  OwnerInv' /\ \A g \in Files \ {f} : OwnedBy(g)' = OwnedBy(g)
<1>1. ASSUME NEW g \in Files \ {f}, NEW c
      PROVE  c \in OwnedBy(g)' <=> c \in OwnedBy(g)
  <2>1. id'[g] = id[g]
    BY DEF Leaves
  <2>2. c \in OwnedBy(g) => c \notin OwnedBy(f)
    BY OneOwner
  <2> QED BY <2>1, <2>2 DEF OwnedBy
<1>2. ASSUME NEW c \in DOMAIN entry'["call"]
      PROVE  c \in 1..MaxEntries /\ \E g \in members' : c \in OwnedBy(g)'
  <2>1. c \in DOMAIN entry["call"] /\ c \notin OwnedBy(f)
    OBVIOUS
  <2>2. PICK g \in members : c \in 1..MaxEntries /\ c \in OwnedBy(g)
    BY <2>1 DEF CountInv, OwnerInv
  <2>3. g \in Files \ {f} /\ g \in members'
    BY <2>1, <2>2, MembersFinite DEF Leaves
  <2> QED BY <1>1, <2>2, <2>3
<1> QED BY <1>1, <1>2 DEF OwnerInv

\* The messages that f had are processed with it.
LEMMA LeavePlaces ==
  ASSUME WorldInv, QueueInv, NEW f \in Files, Leaves(f), NEW cb
  PROVE  Less(prev[f] \o inbox[f], cb)
<1>1. /\ inbox \in [Files -> Seq(AnyCallback)] /\ prev \in [Files -> Seq(AnyCallback)]
      /\ IsFiniteSet(members) /\ members \in SUBSET Files /\ \A g \in Files \ members : inbox[g] = <<>> /\ prev[g] = <<>>
  BY MembersFinite DEF QueueInv
<1>2. <<>> \in Seq(AnyCallback)
  OBVIOUS
<1>3. /\ inbox' \in [Files -> Seq(AnyCallback)] /\ inbox'[f] = <<>> /\ Elsewhere(inbox, inbox', f)
      /\ prev' \in [Files -> Seq(AnyCallback)] /\ prev'[f] = <<>> /\ Elsewhere(prev, prev', f)
  BY <1>1, <1>2 DEF Leaves, Elsewhere
<1>4. (\A g \in Files \ members : inbox'[g] = <<>>) /\ (\A g \in Files \ members : prev'[g] = <<>>)
  BY <1>1, <1>3 DEF Elsewhere
<1>5. CountIn(<<>>, cb) = 0
  BY CountNone
<1> DEFINE i0 == Cardinality(Places(inbox, cb))
           i1 == Cardinality(Places(inbox', cb))
           p0 == Cardinality(Places(prev, cb))
           p1 == Cardinality(Places(prev', cb))
           x == CountIn(inbox[f], cb)
           y == CountIn(prev[f], cb)
<1>6. IsFiniteSet(Places(inbox, cb)) /\ IsFiniteSet(Places(prev, cb))
  BY OutstandingType
<1>7. IsFiniteSet(Places(inbox', cb))
  BY <1>1, <1>3, <1>4, PlacesFinite
<1>8. IsFiniteSet(Places(prev', cb))
  BY <1>1, <1>3, <1>4, PlacesFinite
<1>9. i0 \in Nat /\ i1 \in Nat /\ x \in Nat /\ x <= i0 /\ i1 = i0 - x
  <2>1. Moved(inbox, inbox', f, cb)
    BY <1>1, <1>3, <1>6, <1>7, PlacesChange
  <2> QED BY <1>3, <1>5, <2>1 DEF Moved
<1>10. p0 \in Nat /\ p1 \in Nat /\ y \in Nat /\ y <= p0 /\ p1 = p0 - y
  <2>1. Moved(prev, prev', f, cb)
    BY <1>1, <1>3, <1>6, <1>8, PlacesChange
  <2> QED BY <1>3, <1>5, <2>1 DEF Moved
<1>11. CountIn(prev[f] \o inbox[f], cb) = y + x
  <2>1. prev[f] \in Seq(AnyCallback) /\ inbox[f] \in Seq(AnyCallback)
    BY <1>1
  <2> QED BY <2>1, CountConcat
<1>12. Outstanding(cb) = i0 + p0 /\ Outstanding(cb)' = i1 + p1
  BY DEF Outstanding
<1> HIDE DEF i0, i1, p0, p1, x, y
<1>13. i1 + p1 = (i0 + p0) - (y + x) /\ i0 + p0 \in Nat /\ y + x \in 0..(i0 + p0)
  BY <1>9, <1>10
<1> QED BY <1>11, <1>12, <1>13 DEF Less

LEMMA LeaveCount ==
  ASSUME WorldInv, TablesInv, CountInv, NEW f \in Files, Leaves(f),
         DestroyEntries([k \in Kinds |-> IF k = "call" THEN OwnedBy(f) ELSE LeftEmpty(id[f])]),
         FreeQuotas(OwnedBy(f)), DetachAll(id[f]),
         RunDispatchCallbacks(prev[f] \o inbox[f], Reactors \ LeftEmpty(id[f]))
  PROVE  CountInv'
<1>1. /\ DOMAIN entry'["call"] = DOMAIN entry["call"] \ OwnedBy(f)
      /\ DOMAIN entry'["reactor"] = DOMAIN entry["reactor"] \ LeftEmpty(id[f])
      /\ \A c \in DOMAIN entry["call"] \ OwnedBy(f) : entry'["call"][c] = entry["call"][c]
  <2> DEFINE gone == [k \in Kinds |-> IF k = "call" THEN OwnedBy(f) ELSE LeftEmpty(id[f])]
  <2>1. gone["call"] = OwnedBy(f) /\ gone["reactor"] = LeftEmpty(id[f])
    OBVIOUS
  <2>2. entry' = [k \in Kinds |-> [j \in DOMAIN entry[k] \ gone[k] |-> entry[k][j]]]
    BY DEF DestroyEntries
  <2> HIDE DEF gone
  <2> QED BY <2>1, <2>2
<1>2. OwnerInv' /\ \A g \in Files \ {f} : OwnedBy(g)' = OwnedBy(g)
  BY <1>1, LeaveOwners
<1>3. QueueInv /\ DispatchInv /\ QuotaInv /\ OwnerInv /\ NodesInv
  BY DEF CountInv
<1>4. \A cb : Less(prev[f] \o inbox[f], cb)
  BY <1>3, LeavePlaces
<1>5. DispatchInv' /\ DOMAIN dispatches' = DOMAIN dispatches
  <2> DEFINE s == prev[f] \o inbox[f]
             listed == Reactors \ LeftEmpty(id[f])
  <2>1. Reactors' = listed /\ listed \subseteq Reactors
    BY <1>1 DEF Reactors
  <2>2. ids'["reactor"] = ids["reactor"] /\ refs' # 0
    BY DEF Leaves
  <2>3. RunDispatchCallbacks(s, listed) /\ \A d \in DOMAIN dispatches : Less(s, DispatchCallback(d))
    BY <1>4
  <2> HIDE DEF s, listed
  <2> QED BY <1>3, <2>1, <2>2, <2>3, DispatchRun
<1>6. /\ DOMAIN quotas' = 1..MaxEntries
      /\ \A c \in 1..MaxEntries : quotas'[c] = IF c \in OwnedBy(f) THEN <<>> ELSE quotas[c]
  BY <1>3 DEF FreeQuotas, QuotaInv
<1>7. ASSUME NEW c, c \notin OwnedBy(f), NEW i
      PROVE  Outstanding(QuotaCallback(c, i))' = Outstanding(QuotaCallback(c, i))
  <2> DEFINE s == prev[f] \o inbox[f]
             cb == QuotaCallback(c, i)
  <2>1. ASSUME NEW t, Queued(t, f), NEW j \in DOMAIN t
        PROVE  t[j] # cb
    BY <1>7, <2>1, CallbacksDiffer DEF Queued
  <2>2. (\A j \in DOMAIN prev[f] : prev[f][j] # cb) /\ (\A j \in DOMAIN inbox[f] : inbox[f][j] # cb)
    BY <1>3, <2>1 DEF QueueInv
  <2> HIDE DEF cb
  <2>3. CountIn(prev[f], cb) = 0 /\ CountIn(inbox[f], cb) = 0
    BY <2>2, CountNone
  <2>4. CountIn(s, cb) = CountIn(prev[f], cb) + CountIn(inbox[f], cb)
    <3>1. prev[f] \in Seq(AnyCallback) /\ inbox[f] \in Seq(AnyCallback)
      BY <1>3 DEF QueueInv
    <3> QED BY <3>1, CountConcat
  <2>5. CountIn(s, cb) = 0 /\ Less(s, cb)
    BY <1>4, <2>3, <2>4
  <2> HIDE DEF s
  <2>6. Outstanding(cb)' = Outstanding(cb)
    BY <2>5 DEF Less
  <2> QED BY <2>6 DEF cb
<1>8. QuotaInv'
  <2>1. DOMAIN <<>> = {} /\ <<>> = [i \in DOMAIN <<>> |-> <<>>[i]]
    OBVIOUS
  <2>2. ASSUME NEW c \in 1..MaxEntries, NEW i \in DOMAIN quotas'[c]
        PROVE  QuotaOk(quotas'[c][i], Outstanding(QuotaCallback(c, i))')
    <3>1. c \notin OwnedBy(f)
      BY <1>6, <2>1
    <3>2. quotas'[c] = quotas[c]
      BY <1>6, <3>1
    <3>3. QuotaOk(quotas[c][i], Outstanding(QuotaCallback(c, i)))
      BY <1>3, <3>2 DEF QuotaInv
    <3> QED BY <1>7, <3>1, <3>2, <3>3
  <2>3. ASSUME NEW c \in 1..MaxEntries
        PROVE  quotas'[c] = [i \in DOMAIN quotas'[c] |-> quotas'[c][i]] /\ DOMAIN quotas'[c] \subseteq Nat
    <3>1. CASE c \in OwnedBy(f)
      BY <1>6, <2>1, <3>1
    <3>2. CASE c \notin OwnedBy(f)
      BY <1>3, <1>6, <3>2 DEF QuotaInv
    <3> QED BY <3>1, <3>2
  <2>4. \A c \in 1..MaxEntries : \A i \in DOMAIN quotas'[c] : QuotaOk(quotas[c][i], Outstanding(QuotaCallback(c, i)))'
    BY <2>2 DEF QuotaOk
  <2> QED BY <1>6, <2>3, <2>4 DEF QuotaInv
<1>9. QueueInv'
  <2>1. inbox \in [Files -> Seq(AnyCallback)] /\ prev \in [Files -> Seq(AnyCallback)] /\ <<>> \in Seq(AnyCallback) /\ DOMAIN <<>> = {}
    BY <1>3 DEF QueueInv
  <2>2. /\ inbox' \in [Files -> Seq(AnyCallback)] /\ prev' \in [Files -> Seq(AnyCallback)]
        /\ inbox'[f] = <<>> /\ prev'[f] = <<>> /\ \A g \in Files \ {f} : inbox'[g] = inbox[g] /\ prev'[g] = prev[g]
    BY <2>1 DEF Leaves
  <2>3. \A g \in Files \ members' : inbox'[g] = <<>> /\ prev'[g] = <<>>
    BY <1>3, <2>2 DEF QueueInv, Leaves
  <2>4. ASSUME NEW g \in Files \ {f}, NEW s, Queued(s, g)
        PROVE  \A j \in DOMAIN s :
                 \/ s[j] = NoCallback
                 \/ \E d \in DOMAIN dispatches' : s[j] = DispatchCallback(d)
                 \/ \E c \in OwnedBy(g)' : \E i \in DOMAIN quotas'[c] : s[j] = QuotaCallback(c, i)
    <3>1. OwnedBy(g)' = OwnedBy(g)
      BY <1>2
    <3>2. ASSUME NEW c \in OwnedBy(g)
          PROVE  quotas'[c] = quotas[c]
      <4>1. c \notin OwnedBy(f)
        BY OneOwner
      <4>2. c \in 1..MaxEntries
        BY <1>3 DEF OwnerInv, OwnedBy
      <4> QED BY <1>6, <4>1, <4>2
    <3> QED BY <1>5, <2>4, <3>1, <3>2, QueuedKept
  <2>5. ASSUME NEW g \in Files
        PROVE  Queued(inbox[g], g)' /\ Queued(prev[g], g)'
    <3>1. CASE g = f
      BY <2>1, <2>2, <3>1 DEF Queued
    <3>2. CASE g # f
      <4>1. Queued(inbox[g], g) /\ Queued(prev[g], g) /\ g \in Files \ {f}
        BY <1>3, <3>2 DEF QueueInv
      <4>2. inbox'[g] = inbox[g] /\ prev'[g] = prev[g]
        BY <2>2, <4>1
      <4>3. Queued(inbox[g], g)'
        BY <2>4, <4>1, <4>2 DEF Queued
      <4>4. Queued(prev[g], g)'
        BY <2>4, <4>1, <4>2 DEF Queued
      <4> QED BY <4>3, <4>4
    <3> QED BY <3>1, <3>2
  <2> QED BY <2>2, <2>3, <2>5 DEF QueueInv
<1>10. NodesInv'
  <2>1. DOMAIN reactor' = 1..MaxEntries
    BY <1>3 DEF DetachAll, NodesInv
  <2>2. ASSUME NEW i \in MemberIds, i # id[f]
        PROVE  i \in MemberIds'
    <3>1. PICK g \in members : i = id[g] /\ i # 0
      BY DEF MemberIds
    <3>2. g # f /\ g \in members' /\ id'[g] = i
      BY <2>2, <3>1, MembersFinite DEF Leaves
    <3> QED BY <3>1, <3>2 DEF MemberIds
  <2>3. ASSUME NEW r \in 1..MaxEntries
        PROVE  "nodes" \in DOMAIN reactor'[r] /\ DOMAIN reactor'[r].nodes \subseteq MemberIds'
    <3> DEFINE i == id[f]
               old == reactor[r]
               new == [old EXCEPT !.nodes = Without(@, i)]
    <3>1. reactor'[r] = NewReactor \/ reactor'[r] = new
      BY <1>3 DEF DetachAll, NodesInv
    <3>2. "nodes" \in DOMAIN old /\ DOMAIN old.nodes \subseteq MemberIds
      BY <1>3 DEF NodesInv
    <3>3. "nodes" \in DOMAIN new /\ new.nodes = Without(old.nodes, i)
      BY <3>2
    <3>4. DOMAIN Without(old.nodes, i) \subseteq MemberIds'
      BY <2>2, <3>2 DEF Without
    <3>5. "nodes" \in DOMAIN NewReactor /\ DOMAIN NewReactor.nodes = {}
      BY DEF NewReactor
    <3> HIDE DEF new
    <3> QED BY <3>1, <3>3, <3>4, <3>5
  <2> QED BY <2>1, <2>3 DEF NodesInv
<1> QED BY <1>2, <1>5, <1>8, <1>9, <1>10 DEF CountInv

LEMMA ReleaseCount ==
  ASSUME WorldInv, TablesInv, CountInv, NEW f \in Files, ReleaseAll(f)
  PROVE  CountInv'
<1>1. /\ pc[f] = "user" /\ members' = members \ {f}
      /\ (refs' = refs /\ id' = id /\ pc' = [pc EXCEPT ![f] = "release"])
         \/ (refs' = refs - 1 /\ id' = [id EXCEPT ![f] = 0] /\ pc' = [pc EXCEPT ![f] = "closed"])
      /\ Drop(f)
      /\ inbox' = [inbox EXCEPT ![f] = <<>>] /\ prev' = [prev EXCEPT ![f] = <<>>]
  BY DEF ReleaseAll, Release, Close, SleepIn
<1>2. refs \in Nat \ {0} /\ (refs = 1 => members \subseteq {f}) /\ DOMAIN pc = Files
  BY <1>1, LastOne DEF WorldInv
<1>3. CASE LastClose(f)
  <2>1. EndOfWorld /\ members' = {}
    BY <1>1, <1>2, <1>3 DEF Drop, LastClose
  <2>2. ASSUME NEW g \in Files
        PROVE  inbox'[g] = <<>> /\ prev'[g] = <<>>
    BY <1>1, <1>2, <1>3 DEF LastClose, CountInv, QueueInv
  <2>3. inbox' = [g \in Files |-> <<>>] /\ prev' = [g \in Files |-> <<>>]
    BY <1>1, <2>2 DEF CountInv, QueueInv
  <2> QED BY <2>1, <2>3, EndCount
<1>4. CASE ~LastClose(f)
  <2>1. /\ DestroyEntries([k \in Kinds |-> IF k = "call" THEN OwnedBy(f) ELSE LeftEmpty(id[f])])
        /\ FreeQuotas(OwnedBy(f)) /\ DetachAll(id[f])
        /\ RunDispatchCallbacks(prev[f] \o inbox[f], Reactors \ LeftEmpty(id[f]))
    BY <1>1, <1>4 DEF Drop
  <2>2. refs' # 0
    BY <1>1, <1>2, <1>4 DEF LastClose
  <2>3. UNCHANGED ids
    BY <2>1 DEF DestroyEntries
  <2>4. (\A g \in Files \ {f} : id'[g] = id[g]) /\ id'[f] \in {id[f], 0}
    BY <1>1 DEF WorldInv
  <2>5. Leaves(f)
    BY <1>1, <2>2, <2>3, <2>4 DEF Leaves
  <2> QED BY <2>1, <2>5, LeaveCount
<1> QED BY <1>3, <1>4

LEMMA ResumeCount ==
  ASSUME WorldInv, TablesInv, CountInv, NEW f \in Files, ReleaseAllResume(f)
  PROVE  CountInv'
<1>1. /\ pc[f] = "release" /\ members' = members
      /\ (refs' = refs /\ id' = id /\ pc' = [pc EXCEPT ![f] = "release"])
         \/ (refs' = refs - 1 /\ id' = [id EXCEPT ![f] = 0] /\ pc' = [pc EXCEPT ![f] = "closed"])
      /\ IF LastClose(f) THEN EndOfWorld ELSE UNCHANGED <<entries, rights, quotas, reactorVars>>
      /\ UNCHANGED callbacks
  BY DEF ReleaseAllResume, ReleaseResume, KillRound, Close, SleepIn
<1>2. refs \in Nat \ {0} /\ (refs = 1 => members \subseteq {f}) /\ DOMAIN pc = Files /\ f \notin members
  BY <1>1, LastOne DEF WorldInv
<1>3. inbox' = inbox /\ prev' = prev
  BY <1>1 DEF callbacks
<1>4. CASE LastClose(f)
  <2>1. EndOfWorld /\ members' = {} /\ members = {}
    BY <1>1, <1>2, <1>4 DEF LastClose
  <2>2. inbox' = [g \in Files |-> <<>>] /\ prev' = [g \in Files |-> <<>>]
    BY <1>3, <2>1 DEF CountInv, QueueInv
  <2> QED BY <2>1, <2>2, EndCount
<1>5. CASE ~LastClose(f)
  <2>1. UNCHANGED <<ids, entry, quotas, reactor, dispatches>>
    BY <1>1, <1>5 DEF entries, reactorVars
  <2>2. refs' # 0
    BY <1>1, <1>2, <1>5 DEF LastClose
  <2>3. (\A g \in Files \ {f} : id'[g] = id[g]) /\ id'[f] \in {id[f], 0}
    BY <1>1 DEF WorldInv
  <2>4. OwnedBy(f) = {}
    <3>1. ASSUME NEW c \in OwnedBy(f)
          PROVE  FALSE
      <4>1. PICK g \in members : c \in OwnedBy(g)
        BY DEF CountInv, OwnerInv, OwnedBy
      <4> QED BY <1>2, <4>1, OneOwner, MembersFinite
    <3> QED BY <3>1
  <2>5. OwnedBy(f)' = {}
    <3>1. CASE id'[f] = id[f]
      BY <2>1, <2>4, <3>1 DEF OwnedBy
    <3>2. CASE id'[f] = 0
      BY <3>2 DEF OwnedBy
    <3> QED BY <2>3, <3>1, <3>2
  <2>6. \A g \in Files : OwnedBy(g)' = OwnedBy(g)
    <3>1. \A g \in Files \ {f} : OwnedBy(g)' = OwnedBy(g)
      BY <2>1, <2>3 DEF OwnedBy
    <3> QED BY <2>4, <2>5, <3>1
  <2>7. QueueInv'
    <3>1. \A g \in Files : OwnedBy(g) \subseteq OwnedBy(g)'
      BY <2>6
    <3>2. \A g \in Files : \A c \in OwnedBy(g) : DOMAIN quotas[c] \subseteq DOMAIN quotas'[c]
      BY <2>1
    <3> QED BY <1>1, <2>1, <3>1, <3>2, QueueKept DEF CountInv
  <2>8. OwnerInv'
    BY <1>1, <2>1, <2>6, MembersFinite DEF CountInv, OwnerInv
  <2>9. NodesInv'
    <3>1. MemberIds' = MemberIds
      <4>1. \A g \in members : id'[g] = id[g]
        BY <1>2, <2>3, MembersFinite
      <4> QED BY <1>1, <4>1 DEF MemberIds
    <3> QED BY <2>1, <3>1 DEF CountInv, NodesInv
  <2>10. DispatchInv'
    <3>1. ReactorsKept
      BY <2>1 DEF ReactorsKept
    <3> QED BY <1>1, <2>1, <2>2, <3>1, DispatchKept DEF CountInv
  <2>11. QuotaInv'
    BY <1>1, <2>1, QuotaKept DEF CountInv
  <2> QED BY <2>7, <2>8, <2>9, <2>10, <2>11 DEF CountInv
<1> QED BY <1>4, <1>5

-----------------------------------------------------------------------------
(* Every step keeps the invariants of the callbacks and of the batches *)

\* An execution, the first or a continued one, does.
LEMMA LoopKeeps ==
  ASSUME QuotaAssumption, IInv, CountInv, BatchInv, NEW f \in Files, NEW c \in 0..MaxEntries, Exists("call", c),
         NEW done \in 0..BatchSize, NEW before, FirstSent(before, done), ExecuteLoop(f, c, done, before), OnlyBatches
  PROVE  CountInv' /\ BatchInv'
<1>1. "call" \in Kinds /\ c \in Nat
  BY ReactorAssumption
<1>2. c \in DOMAIN entry["call"]
  BY <1>1, ExistsIsEntry DEF IInv
<1>3. c \in 1..MaxEntries
  BY <1>2 DEF CountInv, OwnerInv
<1>4. CountInv'
  BY <1>3, ExecuteCount DEF IInv
<1>5. BatchInv'
  BY <1>3, ExecuteBatch DEF CountInv
<1> QED BY <1>4, <1>5

\* One that fails does.
LEMMA FailKeeps ==
  ASSUME IInv, CountInv, BatchInv, NEW f \in Files, ExecuteFails(f), OnlyBatches
  PROVE  CountInv' /\ BatchInv'
<1>1. UNCHANGED quotas /\ UNCHANGED inbox /\ UNCHANGED got /\ batch' = [batch EXCEPT ![f] = NoBatch]
  BY DEF ExecuteFails
<1>2. CountInv'
  BY <1>1, BatchFrame DEF IInv
<1>3. BatchInv'
  <2>1. NoBatch \in [call : 0..MaxEntries, done : 0..BatchSize] /\ NoBatch.call = 0
    BY QuotaAssumption, WorldAssumption DEF NoBatch
  <2> QED BY <1>1, <2>1 DEF BatchInv
<1> QED BY <1>2, <1>3

\* What was sent of a batch before it is continued.
LEMMA SentSoFar ==
  ASSUME BatchInv, NEW f \in Files, batch[f].call # 0
  PROVE  batch[f].call \in 0..MaxEntries /\ batch[f].done \in 0..BatchSize /\ FirstSent(got[f], batch[f].done)
BY DEF BatchInv, FirstSent

\* Calls have ids from 1.
LEMMA NoCallZero ==
  ASSUME IInv, CountInv, NEW c \in Nat, Exists("call", c)
  PROVE  c # 0
<1>1. "call" \in Kinds
  BY ReactorAssumption
<1>2. c \in DOMAIN entry["call"]
  BY <1>1, ExistsIsEntry DEF IInv
<1> QED BY <1>2, WorldAssumption DEF CountInv, OwnerInv

LEMMA ExecuteKeeps ==
  ASSUME IInv, CountInv, BatchInv, NEW f \in Files,
         (\E c \in QuotaCalls : Execute(f, c)) \/ ExecuteAgain(f) \/ ExecuteResume(f)
  PROVE  CountInv' /\ BatchInv'
<1>1. ASSUME NEW c \in QuotaCalls, Execute(f, c)
      PROVE  CountInv' /\ BatchInv'
  <2>1. c \in 0..MaxEntries /\ 0 \in 0..BatchSize
    BY QuotaAssumption
  <2>2. Exists("call", c) /\ ExecuteLoop(f, c, 0, <<>>) /\ OnlyBatches
    BY <1>1 DEF Execute, MayUse
  <2>3. FirstSent(<<>>, 0)
    BY DEF FirstSent
  <2> QED BY <2>1, <2>2, <2>3, LoopKeeps, QuotaAssumption
<1> DEFINE c == batch[f].call
           done == batch[f].done
<1>2. ASSUME Exists("call", c), ExecuteLoop(f, c, done, got[f]), OnlyBatches
      PROVE  CountInv' /\ BatchInv'
  <2>1. c \in Nat
    BY WorldAssumption DEF BatchInv
  <2>2. c # 0
    BY <1>2, <2>1, NoCallZero
  <2>3. c \in 0..MaxEntries /\ done \in 0..BatchSize /\ FirstSent(got[f], done)
    BY <2>2, SentSoFar
  <2> HIDE DEF c, done
  <2> QED BY <1>2, <2>3, LoopKeeps, QuotaAssumption
<1>3. CASE ExecuteAgain(f)
  <2>1. OnlyBatches /\ (ExecuteFails(f) \/ (Exists("call", c) /\ ExecuteLoop(f, c, done, got[f])))
    BY <1>3 DEF ExecuteAgain, MayUse
  <2> QED BY <1>2, <2>1, FailKeeps
<1>4. CASE ExecuteResume(f)
  <2>1. OnlyBatches
    BY <1>4 DEF ExecuteResume
  <2>2. \/ UNCHANGED <<batch, quotas, got, inbox>>
        \/ ExecuteFails(f)
        \/ Exists("call", c) /\ ExecuteLoop(f, c, done, got[f])
    BY <1>4 DEF ExecuteResume
  <2>3. CASE UNCHANGED <<batch, quotas, got, inbox>>
    <3>1. CountInv'
      BY <2>1, <2>3, BatchFrame DEF IInv
    <3>2. BatchInv'
      BY <2>3 DEF BatchInv
    <3> QED BY <3>1, <3>2
  <2> QED BY <1>2, <2>1, <2>2, <2>3, FailKeeps
<1> QED BY <1>1, <1>3, <1>4

LEMMA ReleaseBatch ==
  ASSUME BatchInv, NEW f \in Files, ReleaseAll(f)
  PROVE  BatchInv'
<1>1. batch' = [batch EXCEPT ![f] = NoBatch] /\ got' = [got EXCEPT ![f] = <<>>]
  BY DEF ReleaseAll
<1>2. NoBatch \in [call : 0..MaxEntries, done : 0..BatchSize] /\ NoBatch.call = 0
  BY QuotaAssumption, WorldAssumption DEF NoBatch
<1>3. <<>> \in Seq(1..BatchSize) /\ DOMAIN <<>> = {}
  OBVIOUS
<1> QED BY <1>1, <1>2, <1>3 DEF BatchInv

LEMMA ReactorKeeps ==
  ASSUME IInv, Present, CountInv, NEW f \in Files, ReactorStep(f), UNCHANGED quotas
  PROVE  CountInv'
<1>1. CASE ReactorNew(f)
  <2>1. "reactor" \in Kinds
    BY ReactorAssumption
  <2>2. Entered(f) /\ CreateEntry("reactor", f) /\ UNCHANGED <<callbacks, reactorVars, quotas, refs, members, id>>
    BY <1>1 DEF ReactorNew, device, process
  <2> QED BY <2>1, <2>2, CreateCount DEF IInv
<1>2. ASSUME NEW r \in 1..MaxEntries, NEW c \in Channels, NEW self \in BOOLEAN, Dispatch(f, r, c, self)
      PROVE  CountInv'
  BY <1>2, DispatchCount DEF IInv
<1>3. CASE \/ \E r \in 1..MaxEntries, c \in Channels : Attach(f, r, c) \/ Detach(f, r, c)
           \/ \E r \in 1..MaxEntries, call \in CallbackCalls : SetCallback(f, r, call)
           \/ \E r \in 1..MaxEntries : ReactorDestroy(f, r)
           \/ \E from \in 1..MaxIds : Fork(f, from)
  BY <1>3, ReactorOthers DEF IInv
<1> QED BY <1>1, <1>2, <1>3 DEF ReactorStep

LEMMA QuotaKeeps ==
  ASSUME IInv, Present, CountInv, BatchInv, NEW f \in Files, QuotaStep(f)
  PROVE  CountInv' /\ BatchInv'
<1>1. CASE CallNew(f)
  <2>1. "call" \in Kinds
    BY ReactorAssumption
  <2>2. Entered(f) /\ CreateEntry("call", f) /\ UNCHANGED <<callbacks, reactorVars, quotas, refs, members, id>>
        /\ UNCHANGED <<batch, got>>
    BY <1>1 DEF CallNew, device, process, quotaVars
  <2>3. CountInv'
    BY <2>1, <2>2, CreateCount DEF IInv
  <2> QED BY <2>2, <2>3 DEF BatchInv
<1>2. ASSUME NEW c \in QuotaCalls, NEW i \in {id[g] : g \in members} \ {0}, NEW limit \in Limits, SetQuota(f, c, i, limit)
      PROVE  CountInv' /\ BatchInv'
  <2>1. c \in 1..MaxEntries /\ limit \in Nat
    BY QuotaAssumption
  <2>2. i \in Nat
    BY MembersFinite DEF IInv, WorldInv
  <2>3. CountInv'
    BY <1>2, <2>1, <2>2, SetQuotaCount DEF IInv
  <2>4. UNCHANGED <<batch, got>>
    BY <1>2 DEF SetQuota
  <2> QED BY <2>3, <2>4 DEF BatchInv
<1>3. ASSUME NEW c \in 1..MaxEntries, CallDestroy(f, c)
      PROVE  CountInv' /\ BatchInv'
  <2>1. CountInv'
    BY <1>3, DestroyCount DEF IInv
  <2>2. UNCHANGED <<batch, got>>
    BY <1>3 DEF CallDestroy
  <2> QED BY <2>1, <2>2 DEF BatchInv
<1>4. CASE (\E c \in QuotaCalls : Execute(f, c)) \/ ExecuteAgain(f) \/ ExecuteResume(f)
  BY <1>4, ExecuteKeeps
<1>5. CASE Receive(f)
  <2>1. CountInv'
    BY <1>5, ReceiveCount DEF IInv
  <2>2. UNCHANGED <<batch, got>>
    BY <1>5 DEF Receive
  <2> QED BY <2>1, <2>2 DEF BatchInv
<1>6. CASE ReleaseAll(f)
  BY <1>6, ReleaseCount, ReleaseBatch DEF IInv
<1>7. CASE ReleaseAllResume(f)
  <2>1. CountInv'
    BY <1>7, ResumeCount DEF IInv
  <2>2. UNCHANGED <<batch, got>>
    BY <1>7 DEF ReleaseAllResume
  <2> QED BY <2>1, <2>2 DEF BatchInv
<1> QED BY <1>1, <1>2, <1>3, <1>4, <1>5, <1>6, <1>7 DEF QuotaStep

\* The invariant of the world with its messages, and that it is inductive.
FullInv == IInv /\ Present /\ CountInv /\ BatchInv

LEMMA InitFull == Init => FullInv
<1> SUFFICES ASSUME Init
             PROVE  FullInv
  OBVIOUS
<1>1. IInv
  BY InitInv
<1>2. Present
  BY DEF Init, WorldInit, Present
<1>3. <<>> \in Seq(AnyCallback) /\ DOMAIN <<>> = {} /\ <<>> \in Seq(1..BatchSize) /\ <<>> \in Seq({})
  OBVIOUS
<1>4. QueueInv
  <2>1. \A f \in Files : inbox[f] = <<>> /\ prev[f] = <<>>
    BY DEF Init, ReactorInit
  <2>2. \A g \in Files : Queued(inbox[g], g) /\ Queued(prev[g], g)
    BY <1>3, <2>1 DEF Queued
  <2> QED BY <1>3, <2>1, <2>2 DEF Init, ReactorInit, QueueInv
<1>5. NodesInv
  <2>1. "nodes" \in DOMAIN NewReactor /\ NewReactor.nodes = <<>>
    BY DEF NewReactor
  <2> QED BY <1>3, <2>1 DEF Init, ReactorInit, NodesInv
<1>6. OwnerInv
  <2>1. "call" \in Kinds
    BY ReactorAssumption
  <2>2. DOMAIN entry["call"] = {}
    BY <1>3, <2>1 DEF Init, WorldInit
  <2> QED BY <2>2 DEF OwnerInv
<1>7. DispatchInv
  BY <1>3 DEF Init, ReactorInit, DispatchInv
<1>8. QuotaInv
  <2>1. DOMAIN quotas = 1..MaxEntries /\ \A c \in 1..MaxEntries : quotas[c] = <<>>
    BY DEF Init
  <2>2. <<>> = [i \in {} |-> <<>>[i]]
    OBVIOUS
  <2>3. \A c \in 1..MaxEntries : quotas[c] = [i \in DOMAIN quotas[c] |-> quotas[c][i]]
    BY <1>3, <2>1, <2>2
  <2> QED BY <1>3, <2>1, <2>3 DEF QuotaInv
<1>9. BatchInv
  <2>1. NoBatch \in [call : 0..MaxEntries, done : 0..BatchSize] /\ NoBatch.call = 0
    BY QuotaAssumption, WorldAssumption DEF NoBatch
  <2> QED BY <1>3, <2>1 DEF Init, BatchInv
<1> QED BY <1>1, <1>2, <1>4, <1>5, <1>6, <1>7, <1>8, <1>9 DEF FullInv, CountInv

LEMMA NextFull == FullInv /\ [Next]_vars => FullInv'
<1> SUFFICES ASSUME FullInv, [Next]_vars
             PROVE  FullInv'
  OBVIOUS
<1>1. IInv /\ Present /\ CountInv /\ BatchInv /\ WorldInv /\ TablesInv
  BY DEF FullInv, IInv
<1>2. IInv' /\ Present'
  BY <1>1, NextInv, PresentNext
<1>3. ASSUME NEW f \in Files, Alone(WorldStep(f) \/ Permit(f))
      PROVE  CountInv' /\ BatchInv'
  <2>1. UNCHANGED <<callbacks, reactorVars, quotas>> /\ UNCHANGED <<batch, got>>
    BY <1>3 DEF Alone, quotaVars
  <2>2. CountInv'
    BY <1>1, <1>3, <2>1, WorldCount, PermitCount DEF Alone
  <2> QED BY <1>1, <2>1, <2>2 DEF BatchInv
<1>4. ASSUME NEW f \in Files, ReactorStep(f), UNCHANGED quotaVars
      PROVE  CountInv' /\ BatchInv'
  <2>1. UNCHANGED quotas /\ UNCHANGED <<batch, got>>
    BY <1>4 DEF quotaVars
  <2>2. CountInv'
    BY <1>1, <1>4, <2>1, ReactorKeeps
  <2> QED BY <1>1, <2>1, <2>2 DEF BatchInv
<1>5. ASSUME NEW f \in Files, QuotaStep(f)
      PROVE  CountInv' /\ BatchInv'
  BY <1>1, <1>5, QuotaKeeps
<1>6. ASSUME UNCHANGED vars
      PROVE  CountInv' /\ BatchInv'
  <2>1. UNCHANGED <<refs, members, id>> /\ UNCHANGED <<callbacks, reactorVars, quotas, entries>>
        /\ UNCHANGED <<batch, got>>
    BY <1>6 DEF vars, worldVars, quotaVars, device, process
  <2>2. CountInv'
    BY <1>1, <2>1, EntriesCount DEF Grows
  <2> QED BY <1>1, <2>1, <2>2 DEF BatchInv
<1>7. CountInv' /\ BatchInv'
  BY <1>3, <1>4, <1>5, <1>6 DEF Next
<1> QED BY <1>2, <1>7 DEF FullInv

\* FullInv holds in every world.
THEOREM FullInvariance == Spec => []FullInv
BY InitFull, NextFull, PTL DEF Spec

\* The counters of dispatches and quotas are exact, whoever reads, dies or
\* destroys a call or a reactor, and no caller exceeds the quota it was given.
THEOREM CountersAreExact == Spec => []CallbacksCounted
<1>1. FullInv => CallbacksCounted
  <2> SUFFICES ASSUME FullInv
               PROVE  CallbacksCounted
    OBVIOUS
  <2>1. QueueInv /\ DispatchInv /\ QuotaInv
    BY DEF FullInv, CountInv
  <2>2. ASSUME NEW d \in DOMAIN dispatches
        PROVE  /\ dispatches[d].reactor \in Reactors => dispatches[d].count = Outstanding(DispatchCallback(d))
               /\ dispatches[d].freed => Outstanding(DispatchCallback(d)) = 0
    BY <2>1 DEF DispatchInv, Counted
  <2>3. ASSUME NEW c \in 1..MaxEntries, NEW i \in 1..MaxIds
        PROVE  IF i \in DOMAIN quotas[c]
               THEN /\ quotas[c][i].count = Outstanding(QuotaCallback(c, i))
                    /\ quotas[c][i].count <= quotas[c][i].peak
               ELSE Outstanding(QuotaCallback(c, i)) = 0
    <3>1. CASE i \in DOMAIN quotas[c]
      BY <2>1, <3>1 DEF QuotaInv, QuotaOk
    <3>2. CASE i \notin DOMAIN quotas[c]
      BY <2>1, <3>2, NoSuchQuota
    <3> QED BY <3>1, <3>2
  <2> QED BY <2>2, <2>3 DEF CallbacksCounted
<1> QED BY <1>1, FullInvariance, PTL

\* A dispatch reports once, when the last of its messages is processed or lost
\* with its reader and not before, unless its reactor is gone.
THEOREM DispatchReportsOnce == Spec => []FiredOnceAfterAll
<1>1. FullInv => FiredOnceAfterAll
  <2> SUFFICES ASSUME FullInv, NEW d \in DOMAIN dispatches
               PROVE  LET left == Outstanding(DispatchCallback(d)) IN
                      /\ dispatches[d].fired <= 1
                      /\ dispatches[d].fired = 1 => left = 0
                      /\ left = 0 /\ dispatches[d].reactor \in Reactors => dispatches[d].fired = 1
    BY DEF FiredOnceAfterAll
  <2>1. Counted(dispatches[d], Outstanding(DispatchCallback(d)), Reactors)
    BY DEF FullInv, CountInv, DispatchInv
  <2> QED BY <2>1 DEF Counted
<1> QED BY <1>1, FullInvariance, PTL

\* However often quotas and signals interrupt a batch, its messages are sent in
\* order and each of them once.
THEOREM BatchSentOnce == Spec => []BatchOnce
<1>1. FullInv => BatchOnce
  <2> SUFFICES ASSUME FullInv, NEW f \in Files
               PROVE  /\ \A n \in DOMAIN got[f] : got[f][n] = n /\ n <= BatchSize
                      /\ batch[f].call # 0 => Len(got[f]) = batch[f].done
    BY DEF BatchOnce
  <2>1. BatchInv
    BY DEF FullInv
  <2>2. got[f] \in Seq(1..BatchSize) /\ \A n \in DOMAIN got[f] : got[f][n] = n
    BY <2>1 DEF BatchInv
  <2>3. \A n \in DOMAIN got[f] : got[f][n] = n /\ n <= BatchSize
    BY <2>2, QuotaAssumption
  <2> QED BY <2>1, <2>3 DEF BatchInv
<1> QED BY <1>1, FullInvariance, PTL

=============================================================================
