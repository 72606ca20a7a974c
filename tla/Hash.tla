-------------------------------- MODULE Hash --------------------------------
(***************************************************************************)
(* The hash table of entries and quotas (hash.c), as operators on a table. *)
(* Keys are numbers (ids), as in every table of the module.                *)
(*                                                                         *)
(* The nodes of a bucket are a set: the order of a chain decides only how  *)
(* long a lookup takes, as a key has one node.  Allocation does not fail.  *)
(***************************************************************************)
EXTENDS Naturals, FiniteSets

CONSTANTS
  MinSize,  \* FUSION_HASH_MIN_SIZE
  MaxSize,  \* FUSION_HASH_MAX_SIZE
  Primes,   \* the sizes of spaced_primes_closest
  NULL      \* what a lookup returns when it finds nothing

ASSUME HashAssumption ==
  /\ MinSize \in Nat \ {0} /\ MaxSize \in Nat /\ MinSize <= MaxSize
  /\ Primes \subseteq Nat \ {0}
  /\ \E last \in Primes : \A p \in Primes : p <= last

\* fusion_hash_create
HashCreate(wanted) ==
  LET size == IF wanted < MinSize THEN MinSize ELSE wanted
  IN  [size |-> size, nnodes |-> 0, nodes |-> [b \in 0..(size - 1) |-> {}]]

\* Every key and value, in the order of fusion_hash_iterate or another.
HashNodes(h) == UNION {h.nodes[b] : b \in 0..(h.size - 1)}

\* fusion_hash_lookup_node: the node of a key, in the bucket of the key.
Nodes(h, key) == {n \in h.nodes[key % h.size] : n.key = key}

HashLookup(h, key) ==
  IF Nodes(h, key) = {} THEN NULL ELSE (CHOOSE n \in Nodes(h, key) : TRUE).value

\* spaced_primes_closest: the first prime above num, or else the last one.
Closest(num) ==
  LET above == {p \in Primes : p > num} IN
  IF above # {} THEN CHOOSE p \in above : \A q \in above : p <= q
  ELSE CHOOSE p \in Primes : \A q \in Primes : q <= p

\* The size a table of n nodes gets.
Clamped(n) ==
  LET size == IF Closest(n) > MaxSize THEN MaxSize ELSE Closest(n)
  IN  IF size < MinSize THEN MinSize ELSE size

ShouldResize(h) ==
  \/ h.size >= 3 * h.nnodes /\ h.size > MinSize
  \/ 3 * h.size <= h.nnodes /\ h.size < MaxSize

\* Mutant: the nodes keep the bucket they had.
ResizeInPlace(h) ==
  LET size == Clamped(h.nnodes) IN
  [h EXCEPT !.size = size,
            !.nodes = [b \in 0..(size - 1) |-> IF b \in DOMAIN h.nodes THEN h.nodes[b] ELSE {}]]

\* fusion_hash_resize: every node moves to its bucket in the new table.
HashResize(h) ==
  LET size == Clamped(h.nnodes) IN
  [h EXCEPT !.size = size,
            !.nodes = [b \in 0..(size - 1) |-> {n \in HashNodes(h) : n.key % size = b}]]

\* The table with one more node.
Linked(h, key, value) ==
  [h EXCEPT !.nnodes = @ + 1,
            !.nodes[key % h.size] = @ \cup {[key |-> key, value |-> value]}]

\* fusion_hash_insert; a key that exists stays as it is (EINVAL).
HashInsert(h, key, value) ==
  LET g == Linked(h, key, value) IN
  IF Nodes(h, key) # {} THEN h ELSE IF ShouldResize(g) THEN HashResize(g) ELSE g

\* fusion_hash_replace never resizes.
HashReplace(h, key, value) ==
  IF Nodes(h, key) = {} THEN Linked(h, key, value)
  ELSE [h EXCEPT !.nodes[key % h.size] = (@ \ Nodes(h, key)) \cup {[key |-> key, value |-> value]}]

\* Nor does fusion_hash_remove.
HashRemove(h, key) ==
  IF Nodes(h, key) = {} THEN h
  ELSE [h EXCEPT !.nnodes = @ - 1, !.nodes[key % h.size] = @ \ Nodes(h, key)]

\* One removal after the other, of all the keys of a set.
HashRemoveAll(h, keys) ==
  LET removed == {n \in HashNodes(h) : n.key \in keys} IN
  [h EXCEPT !.nnodes = @ - Cardinality(removed),
            !.nodes = [b \in DOMAIN @ |-> @[b] \ removed]]

-----------------------------------------------------------------------------
(* What the operators promise *)

\* A finite set of keys with a value each.
IsPairs(P) ==
  /\ IsFiniteSet(P)
  /\ \A n \in P : n = [key |-> n.key, value |-> n.value] /\ n.key \in Nat
  /\ \A n, m \in P : n.key = m.key => n = m

\* The well-formed table of a size with these pairs: each is in the bucket of
\* its key, and they are counted.
TableOf(size, P) ==
  [size |-> size, nnodes |-> Cardinality(P),
   nodes |-> [b \in 0..(size - 1) |-> {n \in P : n.key % size = b}]]

\* A table holds these pairs and no others.
Holds(h, P) == IsPairs(P) /\ \E size \in Nat \ {0} : h = TableOf(size, P)
=============================================================================
