--------------------------- MODULE SHMPool_proofs ---------------------------
(* Proofs about SHMPool, for any number of pools and fusionees, for every    *)
(* address space and all sizes that an int can say with their last page.     *)
EXTENDS SHMPool, SequenceTheorems, TLAPS

-----------------------------------------------------------------------------
(* Addresses *)

LEMMA UnitFacts == Page \in Nat \ {0} /\ Granule \in Nat \ {0}
BY DEF Page, Granule

LEMMA UpPage ==
  ASSUME NEW n \in Nat
  PROVE  Up(n, Page) \in Nat /\ n <= Up(n, Page)
BY DEF Up, Page

LEMMA UpGranule ==
  ASSUME NEW n \in Nat
  PROVE  Up(n, Granule) \in Nat /\ n <= Up(n, Granule) /\ Up(n, Granule) % Granule = 0
BY DEF Up, Granule

LEMMA EndFacts ==
  ASSUME NEW b \in Nat, NEW m \in Nat, Up(m, Page) <= IntMax
  PROVE  End(b, m) \in Nat /\ b + m + Page <= End(b, m) /\ End(b, m) % Granule = 0
<1> DEFINE k == b + Up(m, Page) + Page
<1>1. k \in Nat /\ b + m + Page <= k BY UpPage, UnitFacts
<1>2. End(b, m) = Up(k, Granule) BY DEF End, PageAlign
<1> HIDE DEF k
<1>3. Up(k, Granule) \in Nat /\ k <= Up(k, Granule) /\ Up(k, Granule) % Granule = 0
  BY <1>1, UpGranule
<1> QED BY <1>1, <1>2, <1>3, UnitFacts

USE SHMPoolAssumption

\* Pools lie below the first free address, one after the other.
Layout ==
  /\ Lowest <= addr_base /\ addr_base % Granule = 0
  /\ \A p \in alive :
       /\ base[p] % Granule = 0 /\ Lowest <= base[p]
       /\ base[p] + max_size[p] < ShmBase + ShmSize
       /\ base[p] + max_size[p] + Page <= next_base[p]
       /\ next_base[p] % Granule = 0 /\ next_base[p] <= addr_base
  /\ \A p, q \in alive : p # q => next_base[p] <= base[q] \/ next_base[q] <= base[p]

Space == SpaceOK /\ Layout /\ Reclaimed

LEMMA LowestFacts == Lowest \in Nat /\ Lowest % Granule = 0
BY DEF Lowest, Granule

LEMMA SpaceInit == Init => Space
BY LowestFacts DEF Init, Space, SpaceOK, Layout, Reclaimed

LEMMA SpaceDisjoint == Space => Disjoint /\ Fits
BY LowestFacts, UnitFacts DEF Space, SpaceOK, Layout, Disjoint, Fits

LEMMA SpaceNew ==
  ASSUME NoWrap, Space, NEW f \in Fusionees, NEW p \in Pools, NEW m \in MaxSizes, New(f, p, m)
  PROVE  Space'
<1>1. m \in Nat /\ addr_base \in Nat /\ Up(m, Page) <= IntMax
  BY DEF Space, SpaceOK, NoWrap
<1>2. End(addr_base, m) \in Nat /\ addr_base + m + Page <= End(addr_base, m)
      /\ End(addr_base, m) % Granule = 0
  BY <1>1, EndFacts
<1>3. p \notin alive /\ alive' = alive \cup {p} /\ used' = used \cup {p}
  BY DEF New, Space, SpaceOK
<1>4. /\ base' = [base EXCEPT ![p] = addr_base]
      /\ max_size' = [max_size EXCEPT ![p] = m]
      /\ next_base' = [next_base EXCEPT ![p] = addr_base']
      /\ size' = [size EXCEPT ![p] = 0]
      /\ addr_base' = End(addr_base, m) /\ addr_base + m < ShmBase + ShmSize
  BY DEF New
<1>5. SpaceOK' BY <1>1, <1>2, <1>3, <1>4 DEF Space, SpaceOK
<1>6. /\ base'[p] = addr_base /\ max_size'[p] = m /\ next_base'[p] = addr_base'
      /\ \A q \in alive : base'[q] = base[q] /\ max_size'[q] = max_size[q]
                          /\ next_base'[q] = next_base[q]
  BY <1>3, <1>4 DEF Space, SpaceOK
<1>7. /\ Lowest <= addr_base' /\ addr_base' % Granule = 0
      /\ \A q \in alive : next_base[q] \in Nat /\ next_base[q] <= addr_base'
  BY <1>1, <1>2, <1>4, LowestFacts, UnitFacts DEF Space, SpaceOK, Layout
<1>8. \A q \in alive' :
        /\ base'[q] % Granule = 0 /\ Lowest <= base'[q]
        /\ base'[q] + max_size'[q] < ShmBase + ShmSize
        /\ base'[q] + max_size'[q] + Page <= next_base'[q]
        /\ next_base'[q] % Granule = 0 /\ next_base'[q] <= addr_base'
  <2>1. ASSUME NEW q \in alive PROVE
          /\ base'[q] % Granule = 0 /\ Lowest <= base'[q]
          /\ base'[q] + max_size'[q] < ShmBase + ShmSize
          /\ base'[q] + max_size'[q] + Page <= next_base'[q]
          /\ next_base'[q] % Granule = 0 /\ next_base'[q] <= addr_base'
    BY <1>6, <1>7 DEF Space, Layout
  <2>2. /\ base'[p] % Granule = 0 /\ Lowest <= base'[p]
        /\ base'[p] + max_size'[p] < ShmBase + ShmSize
        /\ base'[p] + max_size'[p] + Page <= next_base'[p]
        /\ next_base'[p] % Granule = 0 /\ next_base'[p] <= addr_base'
    BY <1>2, <1>4, <1>5, <1>6, <1>7 DEF Space, SpaceOK, Layout
  <2> QED BY <1>3, <2>1, <2>2
<1>9. \A q, r \in alive' : q # r => next_base'[q] <= base'[r] \/ next_base'[r] <= base'[q]
  BY <1>3, <1>6 DEF Space, Layout
<1>10. Reclaimed' BY <1>3, <1>6 DEF Reclaimed
<1> QED BY <1>5, <1>7, <1>8, <1>9, <1>10 DEF Space, Layout

LEMMA SpaceDestroy ==
  ASSUME Space, NEW f \in Fusionees, NEW p \in Pools, Destroy(f, p)
  PROVE  Space'
<1>1. alive' = alive \ {p} /\ TrailFree(p) /\ UNCHANGED <<used, base, max_size, next_base, size>>
  BY DEF Destroy, Remove
<1>2. PICK b \in {Lowest} \cup {next_base[q] : q \in alive \ {p}} :
        /\ \A n \in {Lowest} \cup {next_base[q] : q \in alive \ {p}} : n <= b
        /\ addr_base' = b
  BY <1>1 DEF TrailFree
<1>3. b \in Nat /\ b % Granule = 0 /\ Lowest <= b /\ \A q \in alive' : next_base[q] <= b
  BY <1>1, <1>2, LowestFacts DEF Space, SpaceOK, Layout
<1>4. SpaceOK' BY <1>1, <1>2, <1>3 DEF Space, SpaceOK
<1>5. Layout' BY <1>1, <1>2, <1>3 DEF Space, SpaceOK, Layout
<1>6. Reclaimed' BY <1>1, <1>2 DEF Reclaimed
<1> QED BY <1>4, <1>5, <1>6 DEF Space

LEMMA SpaceKept == Space /\ UNCHANGED space /\ size' \in [Pools -> Nat] => Space'
BY DEF Space, SpaceOK, Layout, Reclaimed, space

LEMMA SpaceNext == NoWrap /\ Space /\ [Next]_vars => Space'
<1> SUFFICES ASSUME NoWrap, Space, [Next]_vars PROVE Space'
  OBVIOUS
<1>1. CASE UNCHANGED vars BY <1>1, SpaceKept DEF vars, Space, SpaceOK
<1>2. ASSUME NEW f \in Fusionees, NEW p \in Pools, NEW m \in MaxSizes, New(f, p, m) PROVE Space'
  BY <1>2, SpaceNew
<1>3. ASSUME NEW f \in Fusionees, NEW p \in Pools, Destroy(f, p) PROVE Space'
  BY <1>3, SpaceDestroy
<1>4. ASSUME NEW f \in Fusionees, NEW p \in Pools, NEW s \in Sizes, Dispatch(f, p, s) PROVE Space'
  BY <1>4, SpaceKept DEF Dispatch, Space, SpaceOK
<1>5. ASSUME NEW f \in Fusionees,
             \/ \E p \in Pools : Attach(f, p) \/ Detach(f, p)
             \/ \E g \in Fusionees : Fork(f, g)
             \/ Resume(f) \/ Interrupt(f) \/ Kill(f) \/ Release(f)
      PROVE Space'
  BY <1>5, SpaceKept DEF Attach, Detach, Fork, Resume, Interrupt, Kill, Release, Space, SpaceOK
<1> QED BY <1>1, <1>2, <1>3, <1>4, <1>5 DEF Next

\* The pools of a world never overlap and keep a page of distance
\* (fusion_shmpool_construct and fusion_shmpool_destruct), if no max_size is one
\* whose PAGE_ALIGN exceeds an int.
THEOREM PoolsDisjoint ==
  ASSUME NoWrap
  PROVE  Spec => []Disjoint
<1>1. Spec => []Space BY SpaceInit, SpaceNext, PTL DEF Spec
<1> QED BY <1>1, SpaceDisjoint, PTL

\* Under the same condition they begin at a multiple of 64 KB and stay in the
\* address space of their world.
THEOREM PoolsFit ==
  ASSUME NoWrap
  PROVE  Spec => []Fits
<1>1. Spec => []Space BY SpaceInit, SpaceNext, PTL DEF Spec
<1> QED BY <1>1, SpaceDisjoint, PTL

\* The address space behind the last pool can be used again.
THEOREM SpaceReclaimed ==
  ASSUME NoWrap
  PROVE  Spec => []Reclaimed
<1>1. Spec => []Space BY SpaceInit, SpaceNext, PTL DEF Spec
<1>2. Space => Reclaimed BY DEF Space
<1> QED BY <1>1, <1>2, PTL

-----------------------------------------------------------------------------
(* Lists of nodes *)

NodeType == [fusion_id : Fusionees, count : Nat \ {0}]

\* A list with one node for each of its fusionees.
List(q) ==
  /\ q \in Seq(NodeType)
  /\ \A i, j \in 1..Len(q) : q[i].fusion_id = q[j].fusion_id => i = j

Members(q) == {q[i].fusion_id : i \in 1..Len(q)}

LEMMA MembersAttached == \A p, f : Attached(p, f) <=> f \in Members(nodes[p])
BY DEF Attached, Members

LEMMA NodeFacts ==
  ASSUME NEW q, NEW f \in Members(q)
  PROVE  Node(q, f) \in 1..Len(q) /\ q[Node(q, f)].fusion_id = f
BY DEF Node, Members

\* The nodes behind a dropped one move up.
LEMMA DropNodes ==
  ASSUME NEW q, List(q), NEW i \in 1..Len(q)
  PROVE  /\ Drop(q, i) \in Seq(NodeType) /\ Len(Drop(q, i)) = Len(q) - 1
         /\ \A j \in 1..Len(Drop(q, i)) : Drop(q, i)[j] = q[IF j < i THEN j ELSE j + 1]
<1> DEFINE d == Drop(q, i)
<1> DEFINE a == SubSeq(q, 1, i - 1)
           b == SubSeq(q, i + 1, Len(q))
<1>1. q \in Seq(NodeType) /\ Len(q) \in Nat /\ \A j \in 1..Len(q) : q[j] \in NodeType
  BY ElementOfSeq, LenProperties DEF List
<1>2. a \in Seq(NodeType) /\ Len(a) = i - 1 /\ \A j \in 1..i - 1 : a[j] = q[j]
  BY <1>1, SubSeqProperties
<1>3. /\ b \in Seq(NodeType) /\ Len(b) = Len(q) - i
      /\ \A j \in 1..Len(q) - i : b[j] = q[i + j]
  BY <1>1, SubSeqProperties
<1>4. d = a \o b BY DEF Drop
<1> HIDE DEF a, b, d
<1>5. /\ d \in Seq(NodeType) /\ Len(d) = Len(a) + Len(b)
      /\ \A j \in 1..Len(a) + Len(b) : d[j] = IF j <= Len(a) THEN a[j] ELSE b[j - Len(a)]
  <2>1. /\ a \o b \in Seq(NodeType) /\ Len(a \o b) = Len(a) + Len(b)
        /\ \A j \in 1..Len(a) + Len(b) : (a \o b)[j] = IF j <= Len(a) THEN a[j] ELSE b[j - Len(a)]
    <3>1. a \in Seq(NodeType) /\ b \in Seq(NodeType) BY <1>2, <1>3
    <3>2. a \o b \in Seq(NodeType) BY <3>1, ConcatProperties
    <3>3. Len(a \o b) = Len(a) + Len(b) BY <3>1, ConcatProperties
    <3>4. ASSUME NEW j \in 1..Len(a) + Len(b)
          PROVE  (a \o b)[j] = IF j <= Len(a) THEN a[j] ELSE b[j - Len(a)]
      BY <3>1, ConcatProperties
    <3> QED BY <3>2, <3>3, <3>4
  <2> QED BY <1>4, <2>1
<1>6. ASSUME NEW j \in 1..Len(d) PROVE d[j] = q[IF j < i THEN j ELSE j + 1]
  <2>1. CASE j < i BY <1>1, <1>2, <1>3, <1>5, <2>1
  <2>2. CASE j >= i
    <3>1. d[j] = b[j - (i - 1)] BY <1>1, <1>2, <1>3, <1>5, <2>2
    <3>2. PICK n \in 1..Len(q) - i : n = j - (i - 1) BY <1>1, <1>2, <1>3, <1>5, <2>2
    <3>3. b[n] = q[i + n] /\ i + n = j + 1 BY <1>1, <1>3, <1>5, <3>2, SMTT(20)
    <3> QED BY <2>2, <3>1, <3>2, <3>3
  <2> QED BY <1>1, <1>5, <2>1, <2>2
<1>7. Len(d) = Len(q) - 1 BY <1>1, <1>2, <1>3, <1>5
<1> QED BY <1>5, <1>6, <1>7 DEF d

LEMMA DropFacts ==
  ASSUME NEW q, List(q), NEW i \in 1..Len(q)
  PROVE  List(Drop(q, i)) /\ Members(Drop(q, i)) = Members(q) \ {q[i].fusion_id}
<1> DEFINE d == Drop(q, i)
<1>1. /\ d \in Seq(NodeType) /\ Len(d) = Len(q) - 1
      /\ \A j \in 1..Len(d) : d[j] = q[IF j < i THEN j ELSE j + 1]
  BY DropNodes
<1> HIDE DEF d
<1>2. List(d)
  <2>1. Len(q) \in Nat BY LenProperties DEF List
  <2>2. ASSUME NEW j \in 1..Len(d), NEW k \in 1..Len(d), d[j].fusion_id = d[k].fusion_id
        PROVE  j = k
    <3> DEFINE up(n) == IF n < i THEN n ELSE n + 1
    <3>1. up(j) \in 1..Len(q) /\ up(k) \in 1..Len(q) BY <1>1, <2>1
    <3>2. q[up(j)].fusion_id = q[up(k)].fusion_id BY <1>1, <2>2
    <3>3. up(j) = up(k) BY <3>1, <3>2 DEF List
    <3> QED BY <2>1, <1>1, <3>3
  <2> QED BY <1>1, <2>2 DEF List
<1>3. ASSUME NEW f \in Members(d) PROVE f \in Members(q) \ {q[i].fusion_id}
  <2>0. Len(q) \in Nat BY LenProperties DEF List
  <2>1. PICK j \in 1..Len(d) : d[j].fusion_id = f BY DEF Members
  <2>2. PICK k \in 1..Len(q) : k # i /\ q[k].fusion_id = f
    <3>1. CASE j < i
      <4>1. j \in 1..Len(q) /\ q[j].fusion_id = f BY <1>1, <2>0, <2>1, <3>1
      <4> QED BY <3>1, <4>1
    <3>2. CASE ~(j < i)
      <4>1. j + 1 \in 1..Len(q) /\ q[j + 1].fusion_id = f BY <1>1, <2>0, <2>1, <3>2
      <4>2. j + 1 # i BY <3>2
      <4> QED BY <4>1, <4>2
    <3> QED BY <3>1, <3>2
  <2>3. f \in Members(q) BY <2>2 DEF Members
  <2>4. f # q[i].fusion_id BY <2>2 DEF List
  <2> QED BY <2>3, <2>4
<1>4. ASSUME NEW f \in Members(q) \ {q[i].fusion_id} PROVE f \in Members(d)
  <2>1. PICK k \in 1..Len(q) : q[k].fusion_id = f BY DEF Members
  <2>2. k # i BY <2>1
  <2>3. CASE k < i
    <3>1. k \in 1..Len(d) /\ d[k] = q[k] BY <1>1, <2>3, SMTT(20) DEF List
    <3> QED BY <2>1, <3>1 DEF Members
  <2>4. CASE k > i
    <3>1. k - 1 \in 1..Len(d) /\ d[k - 1] = q[k] BY <1>1, <2>4 DEF List
    <3> QED BY <2>1, <3>1 DEF Members
  <2> QED BY <2>2, <2>3, <2>4
<1> QED BY <1>2, <1>3, <1>4 DEF d

\* The nodes behind a new one move down.
LEMMA FrontNodes ==
  ASSUME NEW q, List(q), NEW f \in Fusionees, NEW n \in Nat \ {0}
  PROVE  LET r == <<[fusion_id |-> f, count |-> n]>> \o q
         IN  /\ r \in Seq(NodeType) /\ Len(r) = Len(q) + 1 /\ r[1].fusion_id = f
             /\ \A j \in 1..Len(q) : r[j + 1] = q[j]
             /\ \A j \in 2..Len(r) : r[j] = q[j - 1]
<1> DEFINE x == [fusion_id |-> f, count |-> n]
           r == <<x>> \o q
<1>1. q \in Seq(NodeType) /\ Len(q) \in Nat BY LenProperties DEF List
<1>2. x \in NodeType BY DEF NodeType
<1>3. <<x>> \in Seq(NodeType) /\ Len(<<x>>) = 1 /\ <<x>>[1] = x BY <1>2
<1> HIDE DEF x
<1>4. /\ r \in Seq(NodeType) /\ Len(r) = 1 + Len(q)
      /\ \A j \in 1..1 + Len(q) : r[j] = IF j <= 1 THEN <<x>>[j] ELSE q[j - 1]
  BY <1>1, <1>3, ConcatProperties
<1>5. r[1].fusion_id = f BY <1>1, <1>3, <1>4 DEF x
<1> HIDE DEF r
<1>6. /\ \A j \in 1..Len(q) : r[j + 1] = q[j]
      /\ \A j \in 2..Len(r) : r[j] = q[j - 1]
  BY <1>1, <1>4
<1>7. Len(r) = Len(q) + 1 BY <1>1, <1>4
<1> QED BY <1>4, <1>5, <1>6, <1>7 DEF r, x

\* A node in front of a list.
LEMMA FrontFacts ==
  ASSUME NEW q, List(q), NEW f \in Fusionees \ Members(q), NEW n \in Nat \ {0}
  PROVE  LET r == <<[fusion_id |-> f, count |-> n]>> \o q
         IN  List(r) /\ Members(r) = Members(q) \cup {f}
<1> DEFINE x == [fusion_id |-> f, count |-> n]
           r == <<x>> \o q
<1>1. /\ r \in Seq(NodeType) /\ Len(r) = Len(q) + 1 /\ r[1].fusion_id = f
      /\ \A j \in 1..Len(q) : r[j + 1] = q[j]
      /\ \A j \in 2..Len(r) : r[j] = q[j - 1]
  BY FrontNodes
<1> HIDE DEF r
<1>2. \A j \in 1..Len(q) : q[j].fusion_id # f BY DEF Members
<1>3. List(r)
  <2>1. ASSUME NEW j \in 1..Len(r), NEW k \in 1..Len(r), r[j].fusion_id = r[k].fusion_id
        PROVE  j = k
    <3>0. Len(q) \in Nat BY LenProperties DEF List
    <3>1. CASE j = 1 BY <1>1, <1>2, <2>1, <3>0, <3>1
    <3>2. CASE k = 1 BY <1>1, <1>2, <2>1, <3>0, <3>2
    <3>3. CASE j # 1 /\ k # 1
      <4>1. j - 1 \in 1..Len(q) /\ k - 1 \in 1..Len(q) BY <1>1, <3>0, <3>3
      <4>2. q[j - 1].fusion_id = q[k - 1].fusion_id BY <1>1, <2>1, <3>0, <3>3
      <4>3. j - 1 = k - 1 BY <4>1, <4>2 DEF List
      <4> QED BY <1>1, <3>0, <4>3
    <3> QED BY <3>1, <3>2, <3>3
  <2> QED BY <1>1, <2>1 DEF List
<1>4. Members(q) \cup {f} \subseteq Members(r) BY <1>1 DEF List, Members
<1>5. ASSUME NEW g \in Members(r) PROVE g \in Members(q) \cup {f}
  <2>1. PICK k \in 1..Len(r) : r[k].fusion_id = g BY DEF Members
  <2>2. CASE k = 1 BY <1>1, <2>1, <2>2
  <2>3. CASE k # 1
    <3>1. Len(q) \in Nat BY LenProperties DEF List
    <3>2. k - 1 \in 1..Len(q) /\ q[k - 1].fusion_id = g BY <1>1, <2>1, <2>3, <3>1
    <3> QED BY <3>2 DEF Members
  <2> QED BY <2>2, <2>3
<1> QED BY <1>3, <1>4, <1>5 DEF r

\* A list with another count.
Counting(q, i, n) == [q EXCEPT ![i].count = n]

\* A changed count changes nothing else.
LEMMA CountNodes ==
  ASSUME NEW q, List(q), NEW i \in 1..Len(q), NEW n \in Nat \ {0}
  PROVE  LET r == Counting(q, i, n)
         IN  /\ r \in Seq(NodeType) /\ Len(r) = Len(q)
             /\ \A j \in 1..Len(q) : r[j].fusion_id = q[j].fusion_id
<1> DEFINE r == [q EXCEPT ![i].count = n]
<1>1. q[i] \in NodeType /\ q \in Seq(NodeType) BY ElementOfSeq DEF List
<1> DEFINE x == [q[i] EXCEPT !.count = n]
<1>2. x \in NodeType /\ x.fusion_id = q[i].fusion_id BY <1>1 DEF NodeType
<1>3. r = [q EXCEPT ![i] = x] BY <1>1
<1> HIDE DEF x, r
<1>4. /\ r \in Seq(NodeType) /\ Len(r) = Len(q)
      /\ \A j \in 1..Len(q) : r[j] = IF j = i THEN x ELSE q[j]
  BY <1>1, <1>2, <1>3, ExceptSeq
<1>5. \A j \in 1..Len(q) : r[j].fusion_id = q[j].fusion_id BY <1>2, <1>4
<1> QED BY <1>4, <1>5 DEF r, Counting

\* A changed count.
LEMMA CountFacts ==
  ASSUME NEW q, List(q), NEW i \in 1..Len(q), NEW n \in Nat \ {0}
  PROVE  /\ List(Counting(q, i, n))
         /\ Members(Counting(q, i, n)) = Members(q)
<1> DEFINE r == Counting(q, i, n)
<1>4. r \in Seq(NodeType) /\ Len(r) = Len(q) BY CountNodes
<1>5. \A j \in 1..Len(q) : r[j].fusion_id = q[j].fusion_id BY CountNodes
<1> HIDE DEF r
<1>6. List(r) BY <1>4, <1>5 DEF List
<1>7. Members(r) = Members(q) BY <1>4, <1>5 DEF Members
<1> QED BY <1>6, <1>7 DEF r

-----------------------------------------------------------------------------
(* Who is attached *)

Ids == alive \subseteq used /\ used \subseteq Pools

Lists == nodes \in [Pools -> Seq(NodeType)] /\ \A p \in Pools : List(nodes[p])

\* Who waits in a queue is on a node of an existing pool.
Walking ==
  \A f \in Fusionees :
    \/ obj[f] = Nobody /\ at[f] = Nobody
    \/ obj[f] \in alive /\ at[f] \in Members(nodes[obj[f]])

World == live \subseteq Fusionees /\ killed \subseteq Fusionees

Here == \A p \in Pools : Members(nodes[p]) \subseteq live

IInv == Ids /\ World /\ Lists /\ Here /\ Walking /\ CallsOK /\ size \in [Pools -> Nat]

LEMMA IInvNoOrphan == IInv => NoOrphan
BY DEF IInv, Here, NoOrphan, Attached, Members

LEMMA IInvNodes == IInv => NodesOK
BY DEF IInv, World, Lists, List, NodeType, NodesOK

LEMMA NoNodes == List(<<>>) /\ Members(<<>>) = {}
BY DEF List, Members

LEMMA IInvInit == Init => IInv
<1> SUFFICES ASSUME Init PROVE IInv
  OBVIOUS
<1>1. Ids /\ World /\ size \in [Pools -> Nat] BY DEF Init, Ids, World
<1>2. Lists /\ Here BY NoNodes DEF Init, Lists, Here, List
<1>3. Walking BY DEF Init, Walking
<1>4. CallsOK BY DEF Init, CallsOK
<1> QED BY <1>1, <1>2, <1>3, <1>4 DEF IInv

\* The list of one pool changes; whoever somebody waits for stays on it.
LEMMA ListStep ==
  ASSUME IInv, NEW p \in Pools, NEW q, List(q), Members(q) \subseteq live,
         \A f \in Fusionees : obj[f] = p => at[f] \in Members(q),
         nodes' = [nodes EXCEPT ![p] = q], UNCHANGED <<obj, at, live, alive>>
  PROVE  Lists' /\ Here' /\ Walking'
<1>1. q \in Seq(NodeType) BY DEF List
<1>2. /\ nodes' \in [Pools -> Seq(NodeType)] /\ nodes'[p] = q
      /\ \A r \in Pools \ {p} : nodes'[r] = nodes[r]
  BY <1>1 DEF IInv, Lists
<1>3. Lists' BY <1>2 DEF IInv, Lists, List
<1>4. Here' BY <1>2 DEF IInv, Here, Members
<1>5. Walking'
  <2> SUFFICES ASSUME NEW f \in Fusionees
               PROVE  \/ obj'[f] = Nobody /\ at'[f] = Nobody
                      \/ obj'[f] \in alive' /\ at'[f] \in Members(nodes'[obj'[f]])
    BY DEF Walking, Members
  <2>1. CASE obj[f] = p BY <1>2, <2>1 DEF IInv, Walking
  <2>2. CASE obj[f] # p BY <1>2, <2>2 DEF IInv, Walking, Ids
  <2> QED BY <2>1, <2>2
<1> QED BY <1>3, <1>4, <1>5

LEMMA NewIInv ==
  ASSUME IInv, NEW f \in Fusionees, NEW p \in Pools, NEW m \in MaxSizes, New(f, p, m)
  PROVE  IInv'
<1>1. Ids' /\ World' /\ size' \in [Pools -> Nat] BY DEF New, IInv, Ids, World, world
<1>2. CallsOK' BY SMTT(20) DEF New, IInv, CallsOK, calls, Spend
<1>3. /\ nodes' \in [Pools -> Seq(NodeType)] /\ nodes'[p] = <<>>
      /\ \A r \in Pools \ {p} : nodes'[r] = nodes[r]
  BY NoNodes DEF New, IInv, Lists, List
<1>4. Lists'
  <2>1. \A r \in Pools \ {p} : List(nodes'[r]) BY <1>3 DEF IInv, Lists
  <2>2. List(nodes'[p]) BY <1>3, NoNodes
  <2>3. \A r \in Pools : List(nodes'[r]) BY <2>1, <2>2
  <2> QED BY <1>3, <2>3 DEF Lists, List
<1>5. Here' BY <1>3, NoNodes DEF New, IInv, Here, Members, world
<1>6. Walking'
  <2> SUFFICES ASSUME NEW g \in Fusionees
               PROVE  \/ obj'[g] = Nobody /\ at'[g] = Nobody
                      \/ obj'[g] \in alive' /\ at'[g] \in Members(nodes'[obj'[g]])
    BY DEF Walking, Members
  <2>1. obj' = obj /\ at' = at /\ alive' = alive \cup {p} /\ p \notin alive
    BY DEF New, calls, IInv, Ids
  <2> QED BY <1>3, <2>1 DEF IInv, Walking, Ids
<1> QED BY <1>1, <1>2, <1>4, <1>5, <1>6 DEF IInv

LEMMA DestroyIInv ==
  ASSUME IInv, NEW f \in Fusionees, NEW p \in Pools, Destroy(f, p)
  PROVE  IInv'
<1>1. /\ alive' = alive \ {p} /\ nodes' = [nodes EXCEPT ![p] = <<>>]
      /\ UNCHANGED <<used, size, obj, at, val, live, killed, told, cut, copies>>
      /\ \A g \in Fusionees : obj[g] # p
  BY DEF Destroy, Remove, Quiet, calls, world
<1>2. Ids' /\ World' /\ size' \in [Pools -> Nat] BY <1>1 DEF IInv, Ids, World
<1>3. CallsOK' BY <1>1 DEF Destroy, IInv, CallsOK, Spend
<1>4. /\ nodes' \in [Pools -> Seq(NodeType)] /\ nodes'[p] = <<>>
      /\ \A r \in Pools \ {p} : nodes'[r] = nodes[r]
  BY <1>1, NoNodes DEF IInv, Lists, List
<1>5. Lists'
  <2>1. \A r \in Pools \ {p} : List(nodes'[r]) BY <1>4 DEF IInv, Lists
  <2>2. List(nodes'[p]) BY <1>4, NoNodes
  <2>3. \A r \in Pools : List(nodes'[r]) BY <2>1, <2>2
  <2> QED BY <1>4, <2>3 DEF Lists, List
<1>6. Here' BY <1>1, <1>4, NoNodes DEF IInv, Here, Members
<1>7. Walking'
  <2> SUFFICES ASSUME NEW g \in Fusionees
               PROVE  \/ obj'[g] = Nobody /\ at'[g] = Nobody
                      \/ obj'[g] \in alive' /\ at'[g] \in Members(nodes'[obj'[g]])
    BY DEF Walking, Members
  <2> QED BY <1>1, <1>4 DEF IInv, Walking, Ids
<1> QED BY <1>2, <1>3, <1>5, <1>6, <1>7 DEF IInv

LEMMA AttachIInv ==
  ASSUME IInv, NEW f \in Fusionees, NEW p \in Pools, Attach(f, p)
  PROVE  IInv'
<1> DEFINE q == More(p, f)
<1>1. List(nodes[p]) /\ f \in live BY DEF Attach, InUser, IInv, Lists
<1>2. List(q) /\ Members(q) = Members(nodes[p]) \cup {f}
  <2>1. CASE f \in Members(nodes[p])
    <3> DEFINE i == Node(nodes[p], f)
    <3>1. i \in 1..Len(nodes[p]) BY <2>1, NodeFacts
    <3>2. nodes[p][i] \in NodeType BY <1>1, <3>1, ElementOfSeq DEF List
    <3>3. q = Counting(nodes[p], i, nodes[p][i].count + 1)
      BY <2>1, MembersAttached DEF More, Counting
    <3> HIDE DEF i, q
    <3>4. nodes[p][i].count + 1 \in Nat \ {0} BY <3>2 DEF NodeType
    <3>5. List(q) /\ Members(q) = Members(nodes[p]) BY <1>1, <3>1, <3>3, <3>4, CountFacts
    <3> QED BY <2>1, <3>5
  <2>2. CASE f \notin Members(nodes[p])
    <3>1. q = <<[fusion_id |-> f, count |-> 1]>> \o nodes[p] BY <2>2, MembersAttached DEF More
    <3> HIDE DEF q
    <3> QED BY <1>1, <2>2, <3>1, FrontFacts
  <2> QED BY <2>1, <2>2
<1>3. nodes' = [nodes EXCEPT ![p] = q] /\ UNCHANGED <<obj, at, live, alive>>
  BY DEF Attach, space, calls, world
<1> HIDE DEF q
<1>4. Lists' /\ Here' /\ Walking'
  <2>1. Members(q) \subseteq live BY <1>1, <1>2 DEF IInv, Here
  <2>2. \A g \in Fusionees : obj[g] = p => at[g] \in Members(q)
    BY <1>2 DEF IInv, Walking
  <2> QED BY <1>2, <1>3, <2>1, <2>2, ListStep
<1>5. told' \in [Pools -> [Fusionees -> Nat]]
  <2>1. size[p] \in Nat /\ told \in [Pools -> [Fusionees -> Nat]] BY DEF IInv, CallsOK
  <2>2. told' = [told EXCEPT ![p] = [told[p] EXCEPT ![f] = size[p]]] BY <2>1 DEF Attach
  <2>3. [told[p] EXCEPT ![f] = size[p]] \in [Fusionees -> Nat] BY <2>1
  <2> QED BY <2>1, <2>2, <2>3
<1>6. CallsOK'
  <2>1. copies' \in [Pools -> SUBSET Fusionees] BY DEF Attach, IInv, CallsOK
  <2> QED BY <1>5, <2>1 DEF Attach, IInv, CallsOK, calls, Spend
<1>7. Ids' /\ World' /\ size' \in [Pools -> Nat]
  BY DEF Attach, IInv, Ids, World, space, world
<1> QED BY <1>4, <1>6, <1>7 DEF IInv

LEMMA DetachIInv ==
  ASSUME IInv, NEW f \in Fusionees, NEW p \in Pools, Detach(f, p)
  PROVE  IInv'
<1> DEFINE q == Less(p, f)
           i == Node(nodes[p], f)
<1>1. List(nodes[p]) /\ f \in Members(nodes[p]) /\ \A g \in Fusionees : at[g] # f
  BY MembersAttached DEF Detach, Still, IInv, Lists
<1>2. i \in 1..Len(nodes[p]) /\ nodes[p][i].fusion_id = f BY <1>1, NodeFacts
<1>3. List(q) /\ Members(nodes[p]) \ {f} \subseteq Members(q) /\ Members(q) \subseteq Members(nodes[p])
  <2>1. CASE nodes[p][i].count = 1
    <3>1. q = Drop(nodes[p], i) BY <2>1 DEF Less
    <3> HIDE DEF q, i
    <3> QED BY <1>1, <1>2, <3>1, DropFacts
  <2>2. CASE nodes[p][i].count # 1
    <3> DEFINE n == nodes[p][i].count - 1
    <3>1. q = Counting(nodes[p], i, n) BY <2>2 DEF Less, Counting
    <3> HIDE DEF q, i
    <3>2. nodes[p][i] \in NodeType BY <1>1, <1>2, ElementOfSeq DEF List
    <3>3. n \in Nat \ {0} BY <2>2, <3>2 DEF NodeType
    <3> HIDE DEF n
    <3>4. List(q) /\ Members(q) = Members(nodes[p]) BY <1>1, <1>2, <3>1, <3>3, CountFacts
    <3> QED BY <3>4
  <2> QED BY <2>1, <2>2
<1>4. nodes' = [nodes EXCEPT ![p] = q] /\ UNCHANGED <<obj, at, live, alive>>
  BY DEF Detach, space, calls, world
<1> HIDE DEF q, i
<1>5. Lists' /\ Here' /\ Walking'
  <2>1. Members(q) \subseteq live BY <1>3 DEF IInv, Here
  <2>2. \A g \in Fusionees : obj[g] = p => at[g] \in Members(q)
    BY <1>1, <1>3 DEF IInv, Walking
  <2> QED BY <1>3, <1>4, <2>1, <2>2, ListStep
<1>6. CallsOK' BY DEF Detach, IInv, CallsOK, calls, Spend
<1>7. Ids' /\ World' /\ size' \in [Pools -> Nat]
  BY DEF Detach, IInv, Ids, World, space, world
<1> QED BY <1>5, <1>6, <1>7 DEF IInv

LEMMA ForkIInv ==
  ASSUME IInv, NEW f \in Fusionees, NEW g \in Fusionees, Fork(f, g)
  PROVE  IInv'
<1>1. /\ f \in live /\ \A p \in Pools : f \notin Members(nodes[p])
      /\ UNCHANGED <<alive, used, size, obj, at, val, live, killed, cut>>
  BY MembersAttached DEF Fork, InUser, space, calls, world
<1>2. ASSUME NEW p \in Pools
      PROVE  /\ nodes'[p] = Copied(p, f, g) /\ List(Copied(p, f, g))
             /\ Members(nodes[p]) \subseteq Members(Copied(p, f, g))
             /\ Members(Copied(p, f, g)) \subseteq live
  <2>1. nodes'[p] = Copied(p, f, g) BY DEF Fork
  <2>2. List(nodes[p]) /\ Members(nodes[p]) \subseteq live BY DEF IInv, Lists, Here
  <2>3. CASE g \notin Members(nodes[p])
    <3>1. Copied(p, f, g) = nodes[p] BY <2>3, MembersAttached DEF Copied
    <3> QED BY <2>1, <2>2, <3>1
  <2>4. CASE g \in Members(nodes[p])
    <3> DEFINE i == Node(nodes[p], g)
               n == nodes[p][i].count
    <3>1. i \in 1..Len(nodes[p]) BY <2>4, NodeFacts
    <3>2. Copied(p, f, g) = <<[fusion_id |-> f, count |-> n]>> \o nodes[p]
      BY <2>4, MembersAttached DEF Copied
    <3> HIDE DEF i
    <3>3. nodes[p][i] \in NodeType BY <2>2, <3>1, ElementOfSeq DEF List
    <3>4. n \in Nat \ {0} BY <3>3 DEF NodeType
    <3> HIDE DEF n
    <3>5. /\ List(Copied(p, f, g))
          /\ Members(Copied(p, f, g)) = Members(nodes[p]) \cup {f}
      BY <1>1, <2>2, <3>2, <3>4, FrontFacts
    <3> QED BY <1>1, <2>1, <2>2, <3>5
  <2> QED BY <2>3, <2>4
<1>3. Lists'
  <2>1. nodes' = [p \in Pools |-> Copied(p, f, g)] BY DEF Fork
  <2>2. \A p \in Pools : Copied(p, f, g) \in Seq(NodeType) BY <1>2 DEF List
  <2> QED BY <1>2, <2>1, <2>2, SMTT(20) DEF Lists, List
<1>4. Here' BY <1>1, <1>2 DEF Here, Members
<1>5. Walking'
  <2> SUFFICES ASSUME NEW h \in Fusionees
               PROVE  \/ obj'[h] = Nobody /\ at'[h] = Nobody
                      \/ obj'[h] \in alive' /\ at'[h] \in Members(nodes'[obj'[h]])
    BY DEF Walking, Members
  <2> QED BY <1>1, <1>2 DEF IInv, Walking, Ids
<1>6. told' \in [Pools -> [Fusionees -> Nat]]
  <2>1. told \in [Pools -> [Fusionees -> Nat]] BY DEF IInv, CallsOK
  <2>2. \A p \in Pools : [told[p] EXCEPT ![f] = told[p][g]] \in [Fusionees -> Nat] BY <2>1
  <2> QED BY <2>2 DEF Fork
<1>7. CallsOK'
  <2>1. copies' \in [Pools -> SUBSET Fusionees] BY DEF Fork, IInv, CallsOK
  <2> QED BY <1>1, <1>6, <2>1 DEF Fork, IInv, CallsOK, Spend
<1>8. Ids' /\ World' /\ size' \in [Pools -> Nat] BY <1>1 DEF IInv, Ids, World
<1> QED BY <1>3, <1>4, <1>5, <1>7, <1>8 DEF IInv

LEMMA TellType ==
  ASSUME told \in [Pools -> [Fusionees -> Nat]], NEW p \in Pools, NEW s \in Nat, NEW fs,
         Tell(p, fs, s)
  PROVE  told' \in [Pools -> [Fusionees -> Nat]]
<1> DEFINE t == [g \in Fusionees |-> IF g \in fs THEN s ELSE told[p][g]]
<1>1. t \in [Fusionees -> Nat] OBVIOUS
<1>2. told' = [told EXCEPT ![p] = t] BY DEF Tell
<1> HIDE DEF t
<1> QED BY <1>1, <1>2

\* A walk ends, or waits in the queue of somebody on the list.
LEMMA WalkStep ==
  ASSUME IInv, NEW f \in Fusionees, NEW p \in alive, NEW s \in Nat, NEW i \in Nat \ {0},
         Walk(f, p, s, i), UNCHANGED <<nodes, alive, used, live, killed>>
  PROVE  /\ Lists' /\ Here' /\ Walking' /\ Ids' /\ World'
         /\ told' \in [Pools -> [Fusionees -> Nat]]
         /\ obj' \in [Fusionees -> Pools \cup {Nobody}]
         /\ at' \in [Fusionees -> Fusionees \cup {Nobody}] /\ val' \in [Fusionees -> Nat]
<1>1. p \in Pools /\ List(nodes[p]) /\ told \in [Pools -> [Fusionees -> Nat]]
  BY DEF IInv, Ids, Lists, CallsOK
<1>2. told' \in [Pools -> [Fusionees -> Nat]] BY <1>1, TellType DEF Walk
<1>3. \/ Return(f)
      \/ \E g \in Members(nodes[p]) : Sleep(f, p, g, s)
  <2>1. CASE Return(f) BY <2>1
  <2>2. CASE \E k \in i..Len(nodes[p]) : Sleep(f, p, nodes[p][k].fusion_id, s)
    <3>1. PICK k \in i..Len(nodes[p]) : Sleep(f, p, nodes[p][k].fusion_id, s) BY <2>2
    <3>2. Len(nodes[p]) \in Nat BY <1>1, LenProperties DEF List
    <3>3. k \in 1..Len(nodes[p]) BY <3>1, <3>2
    <3>4. nodes[p][k].fusion_id \in Members(nodes[p]) BY <3>3 DEF Members
    <3> QED BY <3>1, <3>4
  <2> QED BY <2>1, <2>2 DEF Walk
<1>4. \E o \in Pools \cup {Nobody}, a \in Fusionees \cup {Nobody}, v \in Nat :
         /\ Sleep(f, o, a, v)
         /\ \/ o = Nobody /\ a = Nobody
            \/ o \in alive /\ a \in Members(nodes[o])
  <2>1. CASE Return(f) BY <2>1 DEF Return
  <2>2. CASE \E g \in Members(nodes[p]) : Sleep(f, p, g, s)
    <3>1. Members(nodes[p]) \subseteq Fusionees BY <1>1 DEF IInv, Here, World
    <3> QED BY <1>1, <2>2, <3>1
  <2> QED BY <1>3, <2>1, <2>2
<1>5. PICK o \in Pools \cup {Nobody}, a \in Fusionees \cup {Nobody}, v \in Nat :
         /\ obj' = [obj EXCEPT ![f] = o] /\ at' = [at EXCEPT ![f] = a]
         /\ val' = [val EXCEPT ![f] = v]
         /\ \/ o = Nobody /\ a = Nobody
            \/ o \in alive /\ a \in Members(nodes[o])
  BY <1>4 DEF Sleep
<1>6. /\ obj' \in [Fusionees -> Pools \cup {Nobody}]
      /\ at' \in [Fusionees -> Fusionees \cup {Nobody}] /\ val' \in [Fusionees -> Nat]
  BY <1>5 DEF IInv, CallsOK
<1>7. Walking'
  <2> SUFFICES ASSUME NEW h \in Fusionees
               PROVE  \/ obj'[h] = Nobody /\ at'[h] = Nobody
                      \/ obj'[h] \in alive' /\ at'[h] \in Members(nodes'[obj'[h]])
    BY DEF Walking, Members
  <2>1. CASE h = f
    <3>1. obj'[f] = o /\ at'[f] = a BY <1>5 DEF IInv, CallsOK
    <3> QED BY <1>5, <2>1, <3>1
  <2>2. CASE h # f
    <3>1. obj'[h] = obj[h] /\ at'[h] = at[h] BY <1>5, <2>2 DEF IInv, CallsOK
    <3> QED BY <3>1 DEF IInv, Walking
  <2> QED BY <2>1, <2>2
<1>8. Lists' BY DEF IInv, Lists, List
<1>9. Here' BY DEF IInv, Here, Members
<1>10. Ids' /\ World' BY DEF IInv, Ids, World
<1> QED BY <1>2, <1>6, <1>7, <1>8, <1>9, <1>10

LEMMA DispatchIInv ==
  ASSUME IInv, NEW f \in Fusionees, NEW p \in Pools, NEW s \in Sizes, Dispatch(f, p, s)
  PROVE  IInv'
<1>1. s \in Nat BY SHMPoolAssumption
<1>2. /\ p \in alive /\ Walk(f, p, s, 1) /\ UNCHANGED <<nodes, alive, used, live, killed>>
      /\ size' = [size EXCEPT ![p] = s] /\ cut' = cut \ {p} /\ Spend(f)
      /\ copies' = [copies EXCEPT ![p] = {}]
  BY DEF Dispatch, space, world
<1>3. size' \in [Pools -> Nat] BY <1>1, <1>2 DEF IInv
<1>4. /\ Lists' /\ Here' /\ Walking' /\ Ids' /\ World'
      /\ told' \in [Pools -> [Fusionees -> Nat]]
      /\ obj' \in [Fusionees -> Pools \cup {Nobody}]
      /\ at' \in [Fusionees -> Fusionees \cup {Nobody}] /\ val' \in [Fusionees -> Nat]
  BY <1>1, <1>2, WalkStep
<1>5. ops' \in [Fusionees -> Nat] BY <1>2 DEF IInv, CallsOK, Spend
<1>6. cut' \subseteq Pools /\ copies' \in [Pools -> SUBSET Fusionees] BY <1>2 DEF IInv, CallsOK
<1>7. CallsOK' BY <1>4, <1>5, <1>6 DEF CallsOK
<1> QED BY <1>3, <1>4, <1>7 DEF IInv

\* Who sleeps in a dispatch has a place in the list of an existing pool.
LEMMA SleeperFacts ==
  ASSUME IInv, NEW f \in Fusionees, obj[f] # Nobody
  PROVE  /\ obj[f] \in alive /\ obj[f] \in Pools /\ val[f] \in Nat
         /\ Position(f) \in 1..Len(nodes[obj[f]])
<1>1. obj[f] \in alive /\ at[f] \in Members(nodes[obj[f]]) BY DEF IInv, Walking
<1>2. Position(f) \in 1..Len(nodes[obj[f]]) BY <1>1, NodeFacts DEF Position
<1> QED BY <1>1, <1>2 DEF IInv, Ids, CallsOK

LEMMA ResumeIInv ==
  ASSUME IInv, NEW f \in Fusionees, Resume(f)
  PROVE  IInv'
<1>1. /\ obj[f] # Nobody /\ Walk(f, obj[f], val[f], Position(f))
      /\ UNCHANGED <<nodes, alive, used, live, killed, size, ops, cut, copies>>
  BY DEF Resume, space, world
<1>2. obj[f] \in alive /\ val[f] \in Nat /\ Position(f) \in Nat \ {0}
  BY <1>1, SleeperFacts
<1>3. /\ Lists' /\ Here' /\ Walking' /\ Ids' /\ World'
      /\ told' \in [Pools -> [Fusionees -> Nat]]
      /\ obj' \in [Fusionees -> Pools \cup {Nobody}]
      /\ at' \in [Fusionees -> Fusionees \cup {Nobody}] /\ val' \in [Fusionees -> Nat]
  BY <1>1, <1>2, WalkStep
<1>4. CallsOK' BY <1>1, <1>3 DEF IInv, CallsOK
<1> QED BY <1>1, <1>3, <1>4 DEF IInv

LEMMA InterruptIInv ==
  ASSUME IInv, NEW f \in Fusionees, Interrupt(f)
  PROVE  IInv'
<1>1. obj[f] \in Pools /\ val[f] \in Nat BY SleeperFacts DEF Interrupt
<1>2. told' \in [Pools -> [Fusionees -> Nat]]
  <2>1. told \in [Pools -> [Fusionees -> Nat]] BY DEF IInv, CallsOK
  <2>2. \E fs : Tell(obj[f], fs, val[f]) BY DEF Interrupt
  <2> QED BY <1>1, <2>1, <2>2, TellType
<1>3. /\ obj' = [obj EXCEPT ![f] = Nobody] /\ at' = [at EXCEPT ![f] = Nobody]
      /\ val' = [val EXCEPT ![f] = 0] /\ cut' = cut \cup {obj[f]}
      /\ UNCHANGED <<nodes, alive, used, live, killed, size, ops, copies>>
  BY DEF Interrupt, Return, Sleep, space, world
<1>4. CallsOK' BY <1>1, <1>2, <1>3 DEF IInv, CallsOK
<1>5. Walking'
  <2> SUFFICES ASSUME NEW h \in Fusionees
               PROVE  \/ obj'[h] = Nobody /\ at'[h] = Nobody
                      \/ obj'[h] \in alive' /\ at'[h] \in Members(nodes'[obj'[h]])
    BY DEF Walking, Members
  <2>1. CASE h = f BY <1>3, <2>1 DEF IInv, CallsOK
  <2>2. CASE h # f BY <1>3, <2>2 DEF IInv, CallsOK, Walking
  <2> QED BY <2>1, <2>2
<1>6. Lists' /\ Here' /\ Ids' /\ World' /\ size' \in [Pools -> Nat]
  BY <1>3 DEF IInv, Lists, List, Here, Members, Ids, World
<1> QED BY <1>4, <1>5, <1>6 DEF IInv

LEMMA ReleaseIInv ==
  ASSUME IInv, NEW f \in Fusionees, Release(f)
  PROVE  IInv'
<1>1. /\ live' = live \ {f} /\ UNCHANGED <<alive, used, size, obj, at, val, killed, ops, told, cut, copies>>
      /\ \A g \in Fusionees : at[g] # f
  BY DEF Release, Still, space, calls
<1>2. ASSUME NEW p \in Pools
      PROVE  /\ nodes'[p] = Without(p, f) /\ List(Without(p, f))
             /\ Members(Without(p, f)) = Members(nodes[p]) \ {f}
  <2>1. nodes'[p] = Without(p, f) /\ List(nodes[p]) BY DEF Release, IInv, Lists
  <2>2. CASE f \notin Members(nodes[p])
    <3>1. Without(p, f) = nodes[p] BY <2>2, MembersAttached DEF Without
    <3> QED BY <2>1, <2>2, <3>1
  <2>3. CASE f \in Members(nodes[p])
    <3> DEFINE i == Node(nodes[p], f)
    <3>1. i \in 1..Len(nodes[p]) /\ nodes[p][i].fusion_id = f BY <2>3, NodeFacts
    <3>2. Without(p, f) = Drop(nodes[p], i) BY <2>3, MembersAttached DEF Without
    <3> HIDE DEF i
    <3> QED BY <2>1, <3>1, <3>2, DropFacts
  <2> QED BY <2>2, <2>3
<1>3. Lists'
  <2>1. nodes' = [p \in Pools |-> Without(p, f)] BY DEF Release
  <2>2. \A p \in Pools : Without(p, f) \in Seq(NodeType) BY <1>2 DEF List
  <2> QED BY <1>2, <2>1, <2>2 DEF Lists, List
<1>4. Here'
  <2> SUFFICES ASSUME NEW p \in Pools PROVE Members(nodes'[p]) \subseteq live'
    BY DEF Here, Members
  <2> QED BY <1>1, <1>2 DEF IInv, Here
<1>5. Walking'
  <2> SUFFICES ASSUME NEW h \in Fusionees
               PROVE  \/ obj'[h] = Nobody /\ at'[h] = Nobody
                      \/ obj'[h] \in alive' /\ at'[h] \in Members(nodes'[obj'[h]])
    BY DEF Walking, Members
  <2> QED BY <1>1, <1>2 DEF IInv, Walking, Ids
<1>6. CallsOK' BY <1>1 DEF IInv, CallsOK
<1>7. Ids' /\ World' /\ size' \in [Pools -> Nat] BY <1>1 DEF IInv, Ids, World
<1> QED BY <1>3, <1>4, <1>5, <1>6, <1>7 DEF IInv

\* Lists, sleepers and the world stay, but for who is dying.
LEMMA SameIInv ==
  ASSUME IInv, killed' \subseteq Fusionees,
         UNCHANGED <<nodes, alive, used, size, obj, at, val, live, ops, told, cut, copies>>
  PROVE  IInv'
<1>1. Ids' /\ World' /\ size' \in [Pools -> Nat] BY DEF IInv, Ids, World
<1>2. Lists' BY DEF IInv, Lists, List
<1>3. Here' BY DEF IInv, Here, Members
<1>4. Walking' BY DEF IInv, Walking, Members
<1>5. CallsOK' BY DEF IInv, CallsOK
<1> QED BY <1>1, <1>2, <1>3, <1>4, <1>5 DEF IInv

LEMMA KillIInv ==
  ASSUME IInv, NEW f \in Fusionees, Kill(f)
  PROVE  IInv'
<1>1. /\ killed' = killed \cup {f}
      /\ UNCHANGED <<nodes, alive, used, size, obj, at, val, live, ops, told, cut, copies>>
  BY DEF Kill, space, calls
<1>2. killed' \subseteq Fusionees BY <1>1 DEF IInv, World
<1> QED BY <1>1, <1>2, SameIInv

LEMMA StutterIInv ==
  ASSUME IInv, UNCHANGED vars
  PROVE  IInv'
<1>1. killed' \subseteq Fusionees BY DEF vars, world, IInv, World
<1>2. UNCHANGED <<nodes, alive, used, size, obj, at, val, live, ops, told, cut, copies>>
  BY DEF vars, space, calls, world
<1> QED BY <1>1, <1>2, SameIInv

LEMMA NextIInv == IInv /\ [Next]_vars => IInv'
<1> SUFFICES ASSUME IInv, [Next]_vars PROVE IInv'
  OBVIOUS
<1>1. ASSUME NEW f \in Fusionees, NEW p \in Pools, NEW m \in MaxSizes, New(f, p, m) PROVE IInv'
  BY <1>1, NewIInv
<1>2. ASSUME NEW f \in Fusionees, NEW p \in Pools, Destroy(f, p) PROVE IInv'
  BY <1>2, DestroyIInv
<1>3. ASSUME NEW f \in Fusionees, NEW p \in Pools, Attach(f, p) PROVE IInv'
  BY <1>3, AttachIInv
<1>4. ASSUME NEW f \in Fusionees, NEW p \in Pools, Detach(f, p) PROVE IInv'
  BY <1>4, DetachIInv
<1>5. ASSUME NEW f \in Fusionees, NEW p \in Pools, NEW s \in Sizes, Dispatch(f, p, s) PROVE IInv'
  BY <1>5, DispatchIInv
<1>6. ASSUME NEW f \in Fusionees, NEW g \in Fusionees, Fork(f, g) PROVE IInv'
  BY <1>6, ForkIInv
<1>7. ASSUME NEW f \in Fusionees, Resume(f) PROVE IInv' BY <1>7, ResumeIInv
<1>8. ASSUME NEW f \in Fusionees, Interrupt(f) PROVE IInv' BY <1>8, InterruptIInv
<1>9. ASSUME NEW f \in Fusionees, Kill(f) PROVE IInv' BY <1>9, KillIInv
<1>10. ASSUME NEW f \in Fusionees, Release(f) PROVE IInv' BY <1>10, ReleaseIInv
<1>11. CASE UNCHANGED vars BY <1>11, StutterIInv
<1> QED
  BY <1>1, <1>2, <1>3, <1>4, <1>5, <1>6, <1>7, <1>8, <1>9, <1>10, <1>11 DEF Next

\* The variables keep the types of the C fields, and a fusionee has one node of a
\* pool, as get_node assumes.
THEOREM TypeCorrect ==
  ASSUME NoWrap
  PROVE  Spec => []TypeOK
<1>1. Init => Space /\ IInv BY SpaceInit, IInvInit
<1>2. (Space /\ IInv) /\ [Next]_vars => (Space /\ IInv)' BY SpaceNext, NextIInv
<1>3. Space /\ IInv => TypeOK BY IInvNodes DEF Space, IInv, TypeOK
<1> QED BY <1>1, <1>2, <1>3, PTL DEF Spec

\* A fusionee that was released is on the list of no pool: what shmpool.c sends
\* to a list finds its fusionee.
THEOREM NoOrphans == Spec => []NoOrphan
<1> QED BY IInvInit, NextIInv, IInvNoOrphan, PTL DEF Spec

-----------------------------------------------------------------------------
(* Who has heard of a size *)

\* The fusionees on nodes before that of a.
Before(q, a) ==
  {q[j].fusion_id : j \in {i \in 1..Len(q) : \E k \in 1..Len(q) : i < k /\ q[k].fusion_id = a}}

LEMMA BeforeDropped ==
  ASSUME NEW q, List(q), NEW i \in 1..Len(q), NEW a
  PROVE  Before(Drop(q, i), a) \subseteq Before(q, a)
<1> DEFINE d == Drop(q, i)
           up(n) == IF n < i THEN n ELSE n + 1
<1>0. Len(q) \in Nat BY LenProperties DEF List
<1>1. Len(d) = Len(q) - 1 /\ \A j \in 1..Len(d) : d[j] = q[up(j)] BY DropNodes
<1> HIDE DEF d
<1> SUFFICES ASSUME NEW g \in Before(d, a) PROVE g \in Before(q, a)
  BY DEF d
<1>2. PICK j \in 1..Len(d), k \in 1..Len(d) : j < k /\ d[j].fusion_id = g /\ d[k].fusion_id = a
  BY DEF Before
<1>3. up(j) \in 1..Len(q) /\ up(k) \in 1..Len(q) /\ up(j) < up(k) BY <1>0, <1>1, <1>2
<1>4. q[up(j)].fusion_id = g /\ q[up(k)].fusion_id = a BY <1>1, <1>2
<1> HIDE DEF up
<1> QED BY <1>3, <1>4 DEF Before

LEMMA BeforeFront ==
  ASSUME NEW q, List(q), NEW f \in Fusionees, NEW n \in Nat \ {0}, NEW a
  PROVE  Before(<<[fusion_id |-> f, count |-> n]>> \o q, a) \subseteq Before(q, a) \cup {f}
<1> DEFINE r == <<[fusion_id |-> f, count |-> n]>> \o q
<1>0. Len(q) \in Nat BY LenProperties DEF List
<1>1. /\ Len(r) = Len(q) + 1 /\ r[1].fusion_id = f
      /\ \A j \in 2..Len(r) : r[j] = q[j - 1]
  BY FrontNodes
<1> HIDE DEF r
<1> SUFFICES ASSUME NEW g \in Before(r, a) PROVE g \in Before(q, a) \cup {f}
  BY DEF r
<1>2. PICK j \in 1..Len(r), k \in 1..Len(r) : j < k /\ r[j].fusion_id = g /\ r[k].fusion_id = a
  BY DEF Before
<1>3. CASE j = 1 BY <1>1, <1>2, <1>3
<1>4. CASE j # 1
  <2>1. j \in 2..Len(r) /\ k \in 2..Len(r) BY <1>0, <1>1, <1>2, <1>4
  <2>2. q[j - 1].fusion_id = g /\ q[k - 1].fusion_id = a BY <1>1, <1>2, <2>1
  <2>3. j - 1 \in 1..Len(q) /\ k - 1 \in 1..Len(q) /\ j - 1 < k - 1 BY <1>0, <1>1, <1>2, <2>1
  <2> QED BY <2>2, <2>3 DEF Before
<1> QED BY <1>3, <1>4

LEMMA BeforeCount ==
  ASSUME NEW q, List(q), NEW i \in 1..Len(q), NEW n \in Nat \ {0}, NEW a
  PROVE  Before(Counting(q, i, n), a) = Before(q, a)
<1> DEFINE r == Counting(q, i, n)
<1>1. Len(r) = Len(q) /\ \A j \in 1..Len(q) : r[j].fusion_id = q[j].fusion_id BY CountNodes
<1> HIDE DEF r
<1>2. Before(r, a) = Before(q, a) BY <1>1, ZenonT(30) DEF Before
<1> QED BY <1>2 DEF r

\* What can be said of g and the pool p.
Knows(p, g) == told[p][g] = size[p] \/ g \in copies[p]

\* One thread at most dispatches p, with its size; those before its place in the list
\* know the size; so do all who are attached when nobody dispatches p.
PoolInformed(p) ==
  /\ \A f, g \in Fusionees : obj[f] = p /\ obj[g] = p => f = g
  /\ \A f \in Fusionees : obj[f] = p =>
       val[f] = size[p] /\ \A g \in Before(nodes[p], at[f]) : Knows(p, g)
  /\ Quiet(p) /\ p \notin cut => \A g \in Members(nodes[p]) : Knows(p, g)

AllPools == \A p \in alive : PoolInformed(p)

InformInv == IInv /\ AllPools

\* Nothing happens to the pool p but what keeps everybody informed.
LEMMA PoolKept ==
  ASSUME NEW p \in Pools, PoolInformed(p),
         \A f \in Fusionees :
           /\ obj'[f] = p <=> obj[f] = p
           /\ obj[f] = p => val'[f] = val[f] /\ at'[f] = at[f],
         size'[p] = size[p], p \in cut => p \in cut',
         \A g \in Members(nodes[p]) : Knows(p, g) => Knows(p, g)',
         \A g \in Members(nodes'[p]) \ Members(nodes[p]) : Knows(p, g)',
         \A f \in Fusionees : obj[f] = p =>
           \A g \in Before(nodes'[p], at[f]) : g \in Before(nodes[p], at[f]) \/ Knows(p, g)'
  PROVE  PoolInformed(p)'
<1>1. \A f, g \in Fusionees : obj'[f] = p /\ obj'[g] = p => f = g BY DEF PoolInformed
<1>2. ASSUME NEW f \in Fusionees, obj'[f] = p
      PROVE  val'[f] = size'[p] /\ \A g \in Before(nodes'[p], at'[f]) : Knows(p, g)'
  <2>1. obj[f] = p /\ at'[f] = at[f] BY <1>2
  <2>2. \A g \in Before(nodes[p], at[f]) : Knows(p, g)'
    <3>1. \A g \in Before(nodes[p], at[f]) : Knows(p, g) BY <2>1 DEF PoolInformed
    <3>2. Before(nodes[p], at[f]) \subseteq Members(nodes[p]) BY DEF Before, Members
    <3> QED BY <3>1, <3>2
  <2>3. val'[f] = size'[p] BY <2>1 DEF PoolInformed
  <2> QED BY <2>1, <2>2, <2>3
<1>3. ASSUME Quiet(p)', p \notin cut', NEW g \in Members(nodes'[p]) PROVE Knows(p, g)'
  <2>1. Quiet(p) /\ p \notin cut BY <1>3 DEF Quiet
  <2> QED BY <2>1 DEF PoolInformed
<1> QED BY <1>1, <1>2, <1>3 DEF PoolInformed, Members, Before

\* The simplest case: the pool, its threads and what was told stay.
LEMMA PoolSame ==
  ASSUME NEW p \in Pools, PoolInformed(p), UNCHANGED <<obj, at, val>>,
         nodes'[p] = nodes[p], told'[p] = told[p], size'[p] = size[p], p \in cut => p \in cut',
         copies'[p] = copies[p]
  PROVE  PoolInformed(p)'
BY DEF PoolInformed, Quiet, Before, Members, Knows

LEMMA ListMembers ==
  ASSUME IInv, NEW p \in Pools
  PROVE  List(nodes[p]) /\ Members(nodes[p]) \subseteq Fusionees
BY DEF IInv, Lists, Here, World

LEMMA NewInformed ==
  ASSUME IInv, AllPools, NEW f \in Fusionees, NEW p \in Pools, NEW m \in MaxSizes, New(f, p, m)
  PROVE  AllPools'
<1>1. /\ alive' = alive \cup {p} /\ p \notin alive /\ UNCHANGED <<obj, at, val, told, cut, copies>>
      /\ nodes' = [nodes EXCEPT ![p] = <<>>] /\ size' = [size EXCEPT ![p] = 0]
  BY DEF New, calls, IInv, Ids
<1>2. ASSUME NEW q \in alive PROVE PoolInformed(q)'
  <2>1. q \in Pools /\ q # p /\ PoolInformed(q) BY <1>1 DEF IInv, Ids, AllPools
  <2>2. nodes'[q] = nodes[q] /\ size'[q] = size[q] BY <1>1, <2>1 DEF IInv, Lists
  <2> QED BY <1>1, <2>1, <2>2, PoolSame
<1>3. PoolInformed(p)'
  <2>1. nodes'[p] = <<>> BY <1>1 DEF IInv, Lists
  <2>2. \A g \in Fusionees : obj'[g] # p BY <1>1 DEF IInv, Walking
  <2>3. Members(nodes'[p]) = {} BY <2>1, NoNodes
  <2> QED BY <2>2, <2>3 DEF PoolInformed, Members, Before
<1> QED BY <1>1, <1>2, <1>3 DEF AllPools

LEMMA DestroyInformed ==
  ASSUME IInv, AllPools, NEW f \in Fusionees, NEW p \in Pools, Destroy(f, p)
  PROVE  AllPools'
<1>1. /\ alive' = alive \ {p} /\ UNCHANGED <<obj, at, val, told, cut, copies, size>>
      /\ nodes' = [nodes EXCEPT ![p] = <<>>]
  BY DEF Destroy, Remove, calls
<1>2. ASSUME NEW q \in alive \ {p} PROVE PoolInformed(q)'
  <2>1. q \in Pools /\ PoolInformed(q) BY DEF IInv, Ids, AllPools
  <2>2. nodes'[q] = nodes[q] BY <1>1, <2>1 DEF IInv, Lists
  <2> QED BY <1>1, <2>1, <2>2, PoolSame
<1> QED BY <1>1, <1>2 DEF AllPools

\* The list of p gets the nodes q, which says nothing new of who knows the size
\* but of f.
LEMMA ListInformed ==
  ASSUME IInv, AllPools, NEW f \in Fusionees, NEW p \in alive, NEW q,
         nodes' = [nodes EXCEPT ![p] = q], List(q),
         Members(q) \subseteq Members(nodes[p]) \cup {f},
         \A a : Before(q, a) \subseteq Before(nodes[p], a) \cup {f},
         \/ told' = [told EXCEPT ![p][f] = size[p]] /\ copies' = [copies EXCEPT ![p] = @ \ {f}]
         \/ UNCHANGED <<told, copies>> /\ Members(q) \subseteq Members(nodes[p])
                         /\ \A a : Before(q, a) \subseteq Before(nodes[p], a),
         UNCHANGED <<alive, obj, at, val, size, cut>>
  PROVE  AllPools'
<1>0. /\ p \in Pools /\ told \in [Pools -> [Fusionees -> Nat]] /\ nodes \in [Pools -> Seq(NodeType)]
      /\ copies \in [Pools -> SUBSET Fusionees]
  BY DEF IInv, Ids, CallsOK, Lists
<1>1. ASSUME NEW r \in alive \ {p} PROVE PoolInformed(r)'
  <2>1. r \in Pools /\ PoolInformed(r) BY DEF IInv, Ids, AllPools
  <2>2. nodes'[r] = nodes[r] /\ told'[r] = told[r] /\ copies'[r] = copies[r] BY <1>0, <2>1
  <2> QED BY <2>1, <2>2, PoolSame
<1>2. PoolInformed(p)'
  <2>1. nodes'[p] = q /\ PoolInformed(p) BY <1>0 DEF AllPools
  <2>2. Members(nodes[p]) \subseteq Fusionees BY <1>0, ListMembers
  <2>3. CASE told' = [told EXCEPT ![p][f] = size[p]] /\ copies' = [copies EXCEPT ![p] = @ \ {f}]
    <3>1. told'[p] = [told[p] EXCEPT ![f] = size[p]] /\ copies'[p] = copies[p] \ {f}
      BY <1>0, <2>3
    <3>2. Knows(p, f)' BY <1>0, <3>1 DEF Knows
    <3>3. \A g \in Members(nodes[p]) : Knows(p, g) => Knows(p, g)'
      BY <1>0, <2>2, <3>1, <3>2 DEF Knows
    <3>4. \A g \in Members(nodes'[p]) \ Members(nodes[p]) : Knows(p, g)'
      BY <2>1, <3>2
    <3>5. \A h \in Fusionees : \A g \in Before(nodes'[p], at[h]) :
            g \in Before(nodes[p], at[h]) \/ Knows(p, g)'
      BY <2>1, <3>2
    <3> QED BY <1>0, <2>1, <3>3, <3>4, <3>5, PoolKept
  <2>4. CASE UNCHANGED <<told, copies>> /\ Members(q) \subseteq Members(nodes[p])
                          /\ \A a : Before(q, a) \subseteq Before(nodes[p], a)
    <3>1. Members(nodes'[p]) \ Members(nodes[p]) = {} BY <2>1, <2>4
    <3>2. \A h \in Fusionees : \A g \in Before(nodes'[p], at[h]) : g \in Before(nodes[p], at[h])
      BY <2>1, <2>4
    <3>3. \A g \in Members(nodes[p]) : Knows(p, g) => Knows(p, g)' BY <2>4 DEF Knows
    <3> QED BY <1>0, <2>1, <3>1, <3>2, <3>3, PoolKept
  <2> QED BY <2>3, <2>4
<1> QED BY <1>1, <1>2 DEF AllPools

LEMMA AttachInformed ==
  ASSUME IInv, AllPools, NEW f \in Fusionees, NEW p \in Pools, Attach(f, p)
  PROVE  AllPools'
<1> DEFINE q == More(p, f)
<1>1. List(nodes[p]) BY ListMembers
<1>2. /\ List(q) /\ Members(q) = Members(nodes[p]) \cup {f}
      /\ \A a : Before(q, a) \subseteq Before(nodes[p], a) \cup {f}
  <2>1. CASE f \in Members(nodes[p])
    <3> DEFINE i == Node(nodes[p], f)
    <3>1. i \in 1..Len(nodes[p]) BY <2>1, NodeFacts
    <3>2. nodes[p][i] \in NodeType BY <1>1, <3>1, ElementOfSeq DEF List
    <3>3. q = Counting(nodes[p], i, nodes[p][i].count + 1)
      BY <2>1, MembersAttached DEF More, Counting
    <3> HIDE DEF i, q
    <3>4. nodes[p][i].count + 1 \in Nat \ {0} BY <3>2 DEF NodeType
    <3>5. List(q) /\ Members(q) = Members(nodes[p]) BY <1>1, <3>1, <3>3, <3>4, CountFacts
    <3>6. \A a : Before(q, a) = Before(nodes[p], a) BY <1>1, <3>1, <3>3, <3>4, BeforeCount
    <3> QED BY <2>1, <3>5, <3>6
  <2>2. CASE f \notin Members(nodes[p])
    <3>1. q = <<[fusion_id |-> f, count |-> 1]>> \o nodes[p] BY <2>2, MembersAttached DEF More
    <3> HIDE DEF q
    <3>2. List(q) /\ Members(q) = Members(nodes[p]) \cup {f} BY <1>1, <2>2, <3>1, FrontFacts
    <3>3. \A a : Before(q, a) \subseteq Before(nodes[p], a) \cup {f} BY <1>1, <3>1, BeforeFront
    <3> QED BY <3>2, <3>3
  <2> QED BY <2>1, <2>2
<1>3. /\ nodes' = [nodes EXCEPT ![p] = q] /\ UNCHANGED <<alive, obj, at, val, size, cut>>
      /\ told' = [told EXCEPT ![p][f] = size[p]] /\ copies' = [copies EXCEPT ![p] = @ \ {f}]
      /\ p \in alive
  BY DEF Attach, space, calls
<1> HIDE DEF q
<1> QED BY <1>2, <1>3, ListInformed

LEMMA DetachInformed ==
  ASSUME IInv, AllPools, NEW f \in Fusionees, NEW p \in Pools, Detach(f, p)
  PROVE  AllPools'
<1> DEFINE q == Less(p, f)
           i == Node(nodes[p], f)
<1>1. List(nodes[p]) /\ f \in Members(nodes[p]) BY ListMembers, MembersAttached DEF Detach
<1>2. i \in 1..Len(nodes[p]) /\ nodes[p][i].fusion_id = f BY <1>1, NodeFacts
<1>3. /\ List(q) /\ Members(q) \subseteq Members(nodes[p])
      /\ \A a : Before(q, a) \subseteq Before(nodes[p], a)
  <2>1. CASE nodes[p][i].count = 1
    <3>1. q = Drop(nodes[p], i) BY <2>1 DEF Less
    <3> HIDE DEF q, i
    <3>2. \A a : Before(q, a) \subseteq Before(nodes[p], a) BY <1>1, <1>2, <3>1, BeforeDropped
    <3> QED BY <1>1, <1>2, <3>1, <3>2, DropFacts
  <2>2. CASE nodes[p][i].count # 1
    <3> DEFINE n == nodes[p][i].count - 1
    <3>1. q = Counting(nodes[p], i, n) BY <2>2 DEF Less, Counting
    <3> HIDE DEF q, i
    <3>2. nodes[p][i] \in NodeType BY <1>1, <1>2, ElementOfSeq DEF List
    <3>3. n \in Nat \ {0} BY <2>2, <3>2 DEF NodeType
    <3> HIDE DEF n
    <3>4. List(q) /\ Members(q) = Members(nodes[p]) BY <1>1, <1>2, <3>1, <3>3, CountFacts
    <3>5. \A a : Before(q, a) = Before(nodes[p], a) BY <1>1, <1>2, <3>1, <3>3, BeforeCount
    <3> QED BY <3>4, <3>5
  <2> QED BY <2>1, <2>2
<1>4. /\ nodes' = [nodes EXCEPT ![p] = q] /\ UNCHANGED <<alive, obj, at, val, size, cut, told, copies>>
      /\ p \in alive
  BY DEF Detach, space, calls
<1> HIDE DEF q, i
<1> QED BY <1>3, <1>4, ListInformed

LEMMA ForkInformed ==
  ASSUME IInv, AllPools, NEW f \in Fusionees, NEW g \in Fusionees, Fork(f, g)
  PROVE  AllPools'
<1>1. UNCHANGED <<alive, obj, at, val, size, cut>> BY DEF Fork, space, calls
<1>2. ASSUME NEW p \in alive PROVE PoolInformed(p)'
  <2>0. /\ p \in Pools /\ PoolInformed(p) /\ told \in [Pools -> [Fusionees -> Nat]]
        /\ copies \in [Pools -> SUBSET Fusionees]
    BY DEF IInv, Ids, AllPools, CallsOK
  <2>1. /\ List(nodes[p]) /\ Members(nodes[p]) \subseteq Fusionees
        /\ f \notin Members(nodes[p])
    BY <2>0, ListMembers, MembersAttached DEF Fork
  <2>2. /\ nodes'[p] = Copied(p, f, g) /\ told'[p] = [told[p] EXCEPT ![f] = told[p][g]]
        /\ copies'[p] = copies[p] \cup IF g \in Members(nodes[p]) THEN {f} ELSE {}
    BY <2>0, MembersAttached DEF Fork
  <2>3. \A h \in Members(nodes[p]) : Knows(p, h) => Knows(p, h)'
    BY <1>1, <2>0, <2>1, <2>2 DEF Knows
  <2>4. \A h \in Fusionees :
          /\ obj'[h] = p <=> obj[h] = p
          /\ obj[h] = p => val'[h] = val[h] /\ at'[h] = at[h]
    BY <1>1
  <2>5. size'[p] = size[p] /\ (p \in cut => p \in cut') BY <1>1
  <2>6. CASE g \notin Members(nodes[p])
    <3>1. Copied(p, f, g) = nodes[p] BY <2>6, MembersAttached DEF Copied
    <3>2. nodes'[p] = nodes[p] BY <2>2, <3>1
    <3> QED BY <2>0, <2>3, <2>4, <2>5, <3>2, PoolKept
  <2>7. CASE g \in Members(nodes[p])
    <3> DEFINE i == Node(nodes[p], g)
               n == nodes[p][i].count
    <3>1. i \in 1..Len(nodes[p]) BY <2>7, NodeFacts
    <3>2. nodes'[p] = <<[fusion_id |-> f, count |-> n]>> \o nodes[p]
      BY <2>2, <2>7, MembersAttached DEF Copied
    <3> HIDE DEF i
    <3>3. nodes[p][i] \in NodeType BY <2>1, <3>1, ElementOfSeq DEF List
    <3>4. n \in Nat \ {0} BY <3>3 DEF NodeType
    <3> HIDE DEF n
    <3>5. Members(nodes'[p]) = Members(nodes[p]) \cup {f} BY <2>1, <3>2, <3>4, FrontFacts
    <3>6. \A a : Before(nodes'[p], a) \subseteq Before(nodes[p], a) \cup {f}
      BY <2>1, <3>2, <3>4, BeforeFront
    <3>7. Knows(p, f)' BY <2>2, <2>7 DEF Knows
    <3>8. \A h \in Members(nodes'[p]) \ Members(nodes[p]) : Knows(p, h)' BY <3>5, <3>7
    <3>9. \A h \in Fusionees : obj[h] = p => \A e \in Before(nodes'[p], at[h]) :
            e \in Before(nodes[p], at[h]) \/ Knows(p, e)'
      BY <3>6, <3>7
    <3> QED BY <2>0, <2>3, <2>4, <2>5, <3>8, <3>9, PoolKept
  <2> QED BY <2>6, <2>7
<1> QED BY <1>1, <1>2 DEF AllPools

\* What a walk tells, and where it ends.
LEMMA WalkTells ==
  ASSUME IInv, NEW f \in Fusionees, NEW p \in Pools, NEW s, NEW i \in Nat \ {0}, Walk(f, p, s, i)
  PROVE  LET n == Len(nodes[p]) IN
         /\ \A q \in Pools \ {p} : told'[q] = told[q]
         /\ \A g \in Fusionees : told'[p][g] \in {told[p][g], s}
         /\ told'[p][f] = s
         /\ \E o, a, v :
              /\ obj' = [obj EXCEPT ![f] = o] /\ at' = [at EXCEPT ![f] = a]
              /\ val' = [val EXCEPT ![f] = v]
              /\ \/ /\ o = Nobody
                    /\ \A j \in i..n : told'[p][nodes[p][j].fusion_id] = s
                 \/ /\ o = p /\ v = s
                    /\ \E k \in i..n :
                         /\ a = nodes[p][k].fusion_id
                         /\ \A j \in i..k - 1 : told'[p][nodes[p][j].fusion_id] = s
<1> DEFINE n == Len(nodes[p])
<1>0. told \in [Pools -> [Fusionees -> Nat]] /\ n \in Nat
  BY ListMembers, LenProperties DEF IInv, CallsOK, List
<1>1. \A j \in 1..n : nodes[p][j].fusion_id \in Fusionees BY ListMembers DEF Members
<1>2. ASSUME NEW k \in i - 1..n, Tell(p, Others(f, p, i, k) \cup {f}, s)
      PROVE  /\ \A q \in Pools \ {p} : told'[q] = told[q]
             /\ \A g \in Fusionees : told'[p][g] \in {told[p][g], s}
             /\ told'[p][f] = s
             /\ \A j \in i..k : told'[p][nodes[p][j].fusion_id] = s
  <2> DEFINE fs == Others(f, p, i, k) \cup {f}
             t == [g \in Fusionees |-> IF g \in fs THEN s ELSE told[p][g]]
  <2>1. told' = [told EXCEPT ![p] = t] BY <1>2 DEF Tell
  <2>2. /\ \A g \in Fusionees : t[g] \in {told[p][g], s}
        /\ \A g \in fs \cap Fusionees : t[g] = s
    OBVIOUS
  <2>3. \A j \in i..k : nodes[p][j].fusion_id \in fs /\ j \in 1..n
    BY <1>0 DEF Others
  <2> HIDE DEF t, fs
  <2>4. told'[p] = t /\ \A q \in Pools \ {p} : told'[q] = told[q] BY <1>0, <2>1
  <2>5. f \in fs BY DEF fs
  <2> QED BY <1>1, <2>2, <2>3, <2>4, <2>5
<1>3. CASE Tell(p, Others(f, p, i, n) \cup {f}, s) /\ Return(f)
  <2>0. /\ obj' = [obj EXCEPT ![f] = Nobody] /\ at' = [at EXCEPT ![f] = Nobody]
        /\ val' = [val EXCEPT ![f] = 0]
    BY <1>3 DEF Return, Sleep
  <2>1. CASE i - 1 <= n
    <3>1. n \in i - 1..n BY <1>0, <2>1
    <3>2. /\ \A q \in Pools \ {p} : told'[q] = told[q]
          /\ \A g \in Fusionees : told'[p][g] \in {told[p][g], s}
          /\ told'[p][f] = s
          /\ \A j \in i..n : told'[p][nodes[p][j].fusion_id] = s
      BY <1>2, <1>3, <3>1
    <3>3. \E o, a, v :
            /\ obj' = [obj EXCEPT ![f] = o] /\ at' = [at EXCEPT ![f] = a]
            /\ val' = [val EXCEPT ![f] = v]
            /\ o = Nobody
      BY <2>0, Zenon
    <3> QED BY <3>2, <3>3
  <2>2. CASE i - 1 > n
    <3>1. i - 1 \in i - 1..i - 1 /\ i..n = {} BY <1>0, <2>2
    <3>2. Others(f, p, i, n) = {} BY <3>1 DEF Others
    <3> DEFINE t == [g \in Fusionees |-> IF g \in {f} THEN s ELSE told[p][g]]
    <3>3. told' = [told EXCEPT ![p] = t] BY <1>3, <3>2 DEF Tell
    <3>4. /\ \A g \in Fusionees : t[g] \in {told[p][g], s}
          /\ t[f] = s
      OBVIOUS
    <3> HIDE DEF t
    <3>5. told'[p] = t /\ \A q \in Pools \ {p} : told'[q] = told[q] BY <1>0, <3>3
    <3> QED BY <2>0, <3>1, <3>4, <3>5
  <2>3. i - 1 <= n \/ i - 1 > n BY <1>0
  <2> QED BY <2>1, <2>2, <2>3, Zenon
<1>4. CASE \E k \in i..n : /\ Tell(p, Others(f, p, i, k - 1) \cup {f}, s)
                           /\ Sleep(f, p, nodes[p][k].fusion_id, s)
  <2>1. PICK k \in i..n : /\ Tell(p, Others(f, p, i, k - 1) \cup {f}, s)
                          /\ Sleep(f, p, nodes[p][k].fusion_id, s)
    BY <1>4
  <2>2. k - 1 \in i - 1..n BY <1>0, <2>1
  <2>3. /\ \A q \in Pools \ {p} : told'[q] = told[q]
        /\ \A g \in Fusionees : told'[p][g] \in {told[p][g], s}
        /\ told'[p][f] = s
        /\ \A j \in i..k - 1 : told'[p][nodes[p][j].fusion_id] = s
    BY <1>2, <2>1, <2>2
  <2> QED BY <2>1, <2>3 DEF Sleep
<1> QED BY <1>3, <1>4 DEF Walk

\* A walk keeps everybody informed who was, and informs who it passes.
LEMMA WalkInformed ==
  ASSUME IInv, AllPools, NEW f \in Fusionees, NEW p \in alive, NEW s, NEW i \in Nat \ {0},
         Walk(f, p, s, i), obj[f] \in {p, Nobody},
         \A g \in Fusionees \ {f} : obj[g] # p,
         \A j \in 1..i - 1 : \/ told[p][nodes[p][j].fusion_id] = s
                            \/ nodes[p][j].fusion_id \in copies'[p],
         size'[p] = s, \A q \in Pools \ {p} : size'[q] = size[q],
         \A q \in Pools \ {p} : (q \in cut => q \in cut') /\ copies'[q] = copies[q],
         UNCHANGED <<alive, nodes>>
  PROVE  AllPools'
<1> DEFINE n == Len(nodes[p])
<1>0. /\ p \in Pools /\ List(nodes[p]) /\ n \in Nat /\ Members(nodes[p]) \subseteq Fusionees
      /\ obj \in [Fusionees -> Pools \cup {Nobody}] /\ Nobody \notin Pools
      /\ at \in [Fusionees -> Fusionees \cup {Nobody}] /\ val \in [Fusionees -> Nat]
  BY ListMembers, LenProperties, SHMPoolAssumption DEF IInv, Ids, CallsOK, List
<1>1. /\ \A q \in Pools \ {p} : told'[q] = told[q]
      /\ \A g \in Fusionees : told'[p][g] \in {told[p][g], s}
      /\ told'[p][f] = s
  BY <1>0, WalkTells
<1>2. PICK o, a, v :
        /\ obj' = [obj EXCEPT ![f] = o] /\ at' = [at EXCEPT ![f] = a]
        /\ val' = [val EXCEPT ![f] = v]
        /\ \/ /\ o = Nobody
              /\ \A j \in i..n : told'[p][nodes[p][j].fusion_id] = s
           \/ /\ o = p /\ v = s
              /\ \E k \in i..n :
                   /\ a = nodes[p][k].fusion_id
                   /\ \A j \in i..k - 1 : told'[p][nodes[p][j].fusion_id] = s
  BY <1>0, WalkTells
<1>3. /\ obj'[f] = o /\ at'[f] = a /\ val'[f] = v
      /\ \A g \in Fusionees \ {f} : obj'[g] = obj[g] /\ at'[g] = at[g] /\ val'[g] = val[g]
  BY <1>0, <1>2
<1>4. \A j \in 1..n : nodes[p][j].fusion_id \in Fusionees BY <1>0 DEF Members
<1>5. ASSUME NEW j \in 1..i - 1, j <= n, NEW g, g = nodes[p][j].fusion_id
      PROVE  Knows(p, g)'
  <2>1. j \in 1..n BY <1>5
  <2>2. g \in Fusionees BY <1>4, <1>5, <2>1
  <2>3. told[p][g] = s \/ g \in copies'[p] BY <1>5
  <2> QED BY <1>1, <2>2, <2>3 DEF Knows
<1>6. ASSUME NEW q \in alive \ {p} PROVE PoolInformed(q)'
  <2>1. q \in Pools /\ q # p /\ PoolInformed(q) /\ Members(nodes[q]) \subseteq Fusionees
    BY ListMembers DEF IInv, Ids, AllPools
  <2>2. ASSUME NEW g \in Fusionees
        PROVE  /\ obj'[g] = q <=> obj[g] = q
               /\ obj[g] = q => val'[g] = val[g] /\ at'[g] = at[g]
    <3>1. CASE g = f
      <4>1. o \in {p, Nobody} BY <1>2
      <4> QED BY <1>0, <1>3, <2>1, <3>1, <4>1
    <3>2. CASE g # f BY <1>1, <1>3, <2>1, <3>2
    <3> QED BY <3>1, <3>2
  <2>3. \A g \in Members(nodes[q]) : Knows(q, g) => Knows(q, g)' BY <1>1, <2>1 DEF Knows
  <2>4. \A g \in Fusionees : obj[g] = q => \A h \in Before(nodes'[q], at[g]) :
          h \in Before(nodes[q], at[g])
    OBVIOUS
  <2>5. Members(nodes'[q]) \ Members(nodes[q]) = {} OBVIOUS
  <2>6. size'[q] = size[q] /\ (q \in cut => q \in cut') BY <2>1
  <2> HIDE DEF n
  <2> QED BY <2>1, <2>2, <2>3, <2>4, <2>5, <2>6, PoolKept
<1>7. PoolInformed(p)'
  <2>1. ASSUME NEW g \in Fusionees, obj'[g] = p PROVE g = f BY <1>3, <2>1
  <2>2. ASSUME obj'[f] = p
        PROVE  val'[f] = size'[p] /\ \A g \in Before(nodes'[p], at'[f]) : Knows(p, g)'
    <3>0. o # Nobody BY <1>0, <1>3, <2>2
    <3>1. PICK k \in i..n : /\ a = nodes[p][k].fusion_id /\ v = s
                            /\ \A j \in i..k - 1 : told'[p][nodes[p][j].fusion_id] = s
      BY <1>2, <3>0, Zenon
    <3>2. ASSUME NEW g \in Before(nodes[p], a) PROVE Knows(p, g)'
      <4>1. k \in 1..n BY <1>0
      <4>2. PICK j \in 1..n, m \in 1..n :
              j < m /\ nodes[p][j].fusion_id = g /\ nodes[p][m].fusion_id = a
        BY <3>2 DEF Before
      <4>3. m = k BY <1>0, <3>1, <4>1, <4>2 DEF List
      <4>4. (j \in 1..i - 1 /\ j <= n) \/ j \in i..k - 1 BY <1>0, <4>1, <4>2, <4>3
      <4> QED BY <1>5, <3>1, <4>2, <4>4 DEF Knows
    <3> QED BY <1>1, <1>3, <3>1, <3>2
  <2>3. ASSUME Quiet(p)', NEW g \in Members(nodes'[p]) PROVE Knows(p, g)'
    <3>1. obj'[f] # p BY <2>3 DEF Quiet
    <3>2. \A j \in i..n : told'[p][nodes[p][j].fusion_id] = s BY <1>2, <1>3, <3>1
    <3>3. PICK j \in 1..n : nodes[p][j].fusion_id = g BY <2>3 DEF Members
    <3>4. (j \in 1..i - 1 /\ j <= n) \/ j \in i..n BY <1>0
    <3> QED BY <1>5, <3>2, <3>3, <3>4 DEF Knows
  <2>4. \A g, h \in Fusionees : obj'[g] = p /\ obj'[h] = p => g = h BY <2>1
  <2>5. \A g \in Fusionees : obj'[g] = p =>
          val'[g] = size'[p] /\ \A h \in Before(nodes'[p], at'[g]) : Knows(p, h)'
    BY <2>1, <2>2
  <2> QED BY <2>3, <2>4, <2>5 DEF PoolInformed, Members, Before
<1> QED BY <1>6, <1>7 DEF AllPools

LEMMA DispatchInformed ==
  ASSUME IInv, AllPools, NEW f \in Fusionees, NEW p \in Pools, NEW s \in Sizes, Dispatch(f, p, s)
  PROVE  AllPools'
<1>1. /\ p \in alive /\ Quiet(p) /\ Walk(f, p, s, 1) /\ UNCHANGED <<nodes, alive>>
      /\ size' = [size EXCEPT ![p] = s] /\ cut' = cut \ {p} /\ obj[f] = Nobody
  BY DEF Dispatch, space, InUser
<1>2. size'[p] = s /\ \A q \in Pools \ {p} : size'[q] = size[q] BY <1>1 DEF IInv
<1>3. \A q \in Pools \ {p} : (q \in cut => q \in cut') /\ copies'[q] = copies[q]
  BY DEF Dispatch, IInv, CallsOK
<1>4. \A g \in Fusionees \ {f} : obj[g] # p BY <1>1 DEF Quiet
<1>5. 1..1 - 1 = {} /\ 1 \in Nat \ {0} OBVIOUS
<1> QED BY <1>1, <1>2, <1>3, <1>4, <1>5, WalkInformed

LEMMA ResumeInformed ==
  ASSUME IInv, AllPools, NEW f \in Fusionees, Resume(f)
  PROVE  AllPools'
<1> DEFINE i == Position(f)
<1>0. PICK p \in Pools : p = obj[f] BY SleeperFacts DEF Resume
<1>1. /\ p # Nobody /\ Walk(f, p, val[f], i) /\ UNCHANGED <<nodes, alive, size, cut, copies>>
  BY <1>0 DEF Resume, space
<1>2. p \in alive /\ i \in 1..Len(nodes[p]) /\ nodes[p][i].fusion_id = at[f]
  <2>1. at[f] \in Members(nodes[p]) BY <1>0, <1>1 DEF IInv, Walking
  <2> QED BY <1>0, <1>1, <2>1, SleeperFacts, NodeFacts DEF Position
<1> HIDE DEF i
<1>3. PoolInformed(p) BY <1>2 DEF AllPools
<1>4. val[f] = size[p] /\ \A g \in Before(nodes[p], at[f]) : Knows(p, g)
  BY <1>0, <1>3 DEF PoolInformed
<1>5. \A g \in Fusionees \ {f} : obj[g] # p BY <1>0, <1>3 DEF PoolInformed
<1>6. ASSUME NEW j \in 1..i - 1
      PROVE  told[p][nodes[p][j].fusion_id] = val[f] \/ nodes[p][j].fusion_id \in copies'[p]
  <2>1. Len(nodes[p]) \in Nat BY <1>2, ListMembers, LenProperties DEF List
  <2>2. j \in 1..Len(nodes[p]) /\ j < i BY <1>2, <2>1
  <2>3. nodes[p][j].fusion_id \in Before(nodes[p], at[f]) BY <1>2, <2>2 DEF Before
  <2> QED BY <1>1, <1>4, <2>3 DEF Knows
<1>7. i \in Nat \ {0} BY <1>2
<1>8. size'[p] = val[f] /\ \A q \in Pools \ {p} : /\ (q \in cut => q \in cut') /\ copies'[q] = copies[q]
                                              /\ size'[q] = size[q]
  BY <1>1, <1>4
<1> QED BY <1>0, <1>1, <1>2, <1>5, <1>6, <1>7, <1>8, WalkInformed

LEMMA InterruptInformed ==
  ASSUME IInv, AllPools, NEW f \in Fusionees, Interrupt(f)
  PROVE  AllPools'
<1>0. PICK p \in Pools : p = obj[f] BY SleeperFacts DEF Interrupt
<1>1. p \in alive BY <1>0, SleeperFacts DEF Interrupt
<1>2. PoolInformed(p) BY <1>1 DEF AllPools
<1>3. /\ obj' = [obj EXCEPT ![f] = Nobody] /\ at' = [at EXCEPT ![f] = Nobody]
      /\ val' = [val EXCEPT ![f] = 0] /\ cut' = cut \cup {p}
      /\ UNCHANGED <<nodes, alive, size, copies>>
  BY <1>0 DEF Interrupt, Return, Sleep, space
<1>4. PICK fs : Tell(p, fs, val[f]) BY <1>0 DEF Interrupt
<1>5. \A q \in Pools \ {p} : told'[q] = told[q] BY <1>4 DEF Tell, IInv, CallsOK
<1>6. /\ obj'[f] = Nobody /\ Nobody \notin Pools
      /\ \A g \in Fusionees \ {f} : obj'[g] = obj[g] /\ at'[g] = at[g] /\ val'[g] = val[g]
  BY <1>3, SHMPoolAssumption DEF IInv, CallsOK
<1>7. \A g \in Fusionees \ {f} : obj[g] # p BY <1>0, <1>2 DEF PoolInformed
<1>8. ASSUME NEW q \in alive \ {p} PROVE PoolInformed(q)'
  <2>1. q \in Pools /\ q # p /\ PoolInformed(q) /\ Members(nodes[q]) \subseteq Fusionees
    BY ListMembers DEF IInv, Ids, AllPools
  <2>2. ASSUME NEW g \in Fusionees
        PROVE  /\ obj'[g] = q <=> obj[g] = q
               /\ obj[g] = q => val'[g] = val[g] /\ at'[g] = at[g]
    <3>1. CASE g = f BY <1>0, <1>6, <2>1, <3>1
    <3>2. CASE g # f BY <1>5, <1>6, <2>1, <3>2
    <3> QED BY <3>1, <3>2
  <2>3. Members(nodes'[q]) = Members(nodes[q]) /\ (q \in cut => q \in cut') /\ size'[q] = size[q]
    BY <1>3
  <2>4. \A g \in Fusionees : obj[g] = q => \A h \in Before(nodes'[q], at[g]) :
          h \in Before(nodes[q], at[g])
    BY <1>3
  <2>5. \A g \in Members(nodes[q]) : Knows(q, g) => Knows(q, g)' BY <1>3, <1>5, <2>1 DEF Knows
  <2> QED BY <2>1, <2>2, <2>3, <2>4, <2>5, PoolKept
<1>9. PoolInformed(p)'
  <2>1. \A g \in Fusionees : obj'[g] # p BY <1>1, <1>6, <1>7
  <2>2. p \in cut' BY <1>3
  <2> QED BY <2>1, <2>2 DEF PoolInformed
<1> QED BY <1>3, <1>8, <1>9 DEF AllPools

LEMMA ReleaseInformed ==
  ASSUME IInv, AllPools, NEW f \in Fusionees, Release(f)
  PROVE  AllPools'
<1>1. UNCHANGED <<alive, obj, at, val, size, told, cut, copies>> BY DEF Release, space, calls
<1>2. ASSUME NEW p \in alive PROVE PoolInformed(p)'
  <2>1. /\ p \in Pools /\ PoolInformed(p) /\ List(nodes[p]) /\ Members(nodes[p]) \subseteq Fusionees
        /\ nodes'[p] = Without(p, f)
    BY ListMembers DEF IInv, Ids, AllPools, Release
  <2>2. /\ Members(nodes'[p]) \subseteq Members(nodes[p])
        /\ \A a : Before(nodes'[p], a) \subseteq Before(nodes[p], a)
    <3>1. CASE f \notin Members(nodes[p])
      <4>1. Without(p, f) = nodes[p] BY <3>1, MembersAttached DEF Without
      <4> QED BY <2>1, <4>1
    <3>2. CASE f \in Members(nodes[p])
      <4> DEFINE i == Node(nodes[p], f)
      <4>1. i \in 1..Len(nodes[p]) BY <3>2, NodeFacts
      <4>2. Without(p, f) = Drop(nodes[p], i) BY <3>2, MembersAttached DEF Without
      <4> HIDE DEF i
      <4>3. Members(Drop(nodes[p], i)) \subseteq Members(nodes[p]) BY <2>1, <4>1, DropFacts
      <4>4. \A a : Before(Drop(nodes[p], i), a) \subseteq Before(nodes[p], a)
        BY <2>1, <4>1, BeforeDropped
      <4> QED BY <2>1, <4>2, <4>3, <4>4
    <3> QED BY <3>1, <3>2
  <2>3. \A g \in Members(nodes[p]) : Knows(p, g) => Knows(p, g)' BY <1>1 DEF Knows
  <2>4. \A g \in Fusionees :
          /\ obj'[g] = p <=> obj[g] = p
          /\ obj[g] = p => val'[g] = val[g] /\ at'[g] = at[g]
    BY <1>1
  <2>5. size'[p] = size[p] /\ (p \in cut => p \in cut') BY <1>1
  <2>6. Members(nodes'[p]) \ Members(nodes[p]) = {} BY <2>2
  <2>7. \A g \in Fusionees : \A h \in Before(nodes'[p], at[g]) : h \in Before(nodes[p], at[g])
    BY <2>2
  <2> QED BY <2>1, <2>3, <2>4, <2>5, <2>6, <2>7, PoolKept
<1> QED BY <1>1, <1>2 DEF AllPools

\* Somebody is killed, or nothing happens.
LEMMA NothingInformed ==
  ASSUME IInv, AllPools, UNCHANGED <<alive, obj, at, val, nodes, size, told, cut, copies>>
  PROVE  AllPools'
<1>1. ASSUME NEW p \in alive PROVE PoolInformed(p)'
  <2>1. p \in Pools /\ PoolInformed(p) BY DEF IInv, Ids, AllPools
  <2> QED BY <2>1, PoolSame
<1> QED BY <1>1 DEF AllPools

LEMMA NextInformed == InformInv /\ [Next]_vars => InformInv'
<1> SUFFICES ASSUME IInv, AllPools, [Next]_vars PROVE IInv' /\ AllPools'
  BY DEF InformInv
<1>0. IInv' BY NextIInv
<1>1. ASSUME NEW f \in Fusionees, NEW p \in Pools, NEW m \in MaxSizes, New(f, p, m) PROVE AllPools'
  BY <1>1, NewInformed
<1>2. ASSUME NEW f \in Fusionees, NEW p \in Pools, Destroy(f, p) PROVE AllPools'
  BY <1>2, DestroyInformed
<1>3. ASSUME NEW f \in Fusionees, NEW p \in Pools, Attach(f, p) PROVE AllPools'
  BY <1>3, AttachInformed
<1>4. ASSUME NEW f \in Fusionees, NEW p \in Pools, Detach(f, p) PROVE AllPools'
  BY <1>4, DetachInformed
<1>5. ASSUME NEW f \in Fusionees, NEW p \in Pools, NEW s \in Sizes, Dispatch(f, p, s)
      PROVE  AllPools'
  BY <1>5, DispatchInformed
<1>6. ASSUME NEW f \in Fusionees, NEW g \in Fusionees, Fork(f, g) PROVE AllPools'
  BY <1>6, ForkInformed
<1>7. ASSUME NEW f \in Fusionees, Resume(f) PROVE AllPools' BY <1>7, ResumeInformed
<1>8. ASSUME NEW f \in Fusionees, Interrupt(f) PROVE AllPools' BY <1>8, InterruptInformed
<1>9. ASSUME NEW f \in Fusionees, Kill(f) PROVE AllPools'
  <2>1. UNCHANGED <<alive, obj, at, val, nodes, size, told, cut, copies>> BY <1>9 DEF Kill, space, calls
  <2> QED BY <2>1, NothingInformed
<1>10. ASSUME NEW f \in Fusionees, Release(f) PROVE AllPools' BY <1>10, ReleaseInformed
<1>11. CASE UNCHANGED vars
  <2>1. UNCHANGED <<alive, obj, at, val, nodes, size, told, cut, copies>> BY <1>11 DEF vars, space, calls
  <2> QED BY <1>0, <2>1, NothingInformed
<1> QED
  BY <1>0, <1>1, <1>2, <1>3, <1>4, <1>5, <1>6, <1>7, <1>8, <1>9, <1>10, <1>11 DEF Next

\* When nobody dispatches a pool, all who have attached to it know its size, but for
\* a dispatch that a signal ended: also with fusionees that attach, detach, fork and
\* die while a dispatch sleeps in the middle of the list.  Copies made by forks since
\* the last dispatch began are excepted, as fork_node puts them behind its back.
THEOREM SizesKnown == Spec => []Informed
<1>1. Init => InformInv BY IInvInit DEF Init, InformInv, AllPools
<1>2. InformInv => Informed
  <2> SUFFICES ASSUME InformInv, NEW p \in alive, Quiet(p), p \notin cut,
                      NEW f \in Fusionees, Attached(p, f)
               PROVE  told[p][f] = size[p] \/ f \in copies[p]
    BY DEF Informed
  <2>1. PoolInformed(p) BY DEF InformInv, AllPools
  <2>2. f \in Members(nodes[p]) BY MembersAttached
  <2> QED BY <2>1, <2>2 DEF PoolInformed, Knows
<1> QED BY <1>1, <1>2, NextInformed, PTL DEF Spec

=============================================================================
