-------------------------- MODULE OneQueue_proofs --------------------------
(* Proofs about the queues of the One module (OneQueue), for every number of *)
(* applications, tasks and queues, every limit and every size of a buffer.   *)
EXTENDS OneQueue, WellFoundedInduction, TLAPS

USE OneAssumption DEF OneAssumption, Ids, Queues

-----------------------------------------------------------------------------
(* The inductive invariant *)

NodeLists == UNION {[S -> [count : Nat, place : Nat]] : S \in SUBSET Ids}

QueueRecords == [owner : Apps, virtual : BOOLEAN, destroyed : BOOLEAN, nodes : NodeLists]

TypesInv ==
  /\ apps \subseteq Apps /\ last_id \in 0..MaxQueues /\ queue_attach \in Nat
  /\ queue \in [Queues -> QueueRecords] /\ Queues \subseteq 1..last_id
  /\ data.recv_data = [a \in Apps |-> data.recv_data[a]]
  /\ pc = [t \in Tasks |-> pc[t]] /\ at \in [Tasks -> [queue : Nat, target : Nat]]
  /\ got \in [Tasks -> [Ids -> Nat]] /\ owed \in [Tasks -> SUBSET Ids]

\* Virtual queues have no target, the others no nodes.  No two nodes of a queue
\* have one place.
NodesInv ==
  \A q \in Queues :
    /\ ~queue[q].virtual => DOMAIN queue[q].nodes = {}
    /\ \A x \in DOMAIN queue[q].nodes : queue[q].nodes[x].place <= queue_attach
    /\ \A x, y \in DOMAIN queue[q].nodes : queue[q].nodes[x].place = queue[q].nodes[y].place => x = y

\* A stranded dispatch is not woken.
Stranded(t) ==
  pc[t] = "dispatch" =>
    /\ at[t].target \in 1..last_id
    /\ at[t].target \notin Queues => t \in asleep \cup pending

\* What a dispatch owes, it has put into the targets before the one it stands on.
Halfway(t) ==
  Standing(t) =>
    /\ at[t].queue \in Queues /\ at[t].target \in Targets(at[t].queue)
    /\ owed[t] \subseteq Targets(at[t].queue)
    /\ \A y \in owed[t] :
         got[t][y] = IF Before(at[t].queue, y, at[t].target) THEN 1 ELSE 0

WalksInv == \A t \in Tasks : Stranded(t) /\ Halfway(t) /\ (pc[t] # "dispatch" => owed[t] = {})

IInv == TypesInv /\ NodesInv /\ TargetsAlive /\ WalksInv

-----------------------------------------------------------------------------
(* Places order the nodes of a queue *)

LEMMA LeastNumber ==
  ASSUME NEW T \in SUBSET Nat, T # {}
  PROVE  \E n \in T : \A m \in T : ~(m < n)
<1>1. IsWellFoundedOn(OpToRel(<, Nat), Nat)
  BY NatLessThanWellFounded
<1>2. \E x \in T : \A y \in T : ~(<<y, x>> \in OpToRel(<, Nat))
  BY <1>1, WFMin
<1>3. \A x, y \in Nat : y < x => <<y, x>> \in OpToRel(<, Nat)
  BY DEF OpToRel
<1> QED BY <1>2, <1>3

LEMMA NodeTypes ==
  ASSUME TypesInv, NEW q \in Queues
  PROVE  /\ queue[q] \in QueueRecords
         /\ DOMAIN queue[q].nodes \subseteq Ids
         /\ \A x \in DOMAIN queue[q].nodes : queue[q].nodes[x] \in [count : Nat, place : Nat]
         /\ queue[q].nodes \in [DOMAIN queue[q].nodes -> [count : Nat, place : Nat]]
<1>1. queue[q] \in QueueRecords
  BY DEF TypesInv
<1>2. queue[q].nodes \in NodeLists
  BY <1>1 DEF QueueRecords
<1>3. PICK S \in SUBSET Ids : queue[q].nodes \in [S -> [count : Nat, place : Nat]]
  BY <1>2 DEF NodeLists
<1> QED BY <1>1, <1>3

LEMMA QueuesAreIds ==
  ASSUME TypesInv
  PROVE  Queues \subseteq Ids
<1>1. last_id <= MaxQueues /\ last_id \in Nat
  BY DEF TypesInv
<1>2. Queues \subseteq 1..last_id
  BY DEF TypesInv
<1> QED BY <1>1, <1>2

LEMMA TargetTypes ==
  ASSUME TypesInv, TargetsAlive, NEW q \in Queues
  PROVE  Targets(q) \subseteq Queues
BY DEF Targets, TargetsAlive

LEMMA Ordered ==
  ASSUME TypesInv, NodesInv, NEW q \in Queues
  PROVE  /\ \A x \in Targets(q) : ~Before(q, x, x)
         /\ \A x, y \in Targets(q) : x = y \/ Before(q, x, y) \/ Before(q, y, x)
         /\ \A x, y \in Targets(q) : ~(Before(q, x, y) /\ Before(q, y, x))
         /\ \A x, y, z \in Targets(q) : Before(q, x, y) /\ Before(q, y, z) => Before(q, x, z)
<1>1. CASE queue[q].virtual
  <2>1. \A x \in DOMAIN queue[q].nodes : queue[q].nodes[x].place \in Nat
    BY NodeTypes
  <2>2. \A x, y \in DOMAIN queue[q].nodes : queue[q].nodes[x].place = queue[q].nodes[y].place => x = y
    BY DEF NodesInv
  <2> QED BY <1>1, <2>1, <2>2 DEF Targets, Before
<1>2. CASE ~queue[q].virtual
  BY <1>2 DEF Targets, Before
<1> QED BY <1>1, <1>2

\* A walk that does not serve all its targets has a first that is full.
LEMMA FirstFullIsFirst ==
  ASSUME TypesInv, NodesInv, NEW q \in Queues, NEW S \in SUBSET Targets(q), Served(q, S) # S
  PROVE  /\ FirstFull(q, S) \in S
         /\ \A y \in Served(q, S) : Before(q, y, FirstFull(q, S))
         /\ \A y \in S : Before(q, y, FirstFull(q, S)) => y \in Served(q, S)
<1> DEFINE F == {x \in S : Full(x)}
<1>1. F # {}
  BY DEF Served
<1>2. \E x \in F : \A y \in F \ {x} : Before(q, x, y)
  <2>1. CASE queue[q].virtual
    <3> DEFINE P(x) == queue_attach - queue[q].nodes[x].place
               T == {P(x) : x \in F}
    <3>1. F \subseteq DOMAIN queue[q].nodes
      BY <2>1 DEF Targets
    <3>2. \A x \in F : queue[q].nodes[x].place \in Nat /\ queue[q].nodes[x].place <= queue_attach
      BY <3>1, NodeTypes DEF NodesInv
    <3>3. T \in SUBSET Nat /\ T # {}
      <4>1. ASSUME NEW x \in F
            PROVE  P(x) \in Nat
        BY <3>2 DEF TypesInv
      <4> HIDE DEF P, F
      <4> QED BY <4>1, <1>1
    <3>4. PICK n \in T : \A m \in T : ~(m < n)
      <4> HIDE DEF T
      <4> QED BY <3>3, LeastNumber
    <3>5. PICK x \in F : n = P(x)
      BY <3>4
    <3>6. ASSUME NEW y \in F \ {x}
          PROVE  queue[q].nodes[x].place > queue[q].nodes[y].place
      <4>1. ~(P(y) < P(x))
        BY <3>4, <3>5
      <4>2. queue[q].nodes[x].place # queue[q].nodes[y].place
        BY <3>1 DEF NodesInv
      <4>3. queue_attach \in Nat /\ queue[q].nodes[x].place \in Nat /\ queue[q].nodes[y].place \in Nat
        BY <3>2 DEF TypesInv
      <4>4. ~(queue_attach - queue[q].nodes[y].place < queue_attach - queue[q].nodes[x].place)
        BY <4>1
      <4> HIDE DEF F, P
      <4> QED BY <4>2, <4>3, <4>4
    <3> QED BY <3>6, <2>1 DEF Before
  <2>2. CASE ~queue[q].virtual
    BY <2>2, <1>1 DEF Targets
  <2> QED BY <2>1, <2>2
<1>3. \E x \in S : Full(x) /\ \A y \in S \ {x} : Full(y) => Before(q, x, y)
  BY <1>2
<1>4. /\ FirstFull(q, S) \in S /\ Full(FirstFull(q, S))
      /\ \A y \in S \ {FirstFull(q, S)} : Full(y) => Before(q, FirstFull(q, S), y)
  BY <1>3 DEF FirstFull
<1>5. \A y \in Served(q, S) : Before(q, y, FirstFull(q, S))
  BY <1>4 DEF Served
<1>6. ASSUME NEW y \in S, Before(q, y, FirstFull(q, S)), NEW z \in S, Full(z)
      PROVE  Before(q, y, z)
  BY <1>6, <1>4, Ordered
<1> QED BY <1>4, <1>5, <1>6 DEF Served

-----------------------------------------------------------------------------
(* What a dispatch and a receive do to the targets *)

\* Receiving targets are queues of the application.
Linked(D) ==
  /\ D.recv_data = [a \in Apps |-> D.recv_data[a]]
  /\ \A a \in Apps : \A x \in DOMAIN D.recv_data[a] : x \in Queues /\ queue[x].owner = a

LEMMA PutLinks ==
  ASSUME Linked(data), NEW q, NEW S \in SUBSET Queues
  PROVE  Linked(Put(q, S))
<1> DEFINE Fresh(a) == {x \in S : queue[x].owner = a} \ DOMAIN data.recv_data[a]
<1>1. /\ Put(q, S).recv_data = [a \in Apps |-> Put(q, S).recv_data[a]]
      /\ \A a \in Apps : DOMAIN Put(q, S).recv_data[a] = DOMAIN data.recv_data[a] \cup Fresh(a)
  BY DEF Put
<1> QED BY <1>1 DEF Linked

\* Nothing but the links, the receiver itself and those who are woken changes.
Received(t, awake) ==
  /\ data'.recv_data = [a \in Apps |-> data'.recv_data[a]]
  /\ \A a \in Apps : \A x \in DOMAIN data'.recv_data[a] : x \in Queues /\ queue[x].owner = a
  /\ pc' = [s \in Tasks |-> pc'[s]] /\ \A s \in Tasks \ {t} : pc'[s] = pc[s]
  /\ \A s \in Tasks \ {t} : s \in asleep =>
       s \in asleep' \/ s \in awake \/ pc[s] = "receive" \/ at[s].target \in Queues

LEMMA ReceiveLoopKeeps ==
  ASSUME TypesInv, NEW t \in Tasks, NEW D, Linked(D), NEW awake, NEW r, ReceiveLoop(t, D, awake, r)
  PROVE  Received(t, awake) /\ pc'[t] # "dispatch"
<1> DEFINE S == DOMAIN D.recv_data[AppOf[t]] \cap r.ids
           stays(visited, out, taken) ==
             /\ r.timeout # "poll"
             /\ \A x \in visited : x \in out /\ taken[x] = 0 /\ x \notin D.wakeup
<1>1. PICK visited \in {Visited(D, AppOf[t], S, r.room)}, out \in {ReadOut(D, AppOf[t], S, r.room)},
           taken \in {Taken(D, AppOf[t], S, r.room)} :
        /\ data' = [packets |-> [x \in Ids |-> IF x \in S THEN D.packets[x] - taken[x] ELSE D.packets[x]],
                    wakeup |-> D.wakeup \ visited,
                    recv_data |-> [D.recv_data EXCEPT ![AppOf[t]] = Without(@, out)]]
        /\ asleep' = ((asleep \ awake) \ Relieved(out, AppOf[t])) \cup (IF stays(visited, out, taken) THEN {t} ELSE {})
        /\ pc' = [pc EXCEPT ![t] = IF stays(visited, out, taken) THEN "receive" ELSE "user"]
  BY DEF ReceiveLoop
<1> HIDE DEF stays
<1>2. data'.recv_data = [D.recv_data EXCEPT ![AppOf[t]] = Without(@, out)]
  BY <1>1
<1>3. \A a \in Apps : data'.recv_data[a] = IF a = AppOf[t] THEN Without(D.recv_data[a], out) ELSE D.recv_data[a]
  BY <1>2 DEF Linked
<1>4. \A a \in Apps : DOMAIN data'.recv_data[a] \subseteq DOMAIN D.recv_data[a]
  BY <1>3 DEF Without
<1>5. data'.recv_data = [a \in Apps |-> data'.recv_data[a]]
  BY <1>2 DEF Linked
<1>6. /\ pc' = [s \in Tasks |-> pc'[s]] /\ \A s \in Tasks \ {t} : pc'[s] = pc[s]
      /\ pc'[t] # "dispatch"
  BY <1>1 DEF TypesInv
<1>7. \A s \in Relieved(out, AppOf[t]) : at[s].target \in Queues
  BY DEF Relieved, Senders
<1>8. \A s \in Tasks \ {t} : s \in asleep => s \in asleep' \/ s \in awake \/ at[s].target \in Queues
  BY <1>1, <1>7
<1> QED BY <1>4, <1>5, <1>6, <1>8 DEF Received, Linked

\* What a walk must know of its histories: it owes the targets ahead of it, and
\* has served those behind it once.
Due(q, S, count, due) ==
  /\ count \in [Ids -> Nat] /\ due \in SUBSET Targets(q)
  /\ \A y \in due : count[y] = IF y \in S THEN 0 ELSE 1
  /\ \A y \in due \ S : \A x \in S : Before(q, y, x)

\* It has got through, or sleeps at one of its targets.
Walked(t, q, S, due) ==
  /\ Received(t, {})
  /\ at' \in [Tasks -> [queue : Nat, target : Nat]]
  /\ got' \in [Tasks -> [Ids -> Nat]] /\ owed' \in [Tasks -> SUBSET Ids]
  /\ \A s \in Tasks \ {t} : at'[s] = at[s] /\ got'[s] = got[s] /\ owed'[s] = owed[s]
  /\ \/ pc'[t] # "dispatch" /\ owed'[t] = {}
     \/ /\ pc'[t] = "dispatch" /\ at'[t].queue = q /\ at'[t].target \in S
        /\ owed'[t] = due
        /\ \A y \in due : got'[t][y] = IF Before(q, y, at'[t].target) THEN 1 ELSE 0

LEMMA DispatchLoopKeeps ==
  ASSUME TypesInv, NodesInv, TargetsAlive, NEW t \in Tasks, NEW q \in Queues, NEW S \in SUBSET Targets(q),
         NEW r, NEW count, NEW due, Due(q, S, count, due),
         DispatchLoop(t, q, S, r, count, due)
  PROVE  Walked(t, q, S, due)
<1> DEFINE P == Served(q, S)
           D == Put(q, P)
           awake == UNION {Receivers(queue[x].owner) : x \in P}
           reached == [x \in Ids |-> count[x] + (IF x \in P THEN 1 ELSE 0)]
<1>1. P \subseteq S /\ S \subseteq Queues /\ Queues \subseteq Ids /\ due \subseteq Ids
  <2>1. P \subseteq S
    BY DEF Served
  <2>2. Targets(q) \subseteq Queues
    BY TargetTypes
  <2>3. Queues \subseteq Ids
    BY QueuesAreIds
  <2>4. due \subseteq Targets(q)
    BY DEF Due
  <2> HIDE DEF P
  <2> QED BY <2>1, <2>2, <2>3, <2>4
<1>2. Linked(data)
  BY DEF Linked, TypesInv, TargetsAlive
<1>3. Linked(D)
  BY <1>1, <1>2, PutLinks
<1>4. reached \in [Ids -> Nat] /\ \A y \in due : reached[y] = count[y] + (IF y \in P THEN 1 ELSE 0)
  <2>1. \A x \in Ids : count[x] \in Nat
    BY DEF Due
  <2>2. due \subseteq Ids
    BY <1>1
  <2> HIDE DEF P
  <2> QED BY <2>1, <2>2
<1>5. NotGot \in [Ids -> Nat]
  BY DEF NotGot
<1>6. \A s \in awake : pc[s] = "receive"
  BY DEF Receivers
<1>7. CASE P = S
  <2>1. /\ DispatchDone(t, D, awake, r)
        /\ got' = [got EXCEPT ![t] = NotGot] /\ owed' = [owed EXCEPT ![t] = {x \in due : reached[x] # 1}]
    BY <1>7 DEF DispatchLoop
  <2>2. \A x \in due : reached[x] = 1
    BY <1>4, <1>7 DEF Due
  <2>3. owed' = [owed EXCEPT ![t] = {}]
    BY <2>1, <2>2
  <2>4. Received(t, {}) /\ pc'[t] # "dispatch"
    <3>1. CASE r = NoReceive
      <4>1. data' = D /\ asleep' = asleep \ awake /\ pc' = [pc EXCEPT ![t] = "user"]
        BY <2>1, <3>1 DEF DispatchDone
      <4> QED BY <4>1, <1>3, <1>6 DEF Received, Linked, TypesInv
    <3>2. CASE r # NoReceive
      <4>1. ReceiveLoop(t, D, awake, r)
        BY <2>1, <3>2 DEF DispatchDone
      <4>2. Received(t, awake) /\ pc'[t] # "dispatch"
        BY <4>1, <1>3, ReceiveLoopKeeps
      <4> QED BY <4>2, <1>6 DEF Received
    <3> QED BY <3>1, <3>2
  <2>5. at' = [at EXCEPT ![t] = Nowhere]
    BY <2>1 DEF DispatchDone
  <2>6. at' \in [Tasks -> [queue : Nat, target : Nat]] /\ \A s \in Tasks \ {t} : at'[s] = at[s]
    BY <2>5 DEF TypesInv, Nowhere
  <2>7. /\ got' \in [Tasks -> [Ids -> Nat]] /\ owed' \in [Tasks -> SUBSET Ids]
        /\ \A s \in Tasks \ {t} : got'[s] = got[s] /\ owed'[s] = owed[s]
        /\ owed'[t] = {}
    <3>1. got \in [Tasks -> [Ids -> Nat]] /\ owed \in [Tasks -> SUBSET Ids]
      BY DEF TypesInv
    <3>2. got' = [got EXCEPT ![t] = NotGot]
      BY <2>1
    <3> QED BY <3>1, <3>2, <2>3, <1>5
  <2> QED BY <2>4, <2>6, <2>7 DEF Walked
<1>8. CASE P # S
  <2> DEFINE x == FirstFull(q, S)
  <2>1. DispatchSleeps(t, q, x, D, awake, r) /\ got' = [got EXCEPT ![t] = reached] /\ owed' = [owed EXCEPT ![t] = due]
    BY <1>8 DEF DispatchLoop
  <2>2. /\ x \in S /\ \A y \in P : Before(q, y, x)
        /\ \A y \in S : Before(q, y, x) => y \in P
    BY <1>8, FirstFullIsFirst
  <2>3. \A y \in due : reached[y] = IF Before(q, y, x) THEN 1 ELSE 0
    BY <1>1, <1>4, <2>2 DEF Due
  <2>4. /\ data' = D /\ asleep' = (asleep \ awake) \cup {t}
        /\ pc' = [pc EXCEPT ![t] = "dispatch"] /\ at' = [at EXCEPT ![t] = [queue |-> q, target |-> x]]
    BY <2>1 DEF DispatchSleeps
  <2>5. Received(t, {})
    BY <2>4, <1>3, <1>6 DEF Received, Linked, TypesInv
  <2>6. x \in Nat /\ q \in Nat
    BY <2>2, <1>1
  <2>7. /\ at' \in [Tasks -> [queue : Nat, target : Nat]] /\ \A s \in Tasks \ {t} : at'[s] = at[s]
        /\ at'[t].queue = q /\ at'[t].target = x /\ pc'[t] = "dispatch"
    <3> HIDE DEF x
    <3> QED BY <2>4, <2>6 DEF TypesInv
  <2>8. /\ got' \in [Tasks -> [Ids -> Nat]] /\ owed' \in [Tasks -> SUBSET Ids]
        /\ \A s \in Tasks \ {t} : got'[s] = got[s] /\ owed'[s] = owed[s]
        /\ owed'[t] = due /\ got'[t] = reached
    <3> HIDE DEF reached
    <3> QED BY <2>1, <1>1, <1>4 DEF TypesInv
  <2> HIDE DEF x, reached
  <2> QED BY <2>2, <2>3, <2>5, <2>7, <2>8 DEF Walked
<1> QED BY <1>7, <1>8

-----------------------------------------------------------------------------
(* Queues go *)

\* What remains is as it was, without the nodes that name what is gone.
LEMMA GoneLeaves ==
  ASSUME IInv, NEW gone \in SUBSET Queues, Gone(gone)
  PROVE  /\ DOMAIN queue' = Queues \ (gone \cup LeftEmpty(gone))
         /\ queue' \in [DOMAIN queue' -> QueueRecords]
         /\ \A q \in DOMAIN queue' :
              /\ queue'[q].owner = queue[q].owner /\ queue'[q].virtual = queue[q].virtual
              /\ queue'[q].destroyed = queue[q].destroyed
              /\ DOMAIN queue'[q].nodes = DOMAIN queue[q].nodes \ gone
              /\ \A x \in DOMAIN queue[q].nodes \ gone : queue'[q].nodes[x] = queue[q].nodes[x]
<1> DEFINE all == gone \cup LeftEmpty(gone)
           left(q) == [queue[q] EXCEPT !.nodes = Without(@, gone)]
<1>1. queue' = [q \in Queues \ all |-> left(q)]
  BY DEF Gone
<1>2. ASSUME NEW q \in Queues
      PROVE  /\ left(q) \in QueueRecords
             /\ left(q).owner = queue[q].owner /\ left(q).virtual = queue[q].virtual
             /\ left(q).destroyed = queue[q].destroyed
             /\ DOMAIN left(q).nodes = DOMAIN queue[q].nodes \ gone
             /\ \A x \in DOMAIN queue[q].nodes \ gone : left(q).nodes[x] = queue[q].nodes[x]
  <2>1. /\ queue[q] \in QueueRecords /\ DOMAIN queue[q].nodes \subseteq Ids
        /\ \A x \in DOMAIN queue[q].nodes : queue[q].nodes[x] \in [count : Nat, place : Nat]
    BY NodeTypes DEF IInv
  <2> DEFINE rest == DOMAIN queue[q].nodes \ gone
             nodes == Without(queue[q].nodes, gone)
  <2>2. nodes = [x \in rest |-> queue[q].nodes[x]]
    BY DEF Without
  <2>3. nodes \in [rest -> [count : Nat, place : Nat]] /\ rest \in SUBSET Ids
    BY <2>1, <2>2
  <2>4. nodes \in NodeLists
    BY <2>3 DEF NodeLists
  <2>5. left(q) = [queue[q] EXCEPT !.nodes = nodes]
    OBVIOUS
  <2> HIDE DEF nodes, left
  <2>6. left(q) \in QueueRecords /\ left(q).nodes = nodes
    BY <2>1, <2>4, <2>5 DEF QueueRecords
  <2>7. left(q).owner = queue[q].owner /\ left(q).virtual = queue[q].virtual /\ left(q).destroyed = queue[q].destroyed
    BY <2>1, <2>5 DEF QueueRecords
  <2> QED BY <2>2, <2>6, <2>7
<1> HIDE DEF left
<1> QED BY <1>1, <1>2

LEMMA GoneKeeps ==
  ASSUME IInv, NEW gone \in SUBSET Queues, Gone(gone),
         apps' \subseteq Apps, \A q \in Queues \ gone : queue[q].owner \in apps',
         \A t \in Tasks : Standing(t) =>
           \/ {at[t].queue, at[t].target} \cap (gone \cup LeftEmpty(gone)) = {}
           \/ t \in asleep /\ at[t].target \in gone,
         UNCHANGED <<last_id, queue_attach, pc, asleep, pending, at, got>>
  PROVE  IInv'
<1> DEFINE all == gone \cup LeftEmpty(gone)
<1>1. /\ DOMAIN queue' = Queues \ all
      /\ queue' \in [DOMAIN queue' -> QueueRecords]
      /\ \A q \in DOMAIN queue' :
           /\ queue'[q].owner = queue[q].owner /\ queue'[q].virtual = queue[q].virtual
           /\ queue'[q].destroyed = queue[q].destroyed
           /\ DOMAIN queue'[q].nodes = DOMAIN queue[q].nodes \ gone
           /\ \A x \in DOMAIN queue[q].nodes \ gone : queue'[q].nodes[x] = queue[q].nodes[x]
  BY GoneLeaves
<1>2. \A q \in LeftEmpty(gone) : q \in Queues /\ queue[q].virtual
  BY DEF LeftEmpty, IInv, NodesInv, TargetsAlive
<1>3. owed' = [t \in Tasks |-> owed[t] \ gone]
  BY DEF Gone
<1>4. data'.recv_data = [a \in Apps |-> Without(data.recv_data[a], all)]
  BY DEF Gone
<1>5. /\ data'.recv_data = [a \in Apps |-> data'.recv_data[a]]
      /\ \A a \in Apps : DOMAIN data'.recv_data[a] = DOMAIN data.recv_data[a] \ all
  BY <1>4 DEF Without
<1>6. TypesInv'
  BY <1>1, <1>3, <1>5 DEF IInv, TypesInv
<1>7. NodesInv'
  BY <1>1 DEF IInv, NodesInv
<1>8. TargetsAlive'
  <2>1. ASSUME NEW q \in DOMAIN queue'
        PROVE  /\ queue'[q].owner \in apps'
               /\ queue'[q].destroyed => DOMAIN queue'[q].nodes # {}
               /\ \A x \in DOMAIN queue'[q].nodes : x \in DOMAIN queue' /\ ~queue'[x].virtual
    <3>1. q \in Queues /\ q \notin gone /\ q \notin LeftEmpty(gone)
      BY <1>1
    <3>2. queue'[q].destroyed => DOMAIN queue'[q].nodes # {}
      BY <1>1, <3>1 DEF LeftEmpty
    <3>3. ASSUME NEW x \in DOMAIN queue'[q].nodes
          PROVE  x \in DOMAIN queue' /\ ~queue'[x].virtual
      <4>1. x \in Queues /\ ~queue[x].virtual /\ x \notin gone
        BY <1>1, <3>1 DEF IInv, TargetsAlive
      <4> QED BY <4>1, <1>1, <1>2
    <3> QED BY <1>1, <3>1, <3>2, <3>3
  <2>2. \A a \in Apps : \A x \in DOMAIN data'.recv_data[a] : x \in DOMAIN queue' /\ queue'[x].owner = a
    BY <1>1, <1>5 DEF IInv, TargetsAlive
  <2> QED BY <2>1, <2>2 DEF TargetsAlive
<1>9. WalksInv'
  <2> SUFFICES ASSUME NEW t \in Tasks
               PROVE  Stranded(t)' /\ Halfway(t)' /\ (pc'[t] # "dispatch" => owed'[t] = {})
    BY DEF WalksInv
  <2>1. Stranded(t) /\ Halfway(t) /\ (pc[t] # "dispatch" => owed[t] = {})
    BY DEF IInv, WalksInv
  <2>2. owed'[t] = owed[t] \ gone
    BY <1>3
  <2>3. Stranded(t)'
    BY <1>1, <2>1 DEF Stranded, Standing
  <2>4. ASSUME Standing(t)'
        PROVE  Halfway(t)'
    <3>1. Standing(t) /\ at[t].target \notin all
      BY <2>4, <1>1 DEF Standing
    <3>2. at[t].queue \notin all
      BY <3>1
    <3>3. at[t].queue \in DOMAIN queue' /\ at[t].queue \in Queues
      BY <3>1, <3>2, <2>1, <1>1 DEF Halfway
    <3>4. Targets(at[t].queue)' = Targets(at[t].queue) \ gone
      BY <3>2, <3>3, <1>1 DEF Targets
    <3>5. \A x, y \in Targets(at[t].queue) \ gone :
            Before(at[t].queue, x, y)' <=> Before(at[t].queue, x, y)
      BY <3>3, <1>1 DEF Targets, Before
    <3> QED BY <3>1, <3>3, <3>4, <3>5, <2>1, <2>2 DEF Halfway
  <2>5. Halfway(t)'
    BY <2>4 DEF Halfway
  <2> QED BY <2>1, <2>2, <2>3, <2>5
<1> QED BY <1>6, <1>7, <1>8, <1>9 DEF IInv

-----------------------------------------------------------------------------
(* Steps that leave the queues alone *)

LEMMA WalkKeeps ==
  ASSUME IInv, NEW t \in Tasks, UNCHANGED <<apps, lists, pending>>, Received(t, {}),
         at' \in [Tasks -> [queue : Nat, target : Nat]],
         got' \in [Tasks -> [Ids -> Nat]], owed' \in [Tasks -> SUBSET Ids],
         \A s \in Tasks \ {t} : at'[s] = at[s] /\ got'[s] = got[s] /\ owed'[s] = owed[s],
         \/ pc'[t] # "dispatch" /\ owed'[t] = {}
         \/ /\ at'[t].queue \in Queues /\ at'[t].target \in Targets(at'[t].queue)
            /\ owed'[t] \subseteq Targets(at'[t].queue)
            /\ pc'[t] # "dispatch" => owed'[t] = {}
            /\ \A y \in owed'[t] : got'[t][y] = IF Before(at'[t].queue, y, at'[t].target) THEN 1 ELSE 0
  PROVE  IInv'
<1>1. TypesInv' /\ NodesInv'
  BY DEF IInv, TypesInv, NodesInv, Received, lists
<1>2. TargetsAlive'
  BY DEF IInv, TargetsAlive, Received, lists
<1>3. \A q, x, y : Before(q, x, y)' <=> Before(q, x, y)
  BY DEF Before, lists
<1>4. \A q : Targets(q)' = Targets(q)
  BY DEF Targets, lists
<1>5. ASSUME NEW s \in Tasks \ {t}
      PROVE  Stranded(s)' /\ Halfway(s)' /\ (pc'[s] # "dispatch" => owed'[s] = {})
  <2>1. Stranded(s) /\ Halfway(s) /\ (pc[s] # "dispatch" => owed[s] = {})
    BY DEF IInv, WalksInv
  <2>2. pc'[s] = pc[s] /\ at'[s] = at[s] /\ got'[s] = got[s] /\ owed'[s] = owed[s]
    BY DEF Received
  <2>3. Standing(s)' <=> Standing(s)
    BY <2>2 DEF Standing, lists
  <2>4. Stranded(s)'
    BY <2>1, <2>2 DEF Stranded, Received, lists
  <2>5. Halfway(s)'
    BY <2>1, <2>2, <2>3, <1>3, <1>4 DEF Halfway, lists
  <2> QED BY <2>1, <2>2, <2>4, <2>5
<1>6. Stranded(t)' /\ Halfway(t)' /\ (pc'[t] # "dispatch" => owed'[t] = {})
  <2>1. CASE pc'[t] # "dispatch" /\ owed'[t] = {}
    BY <2>1 DEF Stranded, Halfway, Standing
  <2>2. CASE pc'[t] = "dispatch"
    <3>1. /\ at'[t].queue \in Queues /\ at'[t].target \in Targets(at'[t].queue)
          /\ owed'[t] \subseteq Targets(at'[t].queue)
          /\ \A y \in owed'[t] : got'[t][y] = IF Before(at'[t].queue, y, at'[t].target) THEN 1 ELSE 0
      BY <2>2
    <3>2. at'[t].target \in Queues /\ at'[t].target \in 1..last_id
      BY <3>1, TargetTypes DEF IInv, TypesInv
    <3>3. Stranded(t)'
      BY <3>2 DEF Stranded, lists
    <3>4. Halfway(t)'
      BY <3>1, <1>3, <1>4 DEF Halfway, lists
    <3> QED BY <2>2, <3>3, <3>4
  <2> QED BY <2>1, <2>2
<1>7. WalksInv'
  BY <1>5, <1>6 DEF WalksInv
<1> QED BY <1>1, <1>2, <1>7 DEF IInv

LEMMA WalkedKeeps ==
  ASSUME IInv, NEW t \in Tasks, UNCHANGED <<apps, lists, pending>>,
         NEW q \in Queues, NEW S \in SUBSET Targets(q), NEW due \in SUBSET Targets(q), Walked(t, q, S, due)
  PROVE  IInv'
<1>1. /\ Received(t, {})
      /\ at' \in [Tasks -> [queue : Nat, target : Nat]]
      /\ got' \in [Tasks -> [Ids -> Nat]] /\ owed' \in [Tasks -> SUBSET Ids]
      /\ \A s \in Tasks \ {t} : at'[s] = at[s] /\ got'[s] = got[s] /\ owed'[s] = owed[s]
  BY DEF Walked
<1>2. CASE pc'[t] # "dispatch" /\ owed'[t] = {}
  BY <1>1, <1>2, WalkKeeps
<1>3. CASE /\ pc'[t] = "dispatch" /\ at'[t].queue = q /\ at'[t].target \in S
           /\ owed'[t] = due
           /\ \A y \in due : got'[t][y] = IF Before(q, y, at'[t].target) THEN 1 ELSE 0
  BY <1>1, <1>3, WalkKeeps
<1> QED BY <1>2, <1>3 DEF Walked

LEMMA DispatchKeeps ==
  ASSUME IInv, NEW t \in Tasks, NEW q \in Ids, NEW r, Dispatch(t, q, r)
  PROVE  IInv'
<1>1. q \in Queues /\ DispatchLoop(t, q, Targets(q), r, NotGot, Targets(q)) /\ UNCHANGED <<apps, lists, pending>>
  BY DEF Dispatch
<1>2. Due(q, Targets(q), NotGot, Targets(q))
  <2>1. Targets(q) \subseteq Queues
    BY <1>1, TargetTypes DEF IInv
  <2>2. Queues \subseteq Ids
    BY QueuesAreIds DEF IInv
  <2>3. NotGot \in [Ids -> Nat] /\ \A y \in Targets(q) : NotGot[y] = 0
    BY <2>1, <2>2 DEF NotGot
  <2> QED BY <2>3 DEF Due
<1>3. Walked(t, q, Targets(q), Targets(q))
  BY <1>1, <1>2, DispatchLoopKeeps DEF IInv
<1> QED BY <1>1, <1>3, WalkedKeeps

LEMMA DispatchResumeKeeps ==
  ASSUME IInv, NEW t \in Tasks, DispatchResume(t)
  PROVE  IInv'
<1> DEFINE q == at[t].queue
           x == at[t].target
           S == Rest(q, x)
<1>1. /\ Standing(t) /\ q \in Queues /\ x \in Targets(q) /\ owed[t] \subseteq Targets(q)
      /\ \A y \in owed[t] : got[t][y] = IF Before(q, y, x) THEN 1 ELSE 0
  BY DEF DispatchResume, IInv, WalksInv, Stranded, Standing, Halfway
<1>2. DispatchLoop(t, q, S, recv[t], got[t], owed[t]) /\ UNCHANGED <<apps, lists, pending>>
  BY DEF DispatchResume
<1>3. S \subseteq Targets(q)
  BY <1>1 DEF Rest
<1>4. Due(q, S, got[t], owed[t])
  <2>1. got[t] \in [Ids -> Nat]
    BY DEF IInv, TypesInv
  <2>2. ASSUME NEW y \in owed[t]
        PROVE  got[t][y] = (IF y \in S THEN 0 ELSE 1) /\ (y \notin S => \A z \in S : Before(q, y, z))
    <3>1. y \in Targets(q) /\ (y \in S <=> y = x \/ Before(q, x, y))
      BY <1>1 DEF Rest
    <3>2. CASE y \in S
      BY <3>1, <3>2, <1>1, Ordered DEF IInv
    <3>3. CASE y \notin S
      <4>1. Before(q, y, x)
        BY <3>1, <3>3, <1>1, Ordered DEF IInv
      <4>2. \A z \in S : z = x \/ Before(q, x, z)
        BY DEF Rest
      <4>3. \A z \in S : Before(q, y, z)
        BY <4>1, <4>2, <3>1, <1>1, <1>3, Ordered DEF IInv
      <4> QED BY <4>1, <4>3, <1>1, <3>3
    <3> QED BY <3>2, <3>3
  <2> QED BY <2>1, <2>2, <1>1 DEF Due
<1>5. Walked(t, q, S, owed[t])
  <2> HIDE DEF q, S
  <2> QED BY <1>1, <1>2, <1>3, <1>4, DispatchLoopKeeps DEF IInv
<1> HIDE DEF q, x, S
<1> QED BY <1>1, <1>2, <1>3, <1>5, WalkedKeeps

\* A receive, alone or in the course of a dispatch that is over.
LEMMA ReceiveKeeps ==
  ASSUME IInv, NEW t \in Tasks, NEW r, pc[t] # "dispatch", ReceiveLoop(t, data, {}, r),
         UNCHANGED <<apps, lists, pending, at, history>>
  PROVE  IInv'
<1>1. Linked(data)
  BY DEF Linked, IInv, TypesInv, TargetsAlive
<1>2. Received(t, {}) /\ pc'[t] # "dispatch"
  BY <1>1, ReceiveLoopKeeps DEF IInv
<1>3. owed[t] = {}
  BY DEF IInv, WalksInv
<1>4. UNCHANGED <<at, got, owed>>
  BY DEF history
<1>5. /\ at' \in [Tasks -> [queue : Nat, target : Nat]]
      /\ got' \in [Tasks -> [Ids -> Nat]] /\ owed' \in [Tasks -> SUBSET Ids]
  BY <1>4 DEF IInv, TypesInv
<1>6. /\ owed'[t] = {}
      /\ \A s \in Tasks \ {t} : at'[s] = at[s] /\ got'[s] = got[s] /\ owed'[s] = owed[s]
  BY <1>3, <1>4
<1> QED BY <1>2, <1>5, <1>6, WalkKeeps

LEMMA WakeUpKeeps ==
  ASSUME IInv, NEW t \in Tasks, NEW x \in Ids, WakeUp(t, x)
  PROVE  IInv'
<1>1. x \in Queues /\ pc[t] = "user"
  BY DEF WakeUp, InUser
<1>2. Linked(data)
  BY DEF Linked, IInv, TypesInv, TargetsAlive
<1>3. Linked(Put(x, {x}))
  BY <1>1, <1>2, PutLinks
<1>4. data'.recv_data = Put(x, {x}).recv_data
  BY DEF WakeUp, Put
<1>5. Received(t, {})
  <2>1. /\ asleep' = asleep \ Receivers(queue[x].owner)
        /\ pc' = pc
    BY DEF WakeUp, waits
  <2>2. \A s \in Receivers(queue[x].owner) : pc[s] = "receive"
    BY DEF Receivers
  <2>3. pc = [s \in Tasks |-> pc[s]]
    BY DEF IInv, TypesInv
  <2> QED BY <1>1, <1>3, <1>4, <2>1, <2>2, <2>3 DEF Received, Linked
<1>6. UNCHANGED <<apps, lists, pending, pc, at, got, owed>> /\ owed[t] = {}
  BY <1>1 DEF WakeUp, history, IInv, WalksInv
<1>7. /\ at' \in [Tasks -> [queue : Nat, target : Nat]]
      /\ got' \in [Tasks -> [Ids -> Nat]] /\ owed' \in [Tasks -> SUBSET Ids]
  BY <1>6 DEF IInv, TypesInv
<1>8. /\ owed'[t] = {} /\ pc'[t] # "dispatch"
      /\ \A s \in Tasks \ {t} : at'[s] = at[s] /\ got'[s] = got[s] /\ owed'[s] = owed[s]
  BY <1>1, <1>6
<1> QED BY <1>5, <1>6, <1>7, <1>8, WalkKeeps

LEMMA FailsKeeps ==
  ASSUME IInv, NEW t \in Tasks, Fails(t)
  PROVE  IInv'
<1>1. /\ pc' = [pc EXCEPT ![t] = "user"] /\ at' = [at EXCEPT ![t] = Nowhere]
      /\ got' = [got EXCEPT ![t] = NotGot] /\ owed' = [owed EXCEPT ![t] = {}]
      /\ asleep' = asleep \ {t} /\ pending' = pending \ {t}
      /\ UNCHANGED <<apps, last_id, queue, queue_attach, data>>
  BY DEF Fails, lists
<1>2. NotGot \in [Ids -> Nat] /\ Nowhere \in [queue : Nat, target : Nat]
  BY DEF NotGot, Nowhere
<1>3. TypesInv' /\ NodesInv'
  <2>1. /\ at' \in [Tasks -> [queue : Nat, target : Nat]]
        /\ got' \in [Tasks -> [Ids -> Nat]] /\ owed' \in [Tasks -> SUBSET Ids]
    BY <1>1, <1>2 DEF IInv, TypesInv
  <2>2. pc' = [s \in Tasks |-> pc'[s]]
    BY <1>1 DEF IInv, TypesInv
  <2>3. TypesInv'
    BY <1>1, <2>1, <2>2 DEF IInv, TypesInv
  <2>4. NodesInv'
    BY <1>1 DEF IInv, NodesInv
  <2> QED BY <2>3, <2>4
<1>4. TargetsAlive'
  BY <1>1 DEF IInv, TargetsAlive
<1>5. \A s \in Tasks \ {t} : pc'[s] = pc[s] /\ at'[s] = at[s] /\ got'[s] = got[s] /\ owed'[s] = owed[s]
  BY <1>1 DEF IInv, TypesInv
<1>6. pc'[t] = "user" /\ owed'[t] = {}
  BY <1>1 DEF IInv, TypesInv
<1>7. ASSUME NEW s \in Tasks
      PROVE  Stranded(s)' /\ Halfway(s)' /\ (pc'[s] # "dispatch" => owed'[s] = {})
  <2>1. CASE s = t
    BY <2>1, <1>6 DEF Stranded, Halfway, Standing
  <2>2. CASE s # t
    <3>1. Stranded(s) /\ Halfway(s) /\ (pc[s] # "dispatch" => owed[s] = {})
      BY DEF IInv, WalksInv
    <3>2. pc'[s] = pc[s] /\ at'[s] = at[s] /\ got'[s] = got[s] /\ owed'[s] = owed[s]
      BY <2>2, <1>5
    <3>3. Stranded(s)'
      BY <2>2, <3>1, <3>2, <1>1 DEF Stranded
    <3>4. Standing(s)' <=> Standing(s)
      BY <3>2, <1>1 DEF Standing
    <3>5. \A p, x, y : (Targets(p)' = Targets(p)) /\ (Before(p, x, y)' <=> Before(p, x, y))
      BY <1>1 DEF Targets, Before
    <3>6. Halfway(s)'
      BY <3>1, <3>2, <3>4, <3>5, <1>1 DEF Halfway
    <3> QED BY <3>1, <3>2, <3>3, <3>6
  <2> QED BY <2>1, <2>2
<1> QED BY <1>3, <1>4, <1>7 DEF IInv, WalksInv

LEMMA SignalKeeps ==
  ASSUME IInv, NEW t \in Tasks, Signal(t)
  PROVE  IInv'
<1>1. /\ UNCHANGED <<apps, last_id, queue, queue_attach, data, pc, at, got, owed>>
      /\ pending' = pending \cup {t} /\ asleep' = asleep \ {t}
  BY DEF Signal, lists, history
<1>2. TypesInv' /\ NodesInv' /\ TargetsAlive'
  <2>1. TypesInv'
    BY <1>1 DEF IInv, TypesInv
  <2>2. NodesInv'
    BY <1>1 DEF IInv, NodesInv
  <2>3. TargetsAlive'
    BY <1>1 DEF IInv, TargetsAlive
  <2> QED BY <2>1, <2>2, <2>3
<1>3. WalksInv'
  BY <1>1 DEF IInv, WalksInv, Stranded, Halfway, Standing, Targets, Before
<1> QED BY <1>2, <1>3 DEF IInv

-----------------------------------------------------------------------------
(* Steps that change the queues *)

LEMMA OpenKeeps ==
  ASSUME IInv, NEW a \in Apps, Open(a)
  PROVE  IInv'
<1>1. /\ UNCHANGED <<last_id, queue, data, pc, asleep, pending, at, got, owed>>
      /\ apps' = apps \cup {a} /\ queue_attach' = IF apps = {} THEN 0 ELSE queue_attach
  BY DEF Open, waits, history
<1>2. apps = {} => Queues = {}
  BY DEF IInv, TargetsAlive
<1>3. TypesInv'
  BY <1>1 DEF IInv, TypesInv
<1>4. NodesInv'
  BY <1>1, <1>2 DEF IInv, NodesInv
<1>5. TargetsAlive'
  BY <1>1 DEF IInv, TargetsAlive
<1>6. WalksInv'
  BY <1>1 DEF IInv, WalksInv, Stranded, Halfway, Standing, Targets, Before
<1> QED BY <1>3, <1>4, <1>5, <1>6 DEF IInv

LEMMA NewKeeps ==
  ASSUME IInv, NEW t \in Tasks, NEW virtual \in BOOLEAN, New(t, virtual)
  PROVE  IInv'
<1> DEFINE n == last_id + 1
           Fresh == [owner |-> AppOf[t], virtual |-> virtual, destroyed |-> FALSE, nodes |-> <<>>]
<1>1. /\ UNCHANGED <<apps, queue_attach, data, pc, asleep, pending, at, got, owed>>
      /\ last_id' = n /\ last_id < MaxQueues /\ AppOf[t] \in apps
      /\ queue' = [q \in Queues \cup {n} |-> IF q \in Queues THEN queue[q] ELSE Fresh]
  BY DEF New, InUser, waits, history
<1>2. Fresh \in QueueRecords /\ DOMAIN Fresh.nodes = {}
  <2>1. <<>> \in [{} -> [count : Nat, place : Nat]]
    OBVIOUS
  <2>2. <<>> \in NodeLists
    BY <2>1 DEF NodeLists
  <2> QED BY <2>2 DEF QueueRecords
<1>3. n \notin Queues /\ \A q \in Queues : queue'[q] = queue[q]
  BY <1>1 DEF IInv, TypesInv
<1>4. DOMAIN queue' = Queues \cup {n} /\ queue'[n] = Fresh
  BY <1>1, <1>3
<1>5. TypesInv'
  <2>1. queue' \in [DOMAIN queue' -> QueueRecords]
    BY <1>1, <1>2 DEF IInv, TypesInv
  <2>2. last_id' \in 0..MaxQueues /\ DOMAIN queue' \subseteq 1..last_id'
    BY <1>1, <1>4 DEF IInv, TypesInv
  <2> QED BY <2>1, <2>2, <1>1 DEF IInv, TypesInv
<1>6. NodesInv'
  BY <1>1, <1>2, <1>3, <1>4 DEF IInv, NodesInv
<1>7. TargetsAlive'
  <2>1. Fresh.owner \in apps /\ ~Fresh.destroyed
    BY <1>1
  <2> QED BY <1>1, <1>2, <1>3, <1>4, <2>1 DEF IInv, TargetsAlive
<1>8. ASSUME NEW s \in Tasks
      PROVE  Stranded(s)' /\ Halfway(s)' /\ (pc'[s] # "dispatch" => owed'[s] = {})
  <2>1. Stranded(s) /\ Halfway(s) /\ (pc[s] # "dispatch" => owed[s] = {})
    BY DEF IInv, WalksInv
  <2>2. pc[s] = "dispatch" => at[s].target # n
    BY <2>1 DEF Stranded, IInv, TypesInv
  <2>3. Stranded(s)'
    BY <1>1, <1>4, <2>1 DEF Stranded, IInv, TypesInv
  <2>4. Standing(s)' => Standing(s)
    BY <1>1, <1>4, <2>2 DEF Standing
  <2>5. Halfway(s)'
    BY <1>1, <1>3, <1>4, <2>1, <2>4 DEF Halfway, Targets, Before
  <2> QED BY <1>1, <2>1, <2>3, <2>5
<1> QED BY <1>5, <1>6, <1>7, <1>8 DEF IInv, WalksInv

LEMMA DestroyKeeps ==
  ASSUME IInv, NEW t \in Tasks, NEW q \in Ids, Destroy(t, q)
  PROVE  IInv'
<1>1. /\ q \in Queues /\ UNCHANGED <<apps, last_id, queue_attach, pc, asleep, pending, at, got>>
  BY DEF Destroy, waits
<1>2. CASE DOMAIN queue[q].nodes = {}
  <2>1. Still(q) /\ Gone({q})
    BY <1>2 DEF Destroy
  <2>2. ASSUME NEW s \in Tasks, Standing(s)
        PROVE  {at[s].queue, at[s].target} \cap ({q} \cup LeftEmpty({q})) = {}
    <3>1. q # at[s].queue /\ q # at[s].target
      BY <2>1, <2>2 DEF Still
    <3>2. at[s].queue \in Queues /\ at[s].target \in Targets(at[s].queue)
      BY <2>2 DEF IInv, WalksInv, Halfway
    <3>3. \A p \in LeftEmpty({q}) : p \in Queues /\ queue[p].virtual /\ DOMAIN queue[p].nodes \subseteq {q}
      BY DEF LeftEmpty, IInv, NodesInv, TargetsAlive
    <3>4. at[s].queue \notin LeftEmpty({q})
      BY <3>1, <3>2, <3>3 DEF Targets
    <3>5. at[s].target \notin LeftEmpty({q})
      BY <3>2, <3>3, <3>4 DEF Targets, IInv, TargetsAlive
    <3> QED BY <3>1, <3>4, <3>5
  <2>3. apps' \subseteq Apps /\ \A p \in Queues \ {q} : queue[p].owner \in apps'
    BY <1>1 DEF IInv, TypesInv, TargetsAlive
  <2> QED BY <1>1, <2>1, <2>2, <2>3, GoneKeeps
<1>3. CASE DOMAIN queue[q].nodes # {}
  <2>1. queue' = [queue EXCEPT ![q].destroyed = TRUE] /\ UNCHANGED <<data, owed>>
    BY <1>3 DEF Destroy
  <2>2. queue[q] \in QueueRecords
    BY <1>1, NodeTypes DEF IInv
  <2>3. /\ DOMAIN queue' = Queues /\ queue' \in [Queues -> QueueRecords] /\ \A p \in Queues \ {q} : queue'[p] = queue[p]
        /\ queue'[q].owner = queue[q].owner /\ queue'[q].virtual = queue[q].virtual
        /\ queue'[q].nodes = queue[q].nodes
    BY <1>1, <2>1, <2>2 DEF IInv, TypesInv, QueueRecords
  <2>4. /\ \A p \in Queues : queue'[p].owner = queue[p].owner /\ queue'[p].virtual = queue[p].virtual
                            /\ queue'[p].nodes = queue[p].nodes
        /\ \A p \in Queues : queue'[p].destroyed => queue[p].destroyed \/ p = q
    BY <2>3
  <2>5. TypesInv' /\ NodesInv'
    <3>1. TypesInv'
      BY <1>1, <2>1, <2>3 DEF IInv, TypesInv
    <3>2. NodesInv'
      BY <1>1, <2>3, <2>4 DEF IInv, NodesInv
    <3> QED BY <3>1, <3>2
  <2>6. TargetsAlive'
    BY <1>1, <1>3, <2>1, <2>3, <2>4 DEF IInv, TargetsAlive
  <2>7. ASSUME NEW s \in Tasks
        PROVE  Stranded(s)' /\ Halfway(s)' /\ (pc'[s] # "dispatch" => owed'[s] = {})
    <3>1. Stranded(s) /\ Halfway(s) /\ (pc[s] # "dispatch" => owed[s] = {})
      BY DEF IInv, WalksInv
    <3>2. Stranded(s)' /\ (Standing(s)' => Standing(s))
      BY <1>1, <2>3, <3>1 DEF Stranded, Standing
    <3>3. \A p \in Queues : Targets(p)' = Targets(p) /\ \A y, z : Before(p, y, z)' <=> Before(p, y, z)
      BY <2>3, <2>4 DEF Targets, Before
    <3>4. Halfway(s)'
      BY <1>1, <2>1, <2>3, <3>1, <3>2, <3>3 DEF Halfway
    <3> QED BY <1>1, <2>1, <3>1, <3>2, <3>4
  <2> QED BY <2>5, <2>6, <2>7 DEF IInv, WalksInv
<1> QED BY <1>2, <1>3

LEMMA ReleaseKeeps ==
  ASSUME IInv, NEW a \in Apps, Release(a)
  PROVE  IInv'
<1>1. /\ StillRelease(Own(a)) /\ Gone(Own(a)) /\ apps' = apps \ {a}
      /\ UNCHANGED <<last_id, queue_attach, pc, asleep, pending, at, got>>
  BY DEF Release, waits
<1>2. Own(a) \in SUBSET Queues
  BY DEF Own
<1>3. apps' \subseteq Apps /\ \A q \in Queues \ Own(a) : queue[q].owner \in apps'
  BY <1>1 DEF IInv, TypesInv, TargetsAlive, Own
<1>4. \A t \in Tasks : Standing(t) =>
        \/ {at[t].queue, at[t].target} \cap (Own(a) \cup LeftEmpty(Own(a))) = {}
        \/ t \in asleep /\ at[t].target \in Own(a)
  BY <1>1 DEF StillRelease
<1> QED BY <1>1, <1>2, <1>3, <1>4, GoneKeeps

LEMMA AttachKeeps ==
  ASSUME IInv, NEW t \in Tasks, NEW q \in Ids, NEW x \in Ids, Attach(t, q, x)
  PROVE  IInv'
<1> DEFINE old == queue[q].nodes
           node == IF x \in DOMAIN old THEN [old[x] EXCEPT !.count = @ + 1]
                   ELSE [count |-> 1, place |-> queue_attach + 1]
           new == [y \in DOMAIN old \cup {x} |-> IF y = x THEN node ELSE old[y]]
<1>1. /\ q \in Queues /\ x \in Queues /\ queue[q].virtual /\ ~queue[x].virtual /\ ~queue[q].destroyed
      /\ queue' = [queue EXCEPT ![q].nodes = new] /\ queue_attach' = queue_attach + 1
      /\ UNCHANGED <<apps, last_id, data, pc, asleep, pending, at, got, owed>>
  BY DEF Attach, waits, history
<1>2. /\ queue[q] \in QueueRecords /\ DOMAIN old \subseteq Ids
      /\ \A y \in DOMAIN old : old[y] \in [count : Nat, place : Nat]
  BY <1>1, NodeTypes DEF IInv
<1>3. queue_attach \in Nat
  BY DEF IInv, TypesInv
<1>4. /\ node \in [count : Nat, place : Nat]
      /\ x \in DOMAIN old => node.place = old[x].place
      /\ x \notin DOMAIN old => node.place = queue_attach + 1
  BY <1>2, <1>3
<1>5. /\ new \in [DOMAIN old \cup {x} -> [count : Nat, place : Nat]]
      /\ new[x] = node /\ \A y \in DOMAIN old \ {x} : new[y] = old[y]
  <2> HIDE DEF node
  <2> QED BY <1>2, <1>4
<1>6. new \in NodeLists /\ DOMAIN new = DOMAIN old \cup {x}
  <2>1. DOMAIN old \cup {x} \in SUBSET Ids
    BY <1>2
  <2> QED BY <2>1, <1>5 DEF NodeLists
<1>7. /\ \A y \in DOMAIN old : new[y].place = old[y].place /\ new[y].place <= queue_attach
      /\ x \notin DOMAIN old => new[x].place = queue_attach + 1
      /\ \A y \in DOMAIN new : new[y].place \in Nat
  <2>1. \A y \in DOMAIN old : old[y].place <= queue_attach
    BY <1>1 DEF IInv, NodesInv
  <2> HIDE DEF new, node
  <2> QED BY <1>4, <1>5, <1>6, <2>1
<1> HIDE DEF new, node
<1>8. /\ DOMAIN queue' = Queues /\ \A p \in Queues \ {q} : queue'[p] = queue[p]
      /\ queue'[q] \in QueueRecords /\ queue'[q].nodes = new
      /\ queue'[q].owner = queue[q].owner /\ queue'[q].virtual = queue[q].virtual
      /\ queue'[q].destroyed = queue[q].destroyed
      /\ queue' \in [Queues -> QueueRecords]
  <2>1. queue \in [Queues -> QueueRecords]
    BY DEF IInv, TypesInv
  <2>2. queue' = [queue EXCEPT ![q].nodes = new]
    BY <1>1
  <2>3. [queue[q] EXCEPT !.nodes = new] \in QueueRecords
    BY <1>2, <1>6 DEF QueueRecords
  <2>4. queue'[q] = [queue[q] EXCEPT !.nodes = new]
    BY <1>1, <2>1, <2>2
  <2>5. \A p \in Queues \ {q} : queue'[p] = queue[p] /\ queue'[p] \in QueueRecords
    BY <2>1, <2>2
  <2>6. DOMAIN queue' = Queues /\ queue' = [p \in Queues |-> queue'[p]]
    BY <2>1, <2>2
  <2>7. /\ queue'[q].nodes = new /\ queue'[q].owner = queue[q].owner
        /\ queue'[q].virtual = queue[q].virtual /\ queue'[q].destroyed = queue[q].destroyed
    BY <2>4, <1>2 DEF QueueRecords
  <2> QED BY <2>3, <2>4, <2>5, <2>6, <2>7
<1>9. TypesInv'
  <2>1. queue_attach' \in Nat /\ DOMAIN queue' \subseteq 1..last_id' /\ queue' \in [DOMAIN queue' -> QueueRecords]
    <3>1. Queues \subseteq 1..last_id
      BY DEF IInv, TypesInv
    <3>2. queue_attach' = queue_attach + 1 /\ last_id' = last_id
      BY <1>1
    <3> QED BY <3>1, <3>2, <1>3, <1>8
  <2>2. last_id' = last_id /\ apps' = apps /\ UNCHANGED <<data, pc, at, got, owed>>
    BY <1>1
  <2> QED BY <2>1, <2>2 DEF IInv, TypesInv
<1>10. NodesInv'
  <2>1. ASSUME NEW p \in Queues
        PROVE  /\ ~queue'[p].virtual => DOMAIN queue'[p].nodes = {}
               /\ \A y \in DOMAIN queue'[p].nodes : queue'[p].nodes[y].place <= queue_attach + 1
               /\ \A y, z \in DOMAIN queue'[p].nodes : queue'[p].nodes[y].place = queue'[p].nodes[z].place => y = z
    <3>1. CASE p = q
      <4>1. \A y, z \in DOMAIN old : old[y].place = old[z].place => y = z
        BY <1>1 DEF IInv, NodesInv
      <4>2. \A y \in DOMAIN new : new[y].place <= queue_attach + 1
        BY <1>3, <1>6, <1>7
      <4>3. \A y, z \in DOMAIN new : new[y].place = new[z].place => y = z
        BY <4>1, <1>3, <1>6, <1>7
      <4>4. queue'[p].nodes = new /\ queue'[p].virtual
        BY <3>1, <1>1, <1>8
      <4> QED BY <4>2, <4>3, <4>4
    <3>2. CASE p # q
      <4>1. \A y \in DOMAIN queue[p].nodes : queue[p].nodes[y].place \in Nat
        BY NodeTypes DEF IInv
      <4>2. /\ ~queue[p].virtual => DOMAIN queue[p].nodes = {}
            /\ \A y \in DOMAIN queue[p].nodes : queue[p].nodes[y].place <= queue_attach
            /\ \A y, z \in DOMAIN queue[p].nodes : queue[p].nodes[y].place = queue[p].nodes[z].place => y = z
        BY DEF IInv, NodesInv
      <4>3. \A y \in DOMAIN queue[p].nodes : queue[p].nodes[y].place <= queue_attach + 1
        BY <4>1, <4>2, <1>3
      <4>4. queue'[p] = queue[p]
        BY <3>2, <1>8
      <4> QED BY <4>2, <4>3, <4>4
    <3> QED BY <3>1, <3>2
  <2> QED BY <2>1, <1>1, <1>8 DEF NodesInv
<1>11. TargetsAlive'
  BY <1>1, <1>6, <1>8 DEF IInv, TargetsAlive
<1>12. ASSUME NEW s \in Tasks
       PROVE  Stranded(s)' /\ Halfway(s)' /\ (pc'[s] # "dispatch" => owed'[s] = {})
  <2>1. Stranded(s) /\ Halfway(s) /\ (pc[s] # "dispatch" => owed[s] = {})
    BY DEF IInv, WalksInv
  <2>2. Stranded(s)' /\ (Standing(s)' => Standing(s))
    BY <1>1, <1>8, <2>1 DEF Stranded, Standing
  <2>3. \A p \in Queues : Targets(p) \subseteq Targets(p)'
    BY <1>1, <1>6, <1>8 DEF Targets
  <2>4. \A p \in Queues : \A y, z \in Targets(p) : Before(p, y, z)' <=> Before(p, y, z)
    BY <1>1, <1>7, <1>8 DEF Targets, Before
  <2>5. Halfway(s)'
    BY <1>1, <1>8, <2>1, <2>2, <2>3, <2>4 DEF Halfway
  <2> QED BY <1>1, <2>1, <2>2, <2>5
<1> QED BY <1>9, <1>10, <1>11, <1>12 DEF IInv, WalksInv

LEMMA DetachKeeps ==
  ASSUME IInv, NEW t \in Tasks, NEW q \in Ids, NEW x \in Ids, Detach(t, q, x)
  PROVE  IInv'
<1> DEFINE old == queue[q].nodes
           left == Without(old, {x})
<1>1. /\ q \in Queues /\ x \in DOMAIN old
      /\ UNCHANGED <<apps, last_id, queue_attach, pc, asleep, pending, at, got>>
  BY DEF Detach, waits
<1>2. /\ queue[q] \in QueueRecords /\ DOMAIN old \subseteq Ids /\ queue[q].virtual
      /\ \A y \in DOMAIN old : old[y] \in [count : Nat, place : Nat]
      /\ old \in [DOMAIN old -> [count : Nat, place : Nat]]
  BY <1>1, NodeTypes DEF IInv, NodesInv
\* The node stays, or goes and leaves others.
<1>3. ASSUME NEW new \in NodeLists, queue' = [queue EXCEPT ![q].nodes = new], UNCHANGED data,
             DOMAIN new \subseteq DOMAIN old, \A y \in DOMAIN new : new[y].place = old[y].place,
             queue[q].destroyed => DOMAIN new # {},
             owed' \in [Tasks -> SUBSET Ids], \A s \in Tasks : owed'[s] \subseteq owed[s],
             \A s \in Tasks : at[s].queue = q /\ Standing(s) => at[s].target \in DOMAIN new /\ owed'[s] \subseteq DOMAIN new
      PROVE  IInv'
  <2>1. /\ DOMAIN queue' = Queues /\ \A p \in Queues \ {q} : queue'[p] = queue[p]
        /\ queue'[q].nodes = new
        /\ queue'[q].owner = queue[q].owner /\ queue'[q].virtual = queue[q].virtual
        /\ queue'[q].destroyed = queue[q].destroyed
        /\ queue' \in [Queues -> QueueRecords]
    BY <1>1, <1>2, <1>3 DEF IInv, TypesInv, QueueRecords
  <2>2. TypesInv'
    BY <1>1, <1>3, <2>1 DEF IInv, TypesInv
  <2>3. NodesInv'
    BY <1>1, <1>2, <1>3, <2>1 DEF IInv, NodesInv
  <2>4. TargetsAlive'
    BY <1>1, <1>3, <2>1 DEF IInv, TargetsAlive
  <2>5. ASSUME NEW s \in Tasks
        PROVE  Stranded(s)' /\ Halfway(s)' /\ (pc'[s] # "dispatch" => owed'[s] = {})
    <3>1. Stranded(s) /\ Halfway(s) /\ (pc[s] # "dispatch" => owed[s] = {})
      BY DEF IInv, WalksInv
    <3>2. Stranded(s)' /\ (Standing(s)' => Standing(s))
      BY <1>1, <2>1, <3>1 DEF Stranded, Standing
    <3>3. ASSUME Standing(s)'
          PROVE  Halfway(s)'
      <4>1. Standing(s) /\ at[s].queue \in Queues /\ owed'[s] \subseteq owed[s]
        BY <3>1, <3>2, <3>3, <1>3 DEF Halfway
      <4>2. CASE at[s].queue = q
        <5>1. at[s].target \in DOMAIN new /\ owed'[s] \subseteq DOMAIN new
          BY <4>1, <4>2, <1>3
        <5>2. Targets(q)' = DOMAIN new
          BY <1>2, <2>1 DEF Targets
        <5>3. \A y, z \in DOMAIN new : Before(q, y, z)' <=> Before(q, y, z)
          BY <1>3, <2>1, <1>1 DEF Before
        <5> QED BY <4>1, <4>2, <5>1, <5>2, <5>3, <3>1, <1>1, <2>1 DEF Halfway
      <4>3. CASE at[s].queue # q
        <5>1. /\ Targets(at[s].queue)' = Targets(at[s].queue)
              /\ \A y, z : Before(at[s].queue, y, z)' <=> Before(at[s].queue, y, z)
          BY <4>1, <4>3, <1>1, <2>1 DEF Targets, Before
        <5> QED BY <4>1, <5>1, <3>1, <1>1, <2>1 DEF Halfway
      <4> QED BY <4>2, <4>3
    <3>4. Halfway(s)'
      BY <3>3 DEF Halfway
    <3>5. owed'[s] \subseteq owed[s]
      BY <1>3
    <3> QED BY <1>1, <3>1, <3>2, <3>4, <3>5
  <2> QED BY <2>2, <2>3, <2>4, <2>5 DEF IInv, WalksInv
<1>4. \A s \in Tasks : at[s].queue = q /\ Standing(s) => at[s].target \in DOMAIN old /\ owed[s] \subseteq DOMAIN old
  BY <1>2 DEF IInv, WalksInv, Halfway, Targets
<1>5. owed \in [Tasks -> SUBSET Ids]
  BY DEF IInv, TypesInv
<1>6. CASE old[x].count > 1 /\ queue' = [queue EXCEPT ![q].nodes[x].count = @ - 1] /\ UNCHANGED <<data, owed>>
  <2> DEFINE new == [old EXCEPT ![x].count = @ - 1]
  <2>1. new \in [DOMAIN old -> [count : Nat, place : Nat]] /\ \A y \in DOMAIN old : new[y].place = old[y].place
    BY <1>1, <1>2, <1>6
  <2>2. new \in NodeLists /\ DOMAIN new = DOMAIN old
    BY <1>2, <2>1 DEF NodeLists
  <2>3. queue' = [queue EXCEPT ![q].nodes = new]
    BY <1>1, <1>6, <1>2 DEF IInv, TypesInv
  <2> HIDE DEF new
  <2>4. queue[q].destroyed => DOMAIN new # {}
    BY <1>1, <2>2
  <2> QED BY <1>3, <1>4, <1>5, <1>6, <2>1, <2>2, <2>3, <2>4
<1>7. CASE /\ \A s \in Tasks : at[s] # [queue |-> q, target |-> x]
           /\ ~(queue[q].destroyed /\ DOMAIN left = {})
           /\ queue' = [queue EXCEPT ![q].nodes = left] /\ owed' = NotOwed(q, x) /\ UNCHANGED data
  <2>1. DOMAIN left = DOMAIN old \ {x} /\ \A y \in DOMAIN left : left[y] = old[y]
    BY DEF Without
  <2>2. left \in [DOMAIN old \ {x} -> [count : Nat, place : Nat]]
    BY <1>2 DEF Without
  <2>3. left \in NodeLists
    <3>1. DOMAIN old \ {x} \in SUBSET Ids
      BY <1>2
    <3> QED BY <2>2, <3>1 DEF NodeLists
  <2>4. /\ owed' \in [Tasks -> SUBSET Ids] /\ \A s \in Tasks : owed'[s] \subseteq owed[s]
        /\ \A s \in Tasks : at[s].queue = q => x \notin owed'[s]
    BY <1>5, <1>7 DEF NotOwed
  <2>5. \A s \in Tasks : at[s].queue = q => at[s].target # x
    BY <1>7 DEF IInv, TypesInv
  <2>6. \A s \in Tasks : at[s].queue = q /\ Standing(s) => at[s].target \in DOMAIN left /\ owed'[s] \subseteq DOMAIN left
    <3>1. ASSUME NEW s \in Tasks, at[s].queue = q, Standing(s)
          PROVE  at[s].target \in DOMAIN left /\ owed'[s] \subseteq DOMAIN left
      <4>1. at[s].target \in DOMAIN old /\ owed[s] \subseteq DOMAIN old
        BY <1>4, <3>1
      <4>2. at[s].target # x /\ x \notin owed'[s] /\ owed'[s] \subseteq owed[s]
        BY <2>4, <2>5, <3>1
      <4> HIDE DEF left
      <4> QED BY <2>1, <4>1, <4>2
    <3> QED BY <3>1
  <2> HIDE DEF left
  <2> QED BY <1>3, <1>7, <2>1, <2>3, <2>4, <2>6
<1>8. CASE /\ \A s \in Tasks : at[s] # [queue |-> q, target |-> x]
           /\ queue[q].destroyed /\ DOMAIN left = {} /\ Gone({q})
  <2>1. DOMAIN old = {x}
    BY <1>1, <1>8 DEF Without
  <2>2. \A s \in Tasks : at[s].queue = q => at[s].target # x
    BY <1>8 DEF IInv, TypesInv
  <2>3. LeftEmpty({q}) = {}
    BY <1>1, <1>2 DEF LeftEmpty, IInv, TargetsAlive
  <2>4. ASSUME NEW s \in Tasks, Standing(s)
        PROVE  at[s].queue # q /\ at[s].target # q
    <3>1. at[s].queue \in Queues /\ at[s].target \in Targets(at[s].queue)
      BY <2>4 DEF IInv, WalksInv, Halfway
    <3>2. at[s].queue # q
      BY <2>1, <2>2, <2>4, <1>4
    <3> QED BY <3>1, <3>2, <1>1, <1>2 DEF Targets, IInv, TargetsAlive
  <2>5. apps' \subseteq Apps /\ \A p \in Queues \ {q} : queue[p].owner \in apps'
    BY <1>1 DEF IInv, TypesInv, TargetsAlive
  <2>6. \A s \in Tasks : Standing(s) => {at[s].queue, at[s].target} \cap ({q} \cup LeftEmpty({q})) = {}
    BY <2>3, <2>4
  <2> QED BY <1>1, <1>8, <2>5, <2>6, GoneKeeps
<1> QED BY <1>6, <1>7, <1>8 DEF Detach

-----------------------------------------------------------------------------
(* The theorems *)

LEMMA InitHolds == Init => IInv
<1> SUFFICES ASSUME Init
             PROVE  IInv
  OBVIOUS
<1>1. DOMAIN queue = {} /\ queue = <<>>
  BY DEF Init
<1>2. TypesInv
  <2>1. queue \in [Queues -> QueueRecords]
    BY <1>1
  <2> QED BY <1>1, <2>1 DEF Init, TypesInv, Nowhere, NotGot
<1>3. NodesInv /\ TargetsAlive
  BY <1>1 DEF NodesInv, TargetsAlive, Init
<1>4. WalksInv
  BY <1>1 DEF Init, WalksInv, Stranded, Halfway, Standing
<1> QED BY <1>2, <1>3, <1>4 DEF IInv

LEMMA NextKeeps == IInv /\ [Next]_vars => IInv'
<1> SUFFICES ASSUME IInv, [Next]_vars
             PROVE  IInv'
  OBVIOUS
<1>1. ASSUME NEW a \in Apps, Open(a) \/ Release(a)
      PROVE  IInv'
  BY <1>1, OpenKeeps, ReleaseKeeps
<1>2. ASSUME NEW t \in Tasks, Work(t)
      PROVE  IInv'
  <2>1. ASSUME NEW virtual \in BOOLEAN, New(t, virtual)
        PROVE  IInv'
    BY <2>1, NewKeeps
  <2>2. ASSUME NEW q \in Ids, Destroy(t, q) \/ WakeUp(t, q)
        PROVE  IInv'
    BY <2>2, DestroyKeeps, WakeUpKeeps
  <2>3. ASSUME NEW q \in Ids, NEW r, Dispatch(t, q, r)
        PROVE  IInv'
    BY <2>3, DispatchKeeps
  <2>4. ASSUME NEW q \in Ids, NEW x \in Ids, Attach(t, q, x) \/ Detach(t, q, x)
        PROVE  IInv'
    BY <2>4, AttachKeeps, DetachKeeps
  <2>5. ASSUME NEW r, Receive(t, r)
        PROVE  IInv'
    <3>1. pc[t] # "dispatch" /\ ReceiveLoop(t, data, {}, r) /\ UNCHANGED <<apps, lists, pending, at, history>>
      BY <2>5 DEF Receive, InUser
    <3> QED BY <3>1, ReceiveKeeps
  <2> QED BY <1>2, <2>1, <2>2, <2>3, <2>4, <2>5 DEF Work
<1>3. ASSUME NEW t \in Tasks, ReadAll(t)
      PROVE  IInv'
  <2>1. PICK room \in Rooms : Receive(t, [ids |-> Ids, room |-> room, timeout |-> "none"])
    BY <1>3 DEF ReadAll
  <2> DEFINE r == [ids |-> Ids, room |-> room, timeout |-> "none"]
  <2> HIDE DEF r
  <2>2. pc[t] # "dispatch" /\ ReceiveLoop(t, data, {}, r) /\ UNCHANGED <<apps, lists, pending, at, history>>
    BY <2>1 DEF Receive, InUser, r
  <2> QED BY <2>2, ReceiveKeeps
<1>4. ASSUME NEW t \in Tasks, Resume(t) \/ TimesOut(t) \/ Signal(t)
      PROVE  IInv'
  <2>1. CASE DispatchResume(t)
    BY <2>1, DispatchResumeKeeps
  <2>2. CASE ReceiveResume(t)
    <3>1. pc[t] # "dispatch" /\ ReceiveLoop(t, data, {}, recv[t]) /\ UNCHANGED <<apps, lists, pending, at, history>>
      BY <2>2 DEF ReceiveResume
    <3> QED BY <3>1, ReceiveKeeps
  <2>3. CASE Interrupted(t) \/ TimesOut(t)
    BY <2>3, FailsKeeps DEF Interrupted, TimesOut
  <2>4. CASE Signal(t)
    BY <2>4, SignalKeeps
  <2> QED BY <1>4, <2>1, <2>2, <2>3, <2>4 DEF Resume
<1>5. CASE UNCHANGED vars
  <2>1. UNCHANGED <<apps, last_id, queue, queue_attach, data, pc, asleep, pending, at, got, owed>>
    BY <1>5 DEF vars, lists, waits, history
  <2>2. TypesInv' /\ NodesInv' /\ TargetsAlive'
    BY <2>1 DEF IInv, TypesInv, NodesInv, TargetsAlive
  <2>3. WalksInv'
    BY <2>1 DEF IInv, WalksInv, Stranded, Halfway, Standing, Targets, Before
  <2> QED BY <2>2, <2>3 DEF IInv
<1> QED BY <1>1, <1>2, <1>3, <1>4, <1>5 DEF Next

LEMMA Invariance == Spec => []IInv
<1>1. IInv /\ [Next]_vars => IInv'
  BY NextKeeps
<1> QED BY InitHolds, <1>1, PTL DEF Spec

\* No node and no link is left behind by a destroy, a detach or the release of
\* an application, for any number of them.
THEOREM TargetsStayAlive == Spec => []TargetsAlive
<1>1. IInv => TargetsAlive
  BY DEF IInv
<1> QED BY Invariance, <1>1, PTL

\* A dispatch serves whoever was attached all the time, once: at whichever full
\* target of however many it slept, and whatever came and went meanwhile.
THEOREM DispatchReachesAll == Spec => []ReachesAll
<1>1. IInv => ReachesAll
  BY DEF IInv, WalksInv, ReachesAll
<1> QED BY Invariance, <1>1, PTL
=============================================================================
