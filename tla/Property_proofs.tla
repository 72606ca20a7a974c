-------------------------- MODULE Property_proofs --------------------------
(* Theorems about Property, for every set of tasks and properties. *)
EXTENDS Property, TLAPS

\* The fields of an entry agree.
Shape ==
  \A p \in Properties :
    IF lock_pid[p] = Nobody
    THEN fusion_id[p] = Nobody /\ state[p] \notin Kinds
    ELSE fusion_id[p] = Owner[lock_pid[p]] /\ count[p] > 0 /\ state[p] \in Kinds

\* Nobody runs any more in a released fusionee.
ReleasedDead == \A t \in Tasks : Owner[t] \in released => pc[t] = "dead"

\* A task is on a queue only inside of a call.
InCall ==
  /\ \A t \in Tasks : pc[t] \in Kinds => obj[t] \in Properties
  /\ \A t \in asleep : pc[t] \in Kinds

OwnInv == TypeOK /\ Shape /\ HeldIsOwned /\ ReleasedDead /\ NoOrphan
IInv   == OwnInv /\ InCall /\ NoLostWakeup /\ UntimedOnLease

LEMMA OwnInit == Init => IInv
<1> SUFFICES ASSUME Init PROVE IInv
  OBVIOUS
<1>1. TypeOK
  BY PropertyAssumption DEF Init, TypeOK, Kinds
<1>2. Shape /\ HeldIsOwned /\ ReleasedDead
  BY PropertyAssumption DEF Init, Shape, HeldIsOwned, ReleasedDead, Kinds
<1>3. NoOrphan /\ InCall /\ NoLostWakeup /\ UntimedOnLease
  BY DEF Init, NoOrphan, InCall, NoLostWakeup, UntimedOnLease, Kinds
<1>4. QED
  BY <1>1, <1>2, <1>3 DEF IInv, OwnInv

\* A depth is a number after a change of one.
LEMMA DepthType ==
  ASSUME NEW h \in [Tasks -> [Properties -> Nat]], NEW t \in Tasks, NEW p \in Properties,
         NEW n \in Nat
  PROVE  [h EXCEPT ![t][p] = n] \in [Tasks -> [Properties -> Nat]]
<1>1. [h[t] EXCEPT ![p] = n] \in [Properties -> Nat]
  OBVIOUS
<1>2. [h EXCEPT ![t] = [h[t] EXCEPT ![p] = n]] \in [Tasks -> [Properties -> Nat]]
  BY <1>1
<1>3. QED
  BY <1>2

-----------------------------------------------------------------------------
(* A pass of the loop, and the error that ends a call *)

\* What a call of a live task does to the owner of its property.
LEMMA TakeOwn ==
  ASSUME IInv, NEW t \in Tasks, NEW p \in Properties, NEW kind \in Kinds,
         pc[t] # "dead", t \notin asleep, state[p] = "available",
         Take(t, p, kind), ReturnToUser(t), ops' \in [Tasks -> Nat],
         UNCHANGED <<killed, released>>
  PROVE  IInv'
<1>1. lock_pid[p] = Nobody /\ p \in Live /\ Owner[t] \notin released
  BY DEF IInv, OwnInv, Shape, TypeOK, Kinds, Live, ReleasedDead
<1>2. TypeOK'
  <2>1. held' \in [Tasks -> [Properties -> Nat]]
    BY DepthType DEF IInv, OwnInv, TypeOK, Take
  <2>2. age' \in [Properties -> 0..2]
    BY DEF IInv, OwnInv, TypeOK, Take
  <2>3. asleep' \subseteq Tasks
    BY DEF IInv, OwnInv, TypeOK, Take, Wake
  <2>4. Owner[t] \in Fusionees
    BY PropertyAssumption
  <2>5. QED
    BY <2>1, <2>2, <2>3, <2>4 DEF IInv, OwnInv, TypeOK, Take, ReturnToUser
<1>3. Shape'
  BY <1>1, PropertyAssumption DEF IInv, OwnInv, Shape, TypeOK, Take, Kinds
<1>4. HeldIsOwned'
  BY <1>1, PropertyAssumption DEF IInv, OwnInv, HeldIsOwned, TypeOK, Take
<1>5. ReleasedDead' /\ NoOrphan'
  BY <1>1, PropertyAssumption DEF IInv, OwnInv, ReleasedDead, NoOrphan, TypeOK, Take, ReturnToUser
<1>6. asleep' \subseteq asleep /\ \A u \in asleep : u # t /\ obj[u] # p
  BY <1>1 DEF IInv, NoLostWakeup, Take, Wake
<1>7. InCall' /\ NoLostWakeup' /\ UntimedOnLease'
  BY <1>1, <1>6 DEF IInv, OwnInv, TypeOK, InCall, NoLostWakeup, UntimedOnLease, Live, Take, ReturnToUser, Kinds
<1>8. QED
  BY <1>2, <1>3, <1>4, <1>5, <1>7 DEF IInv, OwnInv

LEMMA DeepenOwn ==
  ASSUME IInv, NEW t \in Tasks, NEW p \in Properties, pc[t] # "dead", t \notin asleep,
         lock_pid[p] = t, Deepen(t, p), ReturnToUser(t), ops' \in [Tasks -> Nat],
         UNCHANGED <<killed, released>>
  PROVE  IInv'
<1>1. TypeOK'
  <2>1. held[t][p] + 1 \in Nat /\ held' = [held EXCEPT ![t][p] = held[t][p] + 1]
    BY DEF IInv, OwnInv, TypeOK, Deepen
  <2>2. held' \in [Tasks -> [Properties -> Nat]]
    BY <2>1, DepthType DEF IInv, OwnInv, TypeOK
  <2>3. QED
    BY <2>2 DEF IInv, OwnInv, TypeOK, Deepen, ReturnToUser
<1>2. Shape' /\ HeldIsOwned'
  BY PropertyAssumption DEF IInv, OwnInv, TypeOK, Shape, HeldIsOwned, Deepen
<1>3. ReleasedDead' /\ NoOrphan'
  BY DEF IInv, OwnInv, TypeOK, ReleasedDead, NoOrphan, Deepen, ReturnToUser
<1>4. InCall' /\ NoLostWakeup' /\ UntimedOnLease'
  BY DEF IInv, OwnInv, TypeOK, InCall, NoLostWakeup, UntimedOnLease, Live, Deepen, ReturnToUser, Kinds
<1>5. QED
  BY <1>1, <1>2, <1>3, <1>4 DEF IInv, OwnInv

LEMMA FailOwn ==
  ASSUME IInv, NEW t \in Tasks, pc[t] # "dead", t \notin asleep, Fail(t),
         ops' \in [Tasks -> Nat], UNCHANGED <<killed, released>>
  PROVE  IInv'
<1> USE DEF Fail, property
<1>1. TypeOK'
  BY DEF IInv, OwnInv, TypeOK, ReturnToUser
<1>2. Shape' /\ HeldIsOwned' /\ ReleasedDead' /\ NoOrphan'
  BY DEF IInv, OwnInv, TypeOK, Shape, HeldIsOwned, ReleasedDead, NoOrphan, ReturnToUser
<1>3. InCall' /\ NoLostWakeup' /\ UntimedOnLease'
  BY DEF IInv, OwnInv, TypeOK, InCall, NoLostWakeup, UntimedOnLease, Live, ReturnToUser, Kinds
<1>4. QED
  BY <1>1, <1>2, <1>3 DEF IInv, OwnInv

\* A task sleeps only on the property of another, and without a timer only on a
\* lease.
LEMMA SleepOwn ==
  ASSUME IInv, NEW t \in Tasks, NEW p \in Live, NEW kind \in Kinds, pc[t] # "dead",
         state[p] \in Kinds, lock_pid[p] # t, Sleep(t, p, kind),
         armed' \subseteq Tasks, timed' \in {timed \ {t}, timed \cup {t}},
         t \notin timed' => state[p] = "leased",
         ops' \in [Tasks -> Nat], UNCHANGED <<killed, released>>
  PROVE  IInv'
<1> USE DEF Sleep, property
<1>1. p \in Properties /\ lock_pid[p] # Nobody
  BY DEF IInv, OwnInv, Shape, Live
<1>2. TypeOK'
  BY <1>1 DEF IInv, OwnInv, TypeOK
<1>3. Shape' /\ HeldIsOwned' /\ ReleasedDead' /\ NoOrphan'
  BY <1>1 DEF IInv, OwnInv, TypeOK, Shape, HeldIsOwned, ReleasedDead, NoOrphan, Kinds
<1>4. InCall'
  BY <1>1 DEF IInv, OwnInv, TypeOK, InCall
<1>5. NoLostWakeup' /\ UntimedOnLease'
  BY <1>1 DEF IInv, OwnInv, TypeOK, NoLostWakeup, UntimedOnLease, Live
<1>6. QED
  BY <1>2, <1>3, <1>4, <1>5 DEF IInv, OwnInv

LEMMA AttemptOwn ==
  ASSUME IInv, NEW t \in Tasks, NEW p \in Live, NEW kind \in Kinds, pc[t] # "dead",
         t \notin asleep, Attempt(t, p, kind), ops' \in [Tasks -> Nat],
         UNCHANGED <<killed, released>>
  PROVE  IInv'
<1>0. p \in Properties
  BY DEF Live
<1>1. CASE state[p] = "available" /\ Take(t, p, kind) /\ ReturnToUser(t)
  BY <1>0, <1>1, TakeOwn
<1>2. CASE state[p] = kind /\ lock_pid[p] = t /\ Deepen(t, p) /\ ReturnToUser(t)
  BY <1>0, <1>2, DeepenOwn
<1>3. CASE Fail(t)
  BY <1>3, FailOwn
<1>4. CASE /\ state[p] = "leased" /\ lock_pid[p] # t
           /\ Sleep(t, p, kind) /\ timed' = timed \ {t} /\ UNCHANGED armed
  <2>1. armed' \subseteq Tasks /\ state[p] \in Kinds
    BY <1>4 DEF IInv, OwnInv, TypeOK, Kinds
  <2>2. QED
    BY <1>4, <2>1, SleepOwn
<1>5. CASE state[p] = "purchased" /\ lock_pid[p] # t /\ SleepTimed(t, p, kind)
  <2>1. /\ armed' \subseteq Tasks /\ state[p] \in Kinds
        /\ timed' = timed \cup {t} /\ Sleep(t, p, kind)
    BY <1>5 DEF IInv, OwnInv, TypeOK, Kinds, SleepTimed
  <2>2. QED
    BY <1>5, <2>1, SleepOwn
<1>6. QED
  BY <1>1, <1>2, <1>3, <1>4, <1>5 DEF Attempt

-----------------------------------------------------------------------------
(* The actions *)

LEMMA AskOwn ==
  ASSUME IInv, NEW t \in Tasks, NEW p \in Properties, NEW kind \in Kinds, Ask(t, p, kind)
  PROVE  IInv'
<1>1. pc[t] # "dead" /\ t \notin asleep
  BY DEF Ask, InUser, IInv, InCall, Kinds
<1>2. ops' \in [Tasks -> Nat]
  BY DEF Ask, IInv, OwnInv, TypeOK
<1>3. QED
  BY <1>1, <1>2, AttemptOwn DEF Ask

LEMMA ResumeOwn ==
  ASSUME IInv, NEW t \in Tasks, Resume(t)
  PROVE  IInv'
<1>1. pc[t] # "dead" /\ t \notin asleep /\ pc[t] \in Kinds /\ ops' \in [Tasks -> Nat]
  BY DEF Resume, IInv, OwnInv, TypeOK, Kinds
<1>2. CASE Fail(t)
  BY <1>1, <1>2, FailOwn DEF Resume
<1>3. CASE obj[t] \in Live /\ Attempt(t, obj[t], pc[t])
  BY <1>1, <1>3, AttemptOwn DEF Resume
<1>4. QED
  BY <1>2, <1>3 DEF Resume

LEMMA CedeOwn ==
  ASSUME IInv, NEW t \in Tasks, NEW p \in Properties, Cede(t, p)
  PROVE  IInv'
<1> USE DEF Cede, CedeOnce, Wake, Sleepers, sleeping
<1>1. lock_pid[p] = t /\ count[p] > 0 /\ held[t][p] = count[p] /\ t # Nobody
  BY PropertyAssumption DEF IInv, OwnInv, Shape, HeldIsOwned
<1>2. TypeOK'
  <2>1. /\ held[t][p] - 1 \in Nat /\ count[p] - 1 \in Nat
        /\ held' = [held EXCEPT ![t][p] = held[t][p] - 1]
    BY <1>1 DEF IInv, OwnInv, TypeOK
  <2>2. held' \in [Tasks -> [Properties -> Nat]]
    BY <2>1, DepthType DEF IInv, OwnInv, TypeOK
  <2>3. QED
    BY <2>1, <2>2 DEF IInv, OwnInv, TypeOK
<1>3. Shape'
  BY <1>1 DEF IInv, OwnInv, TypeOK, Shape, Kinds
<1>4. HeldIsOwned'
  BY <1>1, PropertyAssumption DEF IInv, OwnInv, TypeOK, HeldIsOwned
<1>5. ReleasedDead' /\ NoOrphan'
  BY PropertyAssumption DEF IInv, OwnInv, TypeOK, ReleasedDead, NoOrphan
<1>6. InCall' /\ NoLostWakeup' /\ UntimedOnLease'
  BY DEF IInv, OwnInv, TypeOK, InCall, NoLostWakeup, UntimedOnLease, Live
<1>7. QED
  BY <1>2, <1>3, <1>4, <1>5, <1>6 DEF IInv, OwnInv

LEMMA HoldupOwn ==
  ASSUME IInv, NEW t \in Tasks, NEW p \in Properties, Holdup(t, p)
  PROVE  IInv'
<1> USE DEF Holdup, Kill, property, sleeping
<1>1. fusion_id[p] \in Fusionees /\ asleep' \subseteq asleep
  BY PropertyAssumption DEF IInv, OwnInv, Shape, TypeOK, Kinds
<1>2. OwnInv'
  BY <1>1 DEF IInv, OwnInv, TypeOK, Shape, HeldIsOwned, ReleasedDead, NoOrphan
<1>3. InCall' /\ NoLostWakeup' /\ UntimedOnLease'
  BY <1>1 DEF IInv, InCall, NoLostWakeup, UntimedOnLease, Live
<1>4. QED
  BY <1>2, <1>3 DEF IInv

LEMMA DestroyOwn ==
  ASSUME IInv, NEW t \in Tasks, NEW p \in Properties, Destroy(t, p)
  PROVE  IInv'
<1> USE DEF Destroy, sleeping
<1>1. TypeOK'
  <2>1. \A u \in Tasks : [held[u] EXCEPT ![p] = 0] \in [Properties -> Nat]
    BY DEF IInv, OwnInv, TypeOK
  <2>2. held' \in [Tasks -> [Properties -> Nat]] /\ asleep' \subseteq Tasks
    BY <2>1 DEF Wake, Sleepers, IInv, OwnInv, TypeOK
  <2>3. QED
    BY <2>2 DEF IInv, OwnInv, TypeOK
<1>2. Shape'
  BY DEF IInv, OwnInv, TypeOK, Shape, Kinds
<1>3. HeldIsOwned'
  BY PropertyAssumption DEF IInv, OwnInv, TypeOK, HeldIsOwned
<1>4. ReleasedDead' /\ NoOrphan'
  BY PropertyAssumption DEF IInv, OwnInv, TypeOK, ReleasedDead, NoOrphan
<1>5. asleep' \subseteq asleep /\ \A u \in asleep' : obj[u] # p
  BY DEF Wake, Sleepers
<1>6. InCall' /\ NoLostWakeup' /\ UntimedOnLease'
  BY <1>5 DEF IInv, OwnInv, TypeOK, InCall, NoLostWakeup, UntimedOnLease, Live
<1>7. QED
  BY <1>1, <1>2, <1>3, <1>4, <1>6 DEF IInv, OwnInv

\* Time passes, a signal comes, a killed task dies: the properties stay as they are.
LEMMA TimeOwn ==
  ASSUME IInv, NEW t \in Tasks, Expire(t) \/ Signal(t) \/ Exit(t)
  PROVE  IInv'
<1> USE DEF IInv, OwnInv, property, sleeping
<1>1. CASE Expire(t) \/ Signal(t)
  BY <1>1 DEF Expire, Signal, TypeOK, Shape, HeldIsOwned, ReleasedDead, NoOrphan, InCall,
     NoLostWakeup, UntimedOnLease, Live
<1>2. CASE Exit(t)
  <2>1. t \notin asleep
    BY <1>2 DEF Exit, InCall, Kinds
  <2>2. QED
    BY <1>2, <2>1 DEF Exit, TypeOK, Shape, HeldIsOwned, ReleasedDead, NoOrphan, InCall,
       NoLostWakeup, UntimedOnLease, Live, Kinds
<1>3. QED
  BY <1>1, <1>2

LEMMA TickOwn ==
  ASSUME IInv, NEW p \in Properties, Tick(p)
  PROVE  IInv'
<1> USE DEF IInv, OwnInv, Tick, sleeping
<1>1. age[p] + 1 \in 0..2
  BY DEF TypeOK
<1>2. TypeOK'
  BY <1>1 DEF TypeOK
<1>3. QED
  BY <1>2 DEF Shape, HeldIsOwned, ReleasedDead, NoOrphan, InCall, NoLostWakeup, UntimedOnLease, Live

LEMMA ReleaseOwn ==
  ASSUME IInv, NEW f \in Fusionees, Release(f)
  PROVE  IInv'
<1> DEFINE P == {p \in Live : fusion_id[p] = f}
<1> USE DEF Release, CedeAll, sleeping
<1>1. TypeOK'
  <2>1. [p \in Properties |-> 0] \in [Properties -> Nat]
    OBVIOUS
  <2>2. held' \in [Tasks -> [Properties -> Nat]]
    BY <2>1 DEF IInv, OwnInv, TypeOK
  <2>3. QED
    BY <2>2 DEF IInv, OwnInv, TypeOK
<1>2. Shape'
  BY DEF IInv, OwnInv, TypeOK, Shape, Kinds
<1>3. \A p \in Properties : p \in P <=> lock_pid[p] # Nobody /\ Owner[lock_pid[p]] = f
  BY PropertyAssumption DEF IInv, OwnInv, TypeOK, Shape, Live, Kinds
<1>4. HeldIsOwned'
  <2> SUFFICES ASSUME NEW t \in Tasks, NEW p \in Properties
               PROVE  held'[t][p] = IF lock_pid'[p] = t THEN count'[p] ELSE 0
    BY DEF HeldIsOwned
  <2>1. held[t][p] = IF lock_pid[p] = t THEN count[p] ELSE 0
    BY DEF IInv, OwnInv, HeldIsOwned
  <2>2. lock_pid'[p] = t <=> lock_pid[p] = t /\ Owner[t] # f
    BY <1>3, PropertyAssumption
  <2>3. held'[t][p] = IF Owner[t] = f THEN 0 ELSE held[t][p]
    OBVIOUS
  <2>4. QED
    BY <2>1, <2>2, <2>3
<1>5. ReleasedDead'
  BY DEF IInv, OwnInv, TypeOK, ReleasedDead
<1>6. NoOrphan'
  BY <1>3, PropertyAssumption DEF IInv, OwnInv, TypeOK, NoOrphan, Shape
<1>7. InCall' /\ NoLostWakeup' /\ UntimedOnLease'
  <2>1. asleep' \subseteq asleep /\ \A u \in asleep' : obj[u] \notin P
    OBVIOUS
  <2>2. \A u \in asleep' : obj[u] \in Properties
    BY <2>1 DEF IInv, OwnInv, TypeOK, InCall
  <2>3. \A p \in Properties \ P : state'[p] = state[p] /\ lock_pid'[p] = lock_pid[p]
    OBVIOUS
  <2>4. InCall'
    BY <2>1 DEF IInv, InCall
  <2>5. \A u \in asleep' : /\ obj[u] \in Properties \ P
                          /\ state'[obj[u]] = state[obj[u]]
                          /\ lock_pid'[obj[u]] = lock_pid[obj[u]]
    BY <2>1, <2>2, <2>3
  <2>6. UNCHANGED <<obj, timed>>
    OBVIOUS
  <2> HIDE DEF P, Release
  <2>7. NoLostWakeup'
    BY <2>1, <2>5, <2>6 DEF IInv, NoLostWakeup, Live
  <2>8. UntimedOnLease'
    BY <2>1, <2>5, <2>6 DEF IInv, UntimedOnLease
  <2>9. QED
    BY <2>4, <2>7, <2>8
<1>8. QED
  BY <1>1, <1>2, <1>4, <1>5, <1>6, <1>7 DEF IInv, OwnInv

LEMMA InvNext == IInv /\ [Next]_vars => IInv'
<1> SUFFICES ASSUME IInv, [Next]_vars PROVE IInv'
  OBVIOUS
<1>1. CASE \E t \in Tasks, p \in Properties : Operation(t, p)
  BY <1>1, AskOwn, CedeOwn, HoldupOwn, DestroyOwn DEF Operation
<1>2. CASE \E t \in Tasks : Resume(t)
  BY <1>2, ResumeOwn
<1>3. CASE \E t \in Tasks : Expire(t) \/ Signal(t) \/ Exit(t)
  BY <1>3, TimeOwn
<1>4. CASE \E p \in Properties : Tick(p)
  BY <1>4, TickOwn
<1>5. CASE \E f \in Fusionees : Release(f)
  BY <1>5, ReleaseOwn
<1>6. CASE UNCHANGED vars
  BY <1>6 DEF vars, property, sleeping, IInv, OwnInv, TypeOK, Shape, HeldIsOwned, ReleasedDead,
     NoOrphan, InCall, NoLostWakeup, UntimedOnLease, Live
<1>7. QED
  BY <1>1, <1>2, <1>3, <1>4, <1>5, <1>6 DEF Next

\* The invariant of the property code holds in every behaviour.
THEOREM Invariant == Spec => []IInv
  BY OwnInit, InvNext, PTL DEF Spec

\* The fields of a property keep their types.
THEOREM TypeCorrect == Spec => []TypeOK
<1>1. IInv => TypeOK
  BY DEF IInv, OwnInv
<1>2. QED
  BY <1>1, Invariant, PTL

\* One task owns a property, to the depth its return codes told it, although
\* processes die and properties are destroyed.
THEOREM Exclusion == Spec => []HeldIsOwned
<1>1. IInv => HeldIsOwned
  BY DEF IInv, OwnInv
<1>2. QED
  BY <1>1, Invariant, PTL

\* Nobody sleeps for a property that can be had or that is gone.
THEOREM WakeUps == Spec => []NoLostWakeup
<1>1. IInv => NoLostWakeup
  BY DEF IInv
<1>2. QED
  BY <1>1, Invariant, PTL

\* Who sleeps on a purchased property has a timer.
THEOREM Timers == Spec => []UntimedOnLease
<1>1. IInv => UntimedOnLease
  BY DEF IInv
<1>2. QED
  BY <1>1, Invariant, PTL

\* The dead own nothing.
THEOREM NoOrphans == Spec => []NoOrphan
<1>1. IInv => NoOrphan
  BY DEF IInv, OwnInv
<1>2. QED
  BY <1>1, Invariant, PTL
=============================================================================
