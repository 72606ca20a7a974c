----------------------------- MODULE Ref_proofs -----------------------------
(* Theorems about Ref, for every set of tasks and every finite set of fusionees *)
(* and references.  Three invariants build on each other: IInv, of sleepers,    *)
(* the dead and fresh references, holds whatever propagate_local adds; HeirInv  *)
(* adds that inheritance is a forest, along which every count is the sum of its *)
(* parts; LockedIsBare follows from the sum at the moment of the lock.          *)
EXTENDS Ref, SequenceTheorems, FiniteSetTheorems, WellFoundedInduction, TLAPS

\* A reference that was not created counts nothing.
Fresh ==
  \A r \in Refs : pid[r] = Nobody =>
    r \notin live /\ locked[r] = Nobody /\ \A f \in Fusionees : refs[r][f] = 0

IInv == Typed /\ Fresh /\ NoOrphan /\ NoSleepAtZero

LEMMA InvInit == Init => IInv
<1> SUFFICES ASSUME Init PROVE IInv
  OBVIOUS
<1>1. Typed
  <2>1. [f \in Fusionees |-> 0] \in [Fusionees -> Nat]
    OBVIOUS
  <2>2. <<>> \in Seq(Throws)
    OBVIOUS
  <2>3. QED
    BY <2>1, <2>2, RefAssumption DEF Init, Typed
<1>2. Fresh /\ NoOrphan /\ NoSleepAtZero
  BY DEF Init, Fresh, NoOrphan, NoSleepAtZero
<1>3. QED
  BY <1>1, <1>2 DEF IInv

-----------------------------------------------------------------------------
(* Changes of the counts *)

\* A reference that nothing propagates to keeps its count, whose count gets to
\* zero is notified: a sleeper still waits for something.
LEMMA NotifyWakes ==
  ASSUME IInv, NEW S, NEW W, NEW diff, Propagate(S, diff), Notify(S, W)
  PROVE  /\ asleep' \subseteq asleep /\ calls' \in [Refs -> Nat]
         /\ \A t \in asleep' :
              /\ obj[t] \notin W
              /\ watched[obj[t]] \/ global[obj[t]] # 0 \/ local'[obj[t]] # 0
<1>1. asleep' \subseteq asleep /\ calls' \in [Refs -> Nat]
  BY DEF Notify, IInv, Typed
<1>2. ASSUME NEW t \in asleep'
      PROVE  /\ obj[t] \notin W
             /\ watched[obj[t]] \/ global[obj[t]] # 0 \/ local'[obj[t]] # 0
  <2>1. obj[t] \in Refs /\ obj[t] \notin W
    BY <1>1 DEF Notify, IInv, Typed, NoSleepAtZero
  <2>2. CASE Above[obj[t]] \cap S = {}
    BY <1>1, <2>1, <2>2 DEF Propagate, IInv, NoSleepAtZero
  <2>3. CASE Above[obj[t]] \cap S # {}
    BY <2>1, <2>3 DEF Notify
  <2>4. QED
    BY <2>1, <2>2, <2>3
<1>3. QED
  BY <1>1, <1>2

\* The count of a fusionee after a change of it.
LEMMA RefsType ==
  ASSUME NEW h \in [Refs -> [Fusionees -> Nat]], NEW r \in Refs, NEW f \in Fusionees, NEW n \in Nat
  PROVE  [h EXCEPT ![r][f] = n] \in [Refs -> [Fusionees -> Nat]]
<1>1. [h[r] EXCEPT ![f] = n] \in [Fusionees -> Nat]
  OBVIOUS
<1>2. [h EXCEPT ![r] = [h[r] EXCEPT ![f] = n]] \in [Refs -> [Fusionees -> Nat]]
  BY <1>1
<1>3. QED
  BY <1>2

\* A change for a fusionee that may still count, or that counts less.
LEMMA ChangeKeeps ==
  ASSUME IInv, NEW r \in live, NEW f \in Fusionees, NEW n \in {1, -1},
         n = 1 => f \notin released, Change(r, f, n),
         throws' \in [Refs -> Seq(Throws)],
         ops' \in [Tasks -> Nat], UNCHANGED <<entries, locked, watched, inherited, tasks>>
  PROVE  IInv'
<1> USE DEF Change, entries, tasks
<1>1. /\ asleep' \subseteq asleep /\ calls' \in [Refs -> Nat]
      /\ \A t \in asleep' : watched[obj[t]] \/ global[obj[t]] # 0 \/ local'[obj[t]] # 0
  BY NotifyWakes
<1>2. refs' \in [Refs -> [Fusionees -> Nat]]
  <2>1. refs[r][f] + n \in Nat /\ r \in Refs
    BY DEF IInv, Typed
  <2>2. QED
    BY <2>1, RefsType DEF IInv, Typed
<1>3. Typed'
  BY <1>1, <1>2 DEF IInv, Typed
<1>4. \A x \in Refs, g \in Fusionees : refs'[x][g] = IF x = r /\ g = f THEN refs[r][f] + n ELSE refs[x][g]
  BY DEF IInv, Typed
<1>5. Fresh'
  BY <1>4 DEF IInv, Typed, Fresh
<1>6. NoOrphan'
  <2> SUFFICES ASSUME NEW x \in live, NEW g \in released PROVE refs'[x][g] = 0 /\ locked[x] # g
    BY DEF NoOrphan
  <2>1. refs[x][g] = 0 /\ locked[x] # g /\ x \in Refs /\ g \in Fusionees
    BY DEF IInv, Typed, NoOrphan
  <2>2. CASE x = r /\ g = f
    BY <2>1, <2>2
  <2>3. QED
    BY <1>4, <2>1, <2>2
<1>7. NoSleepAtZero'
  BY <1>1 DEF IInv, NoSleepAtZero
<1>8. QED
  BY <1>3, <1>5, <1>6, <1>7 DEF IInv

LEMMA CountingKeeps ==
  ASSUME IInv, NEW t \in Tasks, NEW r \in Refs, Counting(t, r)
  PROVE  IInv'
<1>0. Owner[t] \in Fusionees
  BY RefAssumption
<1>1. CASE Up(t, r)
  <2>1. r \in live /\ Owner[t] \notin released /\ ops' \in [Tasks -> Nat]
    BY <1>1 DEF Up, InUser, Free, Spend, IInv, Typed
  <2>2. throws' \in [Refs -> Seq(Throws)]
    BY <1>1 DEF Up, rest, IInv, Typed
  <2>3. QED
    BY <1>0, <1>1, <2>1, <2>2, ChangeKeeps DEF Up, rest
<1>2. CASE Down(t, r)
  <2>1. r \in live /\ ops' \in [Tasks -> Nat]
    BY <1>2 DEF Down, Free, IInv, Typed
  <2>2. throws' \in [Refs -> Seq(Throws)]
    BY <1>2 DEF Down, rest, IInv, Typed
  <2>3. -1 \in {1, -1} /\ -1 # 1
    OBVIOUS
  <2>4. Change(r, Owner[t], -1) /\ UNCHANGED <<entries, locked, watched, inherited, tasks>>
    BY <1>2 DEF Down, rest
  <2>5. QED
    BY <1>0, <2>1, <2>2, <2>3, <2>4, ChangeKeeps
<1>3. CASE UpGlobal(t, r)
  <2> USE <1>3 DEF UpGlobal, Spend, entries, rest, tasks
  <2>1. ops' \in [Tasks -> Nat] /\ global' \in [Refs -> Nat] /\ global'[r] # 0
    BY DEF IInv, Typed
  <2>2. Typed'
    BY <2>1 DEF IInv, Typed
  <2>3. Fresh' /\ NoOrphan' /\ NoSleepAtZero'
    BY <2>1 DEF IInv, Typed, Fresh, NoOrphan, NoSleepAtZero
  <2>4. QED
    BY <2>2, <2>3 DEF IInv
<1>4. CASE DownGlobal(t, r)
  <2> USE <1>4 DEF DownGlobal, entries, rest, tasks
  <2>0. global[r] - 1 \in Nat /\ calls[r] + 1 \in Nat
    BY DEF IInv, Typed
  <2>1. global' \in [Refs -> Nat] /\ calls' \in [Refs -> Nat]
    BY <2>0 DEF IInv, Typed
  <2>2. asleep' \subseteq asleep
    OBVIOUS
  <2>3. Typed'
    BY <2>1, <2>2 DEF IInv, Typed
  <2>4. ASSUME NEW u \in asleep', obj[u] = r PROVE watched[r] \/ global'[r] # 0 \/ local[r] # 0
    BY <2>1, <2>4 DEF IInv, Typed
  <2>5. Fresh' /\ NoOrphan'
    BY DEF IInv, Typed, Fresh, NoOrphan
  <2>6. NoSleepAtZero'
    BY <2>2, <2>4 DEF IInv, Typed, NoSleepAtZero
  <2>7. QED
    BY <2>3, <2>5, <2>6 DEF IInv
<1>5. CASE Catch(t, r)
  <2> USE <1>5 DEF Catch
  <2>1. r \in live
    BY DEF Free
  <2>2. PICK i \in 1..Len(throws[r]) :
          /\ throws' = [throws EXCEPT ![r] = RemoveAt(@, i)]
          /\ \/ Change(r, throws[r][i].fusion_id, -1)
             \/ UNCHANGED <<counts, asleep>>
    OBVIOUS
  <2>3. throws[r] \in Seq(Throws)
    BY DEF IInv, Typed
  <2>4. throws[r][i].fusion_id \in Fusionees
    <3>1. throws[r][i] \in Throws
      BY <2>3
    <3>2. QED
      BY <3>1 DEF Throws
  <2>5. RemoveAt(throws[r], i) \in Seq(Throws)
    <3>1. i \in Nat /\ Len(throws[r]) \in Nat
      BY <2>3
    <3>2. SubSeq(throws[r], 1, i - 1) \in Seq(Throws)
      BY <2>3, <3>1
    <3>3. SubSeq(throws[r], i + 1, Len(throws[r])) \in Seq(Throws)
      BY <2>3, <3>1
    <3>4. QED
      BY <3>2, <3>3, ConcatProperties DEF RemoveAt
  <2>6. throws' \in [Refs -> Seq(Throws)]
    BY <2>2, <2>5 DEF IInv, Typed
  <2>7. ops' \in [Tasks -> Nat] /\ -1 \in {1, -1} /\ -1 # 1
    BY DEF IInv, Typed
  <2>8. CASE Change(r, throws[r][i].fusion_id, -1)
    BY <2>1, <2>4, <2>6, <2>7, <2>8, ChangeKeeps
  <2>9. CASE UNCHANGED <<counts, asleep>>
    <3>1. UNCHANGED <<pid, live, forked, global, local, refs, calls, locked, watched, inherited,
                      obj, signalled, killed, released, asleep, ops>>
      BY <2>9 DEF counts, entries, tasks
    <3> HIDE DEF Catch
    <3>2. Typed'
      BY <2>6, <3>1 DEF IInv, Typed
    <3>3. Fresh' /\ NoOrphan' /\ NoSleepAtZero'
      BY <3>1 DEF IInv, Fresh, NoOrphan, NoSleepAtZero
    <3>4. QED
      BY <3>2, <3>3 DEF IInv
  <2>10. QED
    BY <2>2, <2>8, <2>9
<1>6. CASE \E f \in Fusionees : Throw(t, r, f)
  <2> PICK f \in Fusionees : Throw(t, r, f)
    BY <1>6
  <2> USE DEF Throw, Spend, entries, counts, tasks
  <2>1. throws[r] \in Seq(Throws)
    BY DEF IInv, Typed
  <2>2. [fusion_id |-> Owner[t], catcher |-> f] \in Throws
    BY <1>0 DEF Throws
  <2>3. Append(throws[r], [fusion_id |-> Owner[t], catcher |-> f]) \in Seq(Throws)
    BY <2>1, <2>2
  <2>4. throws' \in [Refs -> Seq(Throws)]
    BY <2>3 DEF IInv, Typed
  <2>5. ops' \in [Tasks -> Nat]
    BY DEF IInv, Typed
  <2>6. Typed'
    BY <2>4, <2>5 DEF IInv, Typed
  <2>7. Fresh' /\ NoOrphan' /\ NoSleepAtZero'
    BY DEF IInv, Fresh, NoOrphan, NoSleepAtZero
  <2>8. QED
    BY <2>6, <2>7 DEF IInv
<1>7. CASE \E from \in Refs : Inherit(t, r, from)
  <2> PICK from \in Refs : Inherit(t, r, from)
    BY <1>7
  <2> USE DEF Inherit, entries, tasks
  <2>1. /\ asleep' \subseteq asleep /\ calls' \in [Refs -> Nat]
        /\ \A u \in asleep' : watched[obj[u]] \/ global[obj[u]] # 0 \/ local'[obj[u]] # 0
    BY NotifyWakes
  <2>2. Typed'
    BY <2>1 DEF IInv, Typed
  <2>3. Fresh' /\ NoOrphan'
    BY DEF IInv, Typed, Fresh, NoOrphan
  <2>4. NoSleepAtZero'
    BY <2>1 DEF IInv, NoSleepAtZero
  <2>5. QED
    BY <2>2, <2>3, <2>4 DEF IInv
<1>8. QED
  BY <1>1, <1>2, <1>3, <1>4, <1>5, <1>6, <1>7 DEF Counting

-----------------------------------------------------------------------------
(* Locking at zero and watching *)

LEMMA AttemptKeeps ==
  ASSUME IInv, NEW t \in Tasks, NEW r \in live, Owner[t] \notin released, t \notin asleep,
         Attempt(t, r), ops' \in [Tasks -> Nat],
         UNCHANGED <<entries, counts, watched, inherited, throws>>
  PROVE  IInv'
<1> USE DEF entries, counts
<1>0. Owner[t] \in Fusionees /\ r \in Refs
  BY RefAssumption DEF IInv, Typed
<1>1. CASE Return(t) /\ UNCHANGED <<locked, asleep>>
  <2>1. Typed'
    BY <1>1 DEF Return, IInv, Typed
  <2>2. Fresh' /\ NoOrphan'
    BY <1>1 DEF Return, IInv, Typed, Fresh, NoOrphan
  <2>3. NoSleepAtZero'
    BY <1>1 DEF Return, IInv, Typed, NoSleepAtZero
  <2>4. QED
    BY <2>1, <2>2, <2>3 DEF IInv
<1>2. CASE /\ locked[r] = Nobody /\ (global[r] # 0 \/ local[r] # 0)
           /\ obj' = [obj EXCEPT ![t] = r] /\ asleep' = asleep \cup {t}
           /\ UNCHANGED <<locked, signalled, killed, released>>
  <2>1. Typed'
    BY <1>0, <1>2 DEF IInv, Typed
  <2>2. Fresh' /\ NoOrphan'
    BY <1>2 DEF IInv, Typed, Fresh, NoOrphan
  <2>3. NoSleepAtZero'
    BY <1>0, <1>2 DEF IInv, Typed, NoSleepAtZero
  <2>4. QED
    BY <2>1, <2>2, <2>3 DEF IInv
<1>3. CASE /\ locked[r] = Nobody /\ global[r] = 0 /\ local[r] = 0
           /\ locked' = [locked EXCEPT ![r] = Owner[t]]
           /\ Return(t) /\ UNCHANGED asleep
  <2>1. Typed'
    BY <1>0, <1>3 DEF Return, IInv, Typed
  <2>2. Fresh' /\ NoOrphan'
    <3>1. /\ IInv /\ released' = released /\ UNCHANGED <<pid, live, refs>>
          /\ \A x \in Refs : locked'[x] = IF x = r THEN Owner[t] ELSE locked[x]
      BY <1>0, <1>3 DEF Return, IInv, Typed
    <3>2. Fresh'
      BY <1>0, <3>1 DEF IInv, Fresh
    <3>3. NoOrphan'
      BY <1>0, <3>1 DEF IInv, Typed, NoOrphan
    <3> QED BY <3>2, <3>3
  <2>3. NoSleepAtZero'
    BY <1>0, <1>3 DEF Return, IInv, Typed, NoSleepAtZero
  <2>4. QED
    BY <2>1, <2>2, <2>3 DEF IInv
<1>4. QED
  BY <1>1, <1>2, <1>3 DEF Attempt

\* A task in user space does not sleep.
LEMMA UserAwake ==
  ASSUME IInv, NEW t \in Tasks, InUser(t)
  PROVE  t \notin asleep /\ Owner[t] \notin released
BY RefAssumption DEF InUser, IInv, Typed, NoSleepAtZero

LEMMA ZeroingKeeps ==
  ASSUME IInv, NEW t \in Tasks, NEW r \in Refs, Zeroing(t, r)
  PROVE  IInv'
<1>0. Owner[t] \in Fusionees
  BY RefAssumption
<1>1. CASE ZeroLock(t, r)
  <2>1. ops' \in [Tasks -> Nat]
    BY <1>1 DEF ZeroLock, Spend, IInv, Typed
  <2>2. QED
    BY <1>1, <2>1, UserAwake, AttemptKeeps DEF ZeroLock
<1>2. CASE ZeroTrylock(t, r)
  <2> USE <1>2 DEF ZeroTrylock, Free, Spend, entries, counts, tasks
  <2>1. Typed'
    BY <1>0 DEF IInv, Typed
  <2>2. Owner[t] \notin released
    BY UserAwake
  <2>3. Fresh' /\ NoOrphan'
    BY <2>2 DEF IInv, Typed, Fresh, NoOrphan
  <2>4. NoSleepAtZero'
    BY DEF IInv, Typed, NoSleepAtZero
  <2>5. QED
    BY <2>1, <2>3, <2>4 DEF IInv
<1>3. CASE ZeroUnlock(t, r)
  <2> USE <1>3 DEF ZeroUnlock, entries, counts, tasks
  <2>1. Typed' /\ Fresh'
    BY DEF IInv, Typed, Fresh
  <2>2. NoOrphan'
    BY RefAssumption DEF IInv, Typed, NoOrphan
  <2>3. NoSleepAtZero'
    BY DEF IInv, Typed, NoSleepAtZero
  <2>4. QED
    BY <2>1, <2>2, <2>3 DEF IInv
<1>4. CASE Watch(t, r)
  <2> USE <1>4 DEF Watch, entries, counts, tasks
  <2>1. Typed'
    BY DEF IInv, Typed
  <2>2. Fresh' /\ NoOrphan' /\ NoSleepAtZero'
    BY DEF IInv, Typed, Fresh, NoOrphan, NoSleepAtZero
  <2>3. QED
    BY <2>1, <2>2 DEF IInv
<1>5. QED
  BY <1>1, <1>2, <1>3, <1>4 DEF Zeroing

LEMMA ResumeKeeps ==
  ASSUME IInv, NEW t \in Tasks, Resume(t)
  PROVE  IInv'
<1>1. CASE Return(t) /\ UNCHANGED <<locked, asleep>>
  <2> USE <1>1 DEF Resume, Return, entries, counts
  <2>1. Typed'
    BY DEF IInv, Typed
  <2>2. Fresh' /\ NoOrphan' /\ NoSleepAtZero'
    BY DEF IInv, Typed, Fresh, NoOrphan, NoSleepAtZero
  <2>3. QED
    BY <2>1, <2>2 DEF IInv
<1>2. CASE Owner[t] \notin killed /\ obj[t] \in live /\ Attempt(t, obj[t])
  <2>1. Owner[t] \notin released /\ ops' \in [Tasks -> Nat] /\ t \notin asleep
    BY <1>2 DEF Resume, IInv, Typed
  <2>2. QED
    BY <1>2, <2>1, AttemptKeeps DEF Resume
<1>3. QED
  BY <1>1, <1>2 DEF Resume

-----------------------------------------------------------------------------
(* Entries and processes *)

LEMMA NewKeeps ==
  ASSUME IInv, NEW t \in Tasks, NEW r \in Refs, New(t, r)
  PROVE  IInv'
<1> USE DEF New, counts, rest, tasks
<1>1. Typed'
  BY DEF IInv, Typed
<1>2. Fresh'
  BY RefAssumption DEF IInv, Typed, Fresh
<1>3. NoOrphan'
  BY RefAssumption DEF IInv, Typed, Fresh, NoOrphan
<1>4. NoSleepAtZero'
  BY DEF IInv, Typed, NoSleepAtZero
<1>5. QED
  BY <1>1, <1>2, <1>3, <1>4 DEF IInv

LEMMA DestroyKeeps ==
  ASSUME IInv, NEW t \in Tasks, NEW r \in Refs, Destroy(t, r)
  PROVE  IInv'
<1> USE DEF Destroy, DropHeirs, tasks
<1>1. /\ asleep' \subseteq asleep /\ calls' \in [Refs -> Nat]
      /\ \A u \in asleep' : /\ obj[u] # r
                            /\ watched[obj[u]] \/ global[obj[u]] # 0 \/ local'[obj[u]] # 0
  BY NotifyWakes
<1>2. inherited' \in [Refs -> Refs \cup {Nobody}]
  BY DEF IInv, Typed
<1>3. UNCHANGED <<pid, forked, global, refs, locked, watched, throws, obj, signalled, killed,
                  released, ops>> /\ live' = live \ {r}
  OBVIOUS
<1> HIDE DEF Destroy
<1>4. Typed'
  BY <1>1, <1>2, <1>3 DEF IInv, Typed
<1>5. Fresh' /\ NoOrphan'
  BY <1>3 DEF IInv, Typed, Fresh, NoOrphan
<1>6. NoSleepAtZero'
  BY <1>1, <1>3 DEF IInv, Typed, NoSleepAtZero
<1>7. QED
  BY <1>4, <1>5, <1>6 DEF IInv

LEMMA ForkKeeps ==
  ASSUME IInv, NEW t \in Tasks, NEW f \in Fusionees, Fork(t, f)
  PROVE  IInv'
<1> DEFINE R == {r \in live : refs[r][f] > 0}
<1> USE DEF Fork, Spend, rest, tasks
<1>1. refs' \in [Refs -> [Fusionees -> Nat]]
  <2>1. \A r \in Refs : [refs[r] EXCEPT ![f] = refs[r][f] + 1] \in [Fusionees -> Nat]
    BY DEF IInv, Typed
  <2>2. QED
    BY <2>1 DEF IInv, Typed
<1>2. forked' \in [Refs -> Nat] /\ ops' \in [Tasks -> Nat]
  BY DEF IInv, Typed
<1>3. \A r \in Refs, g \in Fusionees : refs[r][g] = 0 => refs'[r][g] = 0
  BY DEF IInv, Typed
<1>4. UNCHANGED <<pid, live, global, local, calls, locked, watched, inherited, throws,
                  obj, signalled, killed, released, asleep>>
  OBVIOUS
<1> HIDE DEF Fork, R
<1>5. Typed'
  BY <1>1, <1>2, <1>4 DEF IInv, Typed
<1>6. Fresh' /\ NoOrphan' /\ NoSleepAtZero'
  BY <1>3, <1>4 DEF IInv, Typed, Fresh, NoOrphan, NoSleepAtZero
<1>7. QED
  BY <1>5, <1>6 DEF IInv

LEMMA SignalKeeps ==
  ASSUME IInv, NEW t \in Tasks, Signal(t)
  PROVE  IInv'
<1> USE DEF Signal, entries, counts, rest
<1>1. Typed'
  BY DEF IInv, Typed
<1>2. Fresh' /\ NoOrphan' /\ NoSleepAtZero'
  BY DEF IInv, Typed, Fresh, NoOrphan, NoSleepAtZero
<1>3. QED
  BY <1>1, <1>2 DEF IInv

LEMMA KillKeeps ==
  ASSUME IInv, NEW f \in Fusionees, Kill(f)
  PROVE  IInv'
<1> USE DEF Kill, entries, counts, rest
<1>1. Typed'
  BY DEF IInv, Typed
<1>2. Fresh' /\ NoOrphan' /\ NoSleepAtZero'
  BY DEF IInv, Typed, Fresh, NoOrphan, NoSleepAtZero
<1>3. QED
  BY <1>1, <1>2 DEF IInv

LEMMA ReleaseKeeps ==
  ASSUME IInv, NEW f \in Fusionees, Release(f)
  PROVE  IInv'
<1> DEFINE Locked == {r \in live : locked[r] = f}
<1> USE DEF Release, ClearLocal, entries
<1>1. /\ asleep' \subseteq asleep /\ calls' \in [Refs -> Nat]
      /\ \A u \in asleep' : /\ obj[u] \notin Locked
                            /\ watched[obj[u]] \/ global[obj[u]] # 0 \/ local'[obj[u]] # 0
  BY NotifyWakes
<1>2. refs' \in [Refs -> [Fusionees -> Nat]]
  <2>1. \A r \in Refs : [refs[r] EXCEPT ![f] = 0] \in [Fusionees -> Nat]
    BY DEF IInv, Typed
  <2>2. QED
    BY <2>1 DEF IInv, Typed
<1>3. locked' = [r \in Refs |-> IF r \in Locked THEN Nobody ELSE locked[r]]
  OBVIOUS
<1>4. \A r \in Refs, g \in Fusionees :
        refs'[r][g] = IF r \in live /\ g = f THEN 0 ELSE refs[r][g]
  BY DEF IInv, Typed
<1>5. /\ UNCHANGED <<pid, live, forked, global, watched, inherited, throws, obj, signalled,
                     killed, ops>>
      /\ released' = released \cup {f} /\ f \in killed
  OBVIOUS
<1> HIDE DEF Release
<1>6. Typed'
  BY <1>1, <1>2, <1>3, <1>5 DEF IInv, Typed
<1>7. Fresh'
  BY <1>3, <1>4, <1>5 DEF IInv, Typed, Fresh
<1>8. NoOrphan'
  BY <1>3, <1>4, <1>5, RefAssumption DEF IInv, Typed, NoOrphan
<1>9. NoSleepAtZero'
  BY <1>1, <1>3, <1>5 DEF IInv, Typed, NoSleepAtZero
<1>10. QED
  BY <1>6, <1>7, <1>8, <1>9 DEF IInv

LEMMA InvNext == IInv /\ [Next]_vars => IInv'
<1> SUFFICES ASSUME IInv, [Next]_vars PROVE IInv'
  OBVIOUS
<1>1. CASE \E t \in Tasks, r \in Refs : Counting(t, r) \/ Zeroing(t, r) \/ New(t, r) \/ Destroy(t, r)
  BY <1>1, CountingKeeps, ZeroingKeeps, NewKeeps, DestroyKeeps
<1>2. CASE \E t \in Tasks, f \in Fusionees : Fork(t, f)
  BY <1>2, ForkKeeps
<1>3. CASE \E t \in Tasks : Resume(t) \/ Signal(t)
  BY <1>3, ResumeKeeps, SignalKeeps
<1>4. CASE \E f \in Fusionees : Kill(f) \/ Release(f)
  BY <1>4, KillKeeps, ReleaseKeeps
<1>6. CASE UNCHANGED vars
  BY <1>6 DEF vars, entries, counts, rest, tasks, IInv, Typed, Fresh, NoOrphan, NoSleepAtZero
<1>7. QED
  BY <1>1, <1>2, <1>3, <1>4, <1>6 DEF Next, Step

\* The invariant of the reference code holds in every behaviour.
THEOREM Invariant == Spec => []IInv
  BY InvInit, InvNext, PTL DEF Spec

\* The fields of a reference keep their types.
THEOREM TypeCorrect == Spec => []Typed
<1>1. IInv => Typed
  BY DEF IInv
<1>2. QED
  BY <1>1, Invariant, PTL

\* Nobody sleeps for the zero of a reference that counts nothing, is locked or is
\* destroyed, unless it is watched.
THEOREM WakeUps == Spec => []NoSleepAtZero
<1>1. IInv => NoSleepAtZero
  BY DEF IInv
<1>2. QED
  BY <1>1, Invariant, PTL

\* The dead count nothing and lock nothing.
THEOREM NoOrphans == Spec => []NoOrphan
<1>1. IInv => NoOrphan
  BY DEF IInv
<1>2. QED
  BY <1>1, Invariant, PTL

-----------------------------------------------------------------------------
(* The calls of the watches *)

CallAtZero(r) ==
  /\ watched[r] /\ Total(r) # 0 /\ Total(r)' = 0 => calls'[r] = calls[r] + 1
  /\ calls'[r] # calls[r] => Total(r)' = 0 /\ calls'[r] = calls[r] + 1

LEMMA NotifyCalls ==
  ASSUME IInv, NEW S, NEW W, NEW diff, Propagate(S, diff), Notify(S, W), global' = global,
         NEW r \in Refs
  PROVE  CallAtZero(r)
<1> DEFINE Z == {x \in Refs : Above[x] \cap S # {} /\ local'[x] + global[x] = 0}
<1>1. calls[r] \in Nat /\ calls'[r] = calls[r] + IF r \in Z /\ watched[r] THEN 1 ELSE 0
  BY DEF Notify, IInv, Typed
<1>2. CASE Above[r] \cap S = {}
  <2>1. local'[r] = local[r] /\ calls'[r] = calls[r]
    BY <1>1, <1>2 DEF Propagate
  <2>2. QED
    BY <2>1 DEF CallAtZero, Total
<1>3. CASE Above[r] \cap S # {}
  <2>1. r \in Z <=> local'[r] + global[r] = 0
    BY <1>3
  <2>2. QED
    BY <1>1, <2>1 DEF CallAtZero, Total
<1>4. QED
  BY <1>2, <1>3

LEMMA StillCalls ==
  ASSUME NEW r, UNCHANGED <<global, local, calls>>
  PROVE  CallAtZero(r)
BY DEF CallAtZero, Total

LEMMA StepCalls ==
  ASSUME IInv, Next, NEW x \in live
  PROVE  CallAtZero(x)
<1>0. x \in Refs /\ local[x] \in Nat /\ global[x] \in Nat /\ calls[x] \in Nat
  BY DEF IInv, Typed, Next, NotNegative
<1>1. ASSUME NEW t \in Tasks, NEW r \in Refs, Counting(t, r)
      PROVE  CallAtZero(x)
  <2>1. CASE Up(t, r) \/ Down(t, r)
    BY <1>0, <2>1, NotifyCalls DEF Up, Down, Change
  <2>2. CASE UpGlobal(t, r)
    <3>1. global'[x] \in {global[x], global[x] + 1} /\ UNCHANGED <<local, calls>>
      BY <1>0, <2>2 DEF UpGlobal, IInv, Typed
    <3>2. QED
      BY <1>0, <3>1 DEF CallAtZero, Total
  <2>3. CASE DownGlobal(t, r)
    <3>1. x # r => UNCHANGED <<local[x], global[x], calls[x]>>
      BY <1>0, <2>3 DEF DownGlobal, IInv, Typed
    <3>2. CASE x = r
      <4>1. calls'[r] = calls[r] + IF local'[r] + global'[r] = 0 /\ watched[r] THEN 1 ELSE 0
        BY <1>0, <2>3, <3>2 DEF DownGlobal, IInv, Typed
      <4>2. QED
        BY <1>0, <3>2, <4>1 DEF CallAtZero, Total
    <3>3. QED
      BY <3>1, <3>2 DEF CallAtZero, Total
  <2>4. CASE Catch(t, r)
    <3>1. (\E f : Change(r, f, -1)) \/ UNCHANGED <<counts, asleep>>
      BY <2>4 DEF Catch
    <3>2. CASE \E f : Change(r, f, -1)
      BY <1>0, <3>2, NotifyCalls DEF Change
    <3>3. QED
      BY <3>1, <3>2, StillCalls DEF counts
  <2>5. CASE \E f \in Fusionees : Throw(t, r, f)
    BY <2>5, StillCalls DEF Throw, counts
  <2>6. CASE \E from \in Refs : Inherit(t, r, from)
    BY <1>0, <2>6, NotifyCalls DEF Inherit
  <2>7. QED
    BY <1>1, <2>1, <2>2, <2>3, <2>4, <2>5, <2>6 DEF Counting
<1>2. ASSUME NEW t \in Tasks, NEW r \in Refs, Zeroing(t, r) \/ New(t, r)
      PROVE  CallAtZero(x)
  BY <1>2, StillCalls DEF Zeroing, ZeroLock, ZeroTrylock, ZeroUnlock, Watch, New, counts
<1>3. ASSUME NEW t \in Tasks, NEW r \in Refs, Destroy(t, r)
      PROVE  CallAtZero(x)
  BY <1>0, <1>3, NotifyCalls DEF Destroy, DropHeirs
<1>4. ASSUME NEW t \in Tasks, NEW f \in Fusionees, Fork(t, f)
      PROVE  CallAtZero(x)
  BY <1>4, StillCalls DEF Fork
<1>5. ASSUME NEW f \in Fusionees, Release(f)
      PROVE  CallAtZero(x)
  BY <1>0, <1>5, NotifyCalls DEF Release, ClearLocal
<1>6. CASE \E t \in Tasks : Resume(t) \/ Signal(t)
  BY <1>6, StillCalls DEF Resume, Signal, counts
<1>7. CASE \E f \in Fusionees : Kill(f)
  BY <1>7, StillCalls DEF Kill, counts
<1>8. QED
  BY <1>1, <1>2, <1>3, <1>4, <1>5, <1>6, <1>7 DEF Next, Step

\* The call of a watch is executed in the step in which its reference falls to
\* zero, and in no step that leaves the count above zero.
THEOREM WatchCalls == Spec => WatchFollowsZero
<1>1. IInv /\ [Next]_vars =>
        [\A r \in live \cap live' :
           /\ watched[r] /\ Total(r) # 0 /\ Total(r)' = 0 => calls'[r] = calls[r] + 1
           /\ calls'[r] # calls[r] => Total(r)' = 0 /\ calls'[r] = calls[r] + 1]_vars
  BY StepCalls DEF CallAtZero
<1>2. QED
  BY <1>1, Invariant, PTL DEF Spec, WatchFollowsZero

-----------------------------------------------------------------------------
(* Sums *)

\* Induction, for a set of numbers.
LEMMA AllNumbers ==
  ASSUME NEW N, N \subseteq Nat, 0 \in N, \A n \in Nat : n \in N => n + 1 \in N
  PROVE  N = Nat
<1> DEFINE T == Nat \ N
<1>1. SUFFICES ASSUME T # {} PROVE FALSE
  OBVIOUS
<1>2. IsWellFoundedOn(OpToRel(<, Nat), Nat) /\ T \subseteq Nat
  BY NatLessThanWellFounded
<1> HIDE DEF T
<1>3. PICK x \in T : \A y \in T : ~(<<y, x>> \in OpToRel(<, Nat))
  BY <1>1, <1>2, WFMin
<1>4. x \in Nat /\ x \notin N /\ x # 0
  BY <1>3 DEF T
<1>5. x - 1 \in Nat /\ x - 1 < x /\ (x - 1) + 1 = x
  BY <1>4
<1>6. x - 1 \in T
  BY <1>4, <1>5 DEF T
<1>7. <<x - 1, x>> \in OpToRel(<, Nat)
  BY <1>4, <1>5 DEF OpToRel
<1> QED BY <1>3, <1>6, <1>7

Some(s) == CHOOSE x \in s : TRUE

\* f adds up the values of g over the subsets of S.
Adds(f, g, S) == f = [s \in SUBSET S |-> IF s = {} THEN 0 ELSE g[Some(s)] + f[s \ {Some(s)}]]

LEMMA SomeOne ==
  ASSUME NEW S, IsFiniteSet(S), S # {}
  PROVE  Some(S) \in S /\ IsFiniteSet(S \ {Some(S)}) /\ Cardinality(S) \in Nat
         /\ Cardinality(S \ {Some(S)}) = Cardinality(S) - 1
<1>1. Some(S) \in S
  BY DEF Some
<1> QED BY <1>1, FS_RemoveElement, FS_CardinalityType

LEMMA AddsThere ==
  ASSUME NEW S, IsFiniteSet(S), NEW g
  PROVE  \E f : Adds(f, g, S)
<1> DEFINE U(n) == {s \in SUBSET S : Cardinality(s) <= n}
           Part(f, n) == f = [s \in U(n) |-> IF s = {} THEN 0 ELSE g[Some(s)] + f[s \ {Some(s)}]]
           N == {n \in Nat : \E f : Part(f, n)}
<1>1. 0 \in N
  <2> DEFINE f == [s \in U(0) |-> 0]
  <2>1. \A s \in U(0) : s = {}
    BY FS_Subset, FS_CardinalityType, FS_EmptySet
  <2>2. Part(f, 0)
    BY <2>1
  <2> QED BY <2>2
<1>2. ASSUME NEW n \in Nat, n \in N PROVE n + 1 \in N
  <2>1. PICK f : Part(f, n)
    BY <1>2
  <2> DEFINE h == [s \in U(n + 1) |-> IF s \in U(n) THEN f[s] ELSE g[Some(s)] + f[s \ {Some(s)}]]
  <2>2. ASSUME NEW s \in U(n + 1)
        PROVE  h[s] = IF s = {} THEN 0 ELSE g[Some(s)] + h[s \ {Some(s)}]
    <3>1. IsFiniteSet(s) /\ Cardinality(s) \in Nat
      BY FS_Subset, FS_CardinalityType
    <3>2. CASE s = {}
      <4>1. s \in U(n)
        BY <3>2, FS_EmptySet
      <4> QED BY <2>1, <3>2, <4>1
    <3>3. CASE s # {}
      <4> DEFINE r == s \ {Some(s)}
      <4>1. Some(s) \in s /\ IsFiniteSet(r) /\ Cardinality(r) = Cardinality(s) - 1
        BY <3>1, <3>3, SomeOne
      <4>2. r \in U(n) /\ r \in U(n + 1)
        BY <3>1, <4>1
      <4>3. h[r] = f[r]
        BY <4>2
      <4>4. CASE s \in U(n)
        BY <2>1, <3>3, <4>3, <4>4
      <4>5. CASE s \notin U(n)
        BY <3>3, <4>3, <4>5
      <4> QED BY <4>4, <4>5
    <3> QED BY <3>2, <3>3
  <2>3. Part(h, n + 1)
    BY <2>2
  <2> HIDE DEF h, Part
  <2> QED BY <2>3
<1>3. N = Nat
  <2> HIDE DEF N
  <2>1. N \subseteq Nat
    BY DEF N
  <2> QED BY <1>1, <1>2, <2>1, AllNumbers
<1>4. Cardinality(S) \in Nat
  BY FS_CardinalityType
<1>5. U(Cardinality(S)) = SUBSET S
  BY FS_Subset
<1>6. PICK f : Part(f, Cardinality(S))
  BY <1>3, <1>4
<1> QED BY <1>5, <1>6 DEF Adds

AnyOrder(f, g, S) == \A s \in SUBSET S : \A y \in s : f[s] = g[y] + f[s \ {y}]

\* It does not matter which element is added first.
LEMMA AddsAny ==
  ASSUME NEW S, IsFiniteSet(S), NEW g, \A x \in S : g[x] \in Int, NEW f, Adds(f, g, S)
  PROVE  /\ f[{}] = 0
         /\ \A s \in SUBSET S : f[s] \in Int
         /\ AnyOrder(f, g, S)
<1> DEFINE Fine(s) == f[s] \in Int /\ \A y \in s : f[s] = g[y] + f[s \ {y}]
           N == {n \in Nat : \A s \in SUBSET S : Cardinality(s) <= n => Fine(s)}
<1>0. f[{}] = 0 /\ \A s \in SUBSET S : s # {} => f[s] = g[Some(s)] + f[s \ {Some(s)}]
  BY DEF Adds
<1>1. 0 \in N
  <2>1. \A s \in SUBSET S : Cardinality(s) <= 0 => s = {}
    BY FS_Subset, FS_EmptySet, FS_CardinalityType
  <2>2. Fine({})
    BY <1>0
  <2> HIDE DEF Fine
  <2> QED BY <2>1, <2>2
<1>2. ASSUME NEW n \in Nat, n \in N PROVE n + 1 \in N
  <2> SUFFICES ASSUME NEW s \in SUBSET S, Cardinality(s) <= n + 1
               PROVE  Fine(s)
    OBVIOUS
  <2>0. \A r \in SUBSET S : Cardinality(r) <= n => Fine(r)
    BY <1>2
  <2>1. IsFiniteSet(s) /\ Cardinality(s) \in Nat
    BY FS_Subset, FS_CardinalityType
  <2>2. CASE s = {}
    BY <1>0, <2>2
  <2>3. CASE s # {}
    <3>1. PICK x \in s : f[s] = g[x] + f[s \ {x}]
      BY <1>0, <2>1, <2>3, SomeOne
    <3>2. \A y \in s : Cardinality(s \ {y}) <= n /\ s \ {y} \in SUBSET S /\ g[y] \in Int
      <4> TAKE y \in s
      <4>1. Cardinality(s \ {y}) = Cardinality(s) - 1
        BY <2>1, FS_RemoveElement
      <4> QED BY <2>1, <4>1
    <3>3. Fine(s \ {x})
      BY <2>0, <3>2
    <3>4. f[s] \in Int
      BY <3>1, <3>2, <3>3
    <3>5. ASSUME NEW y \in s, y # x PROVE f[s] = g[y] + f[s \ {y}]
      <4> DEFINE r == (s \ {x}) \ {y}
      <4>1. Fine(s \ {y})
        BY <2>0, <3>2
      <4>2. r = (s \ {y}) \ {x} /\ r \in SUBSET S
        OBVIOUS
      <4>3. f[s \ {y}] = g[x] + f[r]
        BY <3>5, <4>1, <4>2
      <4>4. f[s \ {x}] = g[y] + f[r]
        BY <3>3, <3>5
      <4>5. Cardinality(r) <= n
        <5>1. IsFiniteSet(s \ {x}) /\ Cardinality(s \ {x}) <= n /\ Cardinality(s \ {x}) \in Nat
          BY <2>1, <3>2, FS_RemoveElement, FS_CardinalityType
        <5>2. Cardinality(r) = Cardinality(s \ {x}) - 1
          BY <3>5, <5>1, FS_RemoveElement
        <5> QED BY <5>1, <5>2
      <4>6. f[r] \in Int
        <5>1. Fine(r)
          BY <2>0, <4>2, <4>5
        <5> QED BY <5>1
      <4>7. g[x] \in Int /\ g[y] \in Int
        BY <3>2
      <4> HIDE DEF r
      <4> QED BY <3>1, <4>3, <4>4, <4>6, <4>7
    <3> QED BY <3>1, <3>4, <3>5
  <2> QED BY <2>2, <2>3
<1>3. N = Nat
  <2> HIDE DEF N
  <2>1. N \subseteq Nat
    BY DEF N
  <2> QED BY <1>1, <1>2, <2>1, AllNumbers
<1>4. \A s \in SUBSET S : Fine(s)
  BY <1>3, FS_Subset, FS_CardinalityType
<1> QED BY <1>0, <1>4 DEF AnyOrder

\* A sum is that of its values.
LEMMA AddsSame ==
  ASSUME NEW S, NEW T, NEW g, NEW k, NEW f, NEW h, Adds(f, g, S), Adds(h, k, T),
         NEW s \in SUBSET (S \cap T), IsFiniteSet(s), \A x \in s : g[x] = k[x]
  PROVE  f[s] = h[s]
<1> DEFINE N == {n \in Nat : \A r \in SUBSET s : Cardinality(r) <= n => f[r] = h[r]}
<1>0. /\ \A r \in SUBSET s : f[r] = IF r = {} THEN 0 ELSE g[Some(r)] + f[r \ {Some(r)}]
      /\ \A r \in SUBSET s : h[r] = IF r = {} THEN 0 ELSE k[Some(r)] + h[r \ {Some(r)}]
  BY DEF Adds
<1>1. 0 \in N
  <2>1. \A r \in SUBSET s : Cardinality(r) <= 0 => r = {}
    BY FS_Subset, FS_EmptySet, FS_CardinalityType
  <2> QED BY <1>0, <2>1
<1>2. ASSUME NEW n \in Nat, n \in N PROVE n + 1 \in N
  <2> SUFFICES ASSUME NEW r \in SUBSET s, Cardinality(r) <= n + 1
               PROVE  f[r] = h[r]
    OBVIOUS
  <2>1. IsFiniteSet(r) /\ Cardinality(r) \in Nat
    BY FS_Subset, FS_CardinalityType
  <2>2. CASE r = {}
    BY <1>0, <2>2
  <2>3. CASE r # {}
    <3>1. Some(r) \in r /\ Cardinality(r \ {Some(r)}) <= n /\ r \ {Some(r)} \in SUBSET s
      <4>1. Some(r) \in r /\ Cardinality(r \ {Some(r)}) = Cardinality(r) - 1
        BY <2>1, <2>3, SomeOne
      <4> QED BY <2>1, <4>1
    <3>2. f[r \ {Some(r)}] = h[r \ {Some(r)}]
      BY <1>2, <3>1
    <3> QED BY <1>0, <2>3, <3>1, <3>2
  <2> QED BY <2>2, <2>3
<1>3. N = Nat
  <2> HIDE DEF N
  <2>1. N \subseteq Nat
    BY DEF N
  <2> QED BY <1>1, <1>2, <2>1, AllNumbers
<1>4. Cardinality(s) \in Nat
  BY FS_CardinalityType
<1> QED BY <1>3, <1>4

LEMMA SumAdds ==
  ASSUME NEW g, NEW S, IsFiniteSet(S)
  PROVE  \E f : Adds(f, g, S) /\ SumOver(g, S) = f[S]
<1>1. SumOver(g, S) = (CHOOSE f : Adds(f, g, S))[S]
  BY DEF SumOver, MapThenSumSet, MapThenFoldSet, Adds, Some
<1> QED BY <1>1, AddsThere

LEMMA SumSame ==
  ASSUME NEW S, IsFiniteSet(S), NEW g, NEW k, \A x \in S : g[x] = k[x]
  PROVE  SumOver(g, S) = SumOver(k, S)
<1>1. PICK f : Adds(f, g, S) /\ SumOver(g, S) = f[S]
  BY SumAdds
<1>2. PICK h : Adds(h, k, S) /\ SumOver(k, S) = h[S]
  BY SumAdds
<1> QED BY <1>1, <1>2, AddsSame

LEMMA SumFacts ==
  ASSUME NEW S, IsFiniteSet(S), NEW g, \A x \in S : g[x] \in Int
  PROVE  /\ SumOver(g, S) \in Int
         /\ S = {} => SumOver(g, S) = 0
         /\ \A x \in S : SumOver(g, S \ {x}) \in Int /\ SumOver(g, S) = g[x] + SumOver(g, S \ {x})
<1>1. PICK f : Adds(f, g, S) /\ SumOver(g, S) = f[S]
  BY SumAdds
<1>2. f[S] \in Int /\ f[{}] = 0 /\ (\A s \in SUBSET S : f[s] \in Int) /\ AnyOrder(f, g, S)
  BY <1>1, AddsAny
<1>3. ASSUME NEW x \in S
      PROVE  SumOver(g, S \ {x}) \in Int /\ SumOver(g, S) = g[x] + SumOver(g, S \ {x})
  <2>1. f[S] = g[x] + f[S \ {x}]
    BY <1>2 DEF AnyOrder
  <2> DEFINE s == S \ {x}
  <2>2. IsFiniteSet(s) /\ s \in SUBSET (S \cap s)
    BY FS_RemoveElement
  <2>3. PICK h : Adds(h, g, s) /\ SumOver(g, s) = h[s]
    BY <2>2, SumAdds
  <2> HIDE DEF s
  <2>4. f[s] = h[s]
    BY <1>1, <2>2, <2>3, AddsSame
  <2> QED BY <1>1, <1>2, <2>1, <2>3, <2>4 DEF s
<1> QED BY <1>1, <1>2, <1>3

\* A sum of numbers is one, and is 0 only where all are.
LEMMA SumNat ==
  ASSUME NEW S, IsFiniteSet(S), NEW g, \A x \in S : g[x] \in Nat
  PROVE  SumOver(g, S) \in Nat /\ ((\A x \in S : g[x] = 0) => SumOver(g, S) = 0)
<1> DEFINE Fine(s) == SumOver(g, s) \in Nat /\ ((\A x \in s : g[x] = 0) => SumOver(g, s) = 0)
           N == {n \in Nat : \A s \in SUBSET S : Cardinality(s) <= n => Fine(s)}
<1>0. \A s \in SUBSET S : IsFiniteSet(s) /\ Cardinality(s) \in Nat /\ \A x \in s : g[x] \in Int /\ g[x] \in Nat
  BY FS_Subset, FS_CardinalityType
<1>e. Fine({})
  BY SumFacts, FS_EmptySet
<1>1. 0 \in N
  <2>1. \A s \in SUBSET S : Cardinality(s) <= 0 => s = {}
    BY FS_Subset, FS_EmptySet, FS_CardinalityType
  <2> HIDE DEF Fine
  <2> QED BY <1>e, <2>1
<1>2. ASSUME NEW n \in Nat, n \in N PROVE n + 1 \in N
  <2> SUFFICES ASSUME NEW s \in SUBSET S, Cardinality(s) <= n + 1
               PROVE  Fine(s)
    OBVIOUS
  <2>2. CASE s = {}
    BY <1>e, <2>2
  <2>3. CASE s # {}
    <3>1. PICK x \in s : TRUE
      BY <2>3
    <3>2. Cardinality(s \ {x}) = Cardinality(s) - 1
      BY <1>0, FS_RemoveElement
    <3>3. Fine(s \ {x})
      BY <1>0, <1>2, <3>2
    <3>4. SumOver(g, s) = g[x] + SumOver(g, s \ {x}) /\ g[x] \in Nat
      BY <1>0, SumFacts
    <3> QED BY <3>3, <3>4
  <2> QED BY <2>2, <2>3
<1>3. N = Nat
  <2> HIDE DEF N
  <2>1. N \subseteq Nat
    BY DEF N
  <2> QED BY <1>1, <1>2, <2>1, AllNumbers
<1> QED BY <1>0, <1>3

\* One value more, or another.
LEMMA SumChange ==
  ASSUME NEW S, IsFiniteSet(S), NEW g, \A y \in S : g[y] \in Int, NEW k,
         NEW x \in S, k[x] \in Int, \A y \in S \ {x} : k[y] = g[y]
  PROVE  SumOver(k, S) = SumOver(g, S) + k[x] - g[x]
<1>1. SumOver(g, S) = g[x] + SumOver(g, S \ {x}) /\ SumOver(g, S \ {x}) \in Int
  BY SumFacts
<1>2. \A y \in S : k[y] \in Int
  OBVIOUS
<1>3. SumOver(k, S) = k[x] + SumOver(k, S \ {x})
  BY <1>2, SumFacts
<1>4. SumOver(k, S \ {x}) = SumOver(g, S \ {x})
  BY SumSame, FS_RemoveElement
<1> QED BY <1>1, <1>3, <1>4

-----------------------------------------------------------------------------
(* The forest of references *)

\* Inheritance has no cycle, and is of living references.
Ranked(rank) ==
  \A r \in Refs : inherited[r] # Nobody => rank[inherited[r]] < rank[r]

ForestInv ==
  /\ \E rank \in [Refs -> Nat] : Ranked(rank)
  /\ \A r \in Refs : inherited[r] # Nobody => r \in live /\ inherited[r] \in live

Fixed(above) ==
  above = [r \in Refs |-> {r} \cup IF inherited[r] = Nobody THEN {} ELSE above[inherited[r]]]

\* The least sets that contain r and what they inherit from are a solution.
LEMMA AboveIs == Typed => Fixed(Above)
<1> SUFFICES ASSUME Typed PROVE Fixed(Above)
  OBVIOUS
<1> DEFINE Closed(C) == \A x \in C : inherited[x] # Nobody => inherited[x] \in C
           all(r) == {a \in Refs : \A C \in SUBSET Refs : r \in C /\ Closed(C) => a \in C}
           A == [r \in Refs |-> all(r)]
<1>1. ASSUME NEW r \in Refs
      PROVE  A[r] = {r} \cup IF inherited[r] = Nobody THEN {} ELSE A[inherited[r]]
  <2>0. inherited[r] \in Refs \cup {Nobody}
    BY DEF Typed
  <2>1. CASE inherited[r] = Nobody
    <3>1. {r} \in SUBSET Refs /\ Closed({r})
      BY <2>1
    <3> HIDE DEF Closed
    <3>2. all(r) = {r}
      BY <3>1
    <3> QED BY <2>1, <3>2
  <2>2. CASE inherited[r] # Nobody
    <3> DEFINE h == inherited[r]
    <3>1. h \in Refs
      BY <2>0, <2>2
    <3>2. ASSUME NEW a \in all(r) PROVE a \in {r} \cup all(h)
      <4> DEFINE C == {r} \cup all(h)
      <4>1. h \in all(h)
        BY <3>1
      <4>2. ASSUME NEW x \in all(h), inherited[x] # Nobody PROVE inherited[x] \in all(h)
        BY <4>2 DEF Typed
      <4>3. C \in SUBSET Refs /\ r \in C
        OBVIOUS
      <4>4. Closed(C)
        BY <4>1, <4>2
      <4> HIDE DEF C, Closed, h
      <4>5. a \in C
        BY <4>3, <4>4
      <4> QED BY <4>5 DEF C
    <3>3. ASSUME NEW a \in {r} \cup all(h) PROVE a \in all(r)
      <4> SUFFICES ASSUME NEW C \in SUBSET Refs, r \in C, Closed(C) PROVE a \in C
        BY <3>3
      <4>1. h \in C
        BY <2>2
      <4> QED BY <3>3, <4>1
    <3>4. all(r) = {r} \cup all(h)
      BY <3>2, <3>3
    <3> HIDE DEF all
    <3> QED BY <2>2, <3>1, <3>4
  <2> QED BY <2>1, <2>2
<1>2. Fixed(A)
  <2> HIDE DEF all
  <2>1. A = [r \in Refs |-> {r} \cup IF inherited[r] = Nobody THEN {} ELSE A[inherited[r]]]
    BY <1>1
  <2> HIDE DEF A
  <2> QED BY <2>1 DEF Fixed
<1>3. \E above : Fixed(above)
  BY <1>2
<1>4. Above = CHOOSE above : Fixed(above)
  BY DEF Above, Fixed
<1> HIDE DEF A
<1> QED BY <1>3, <1>4

LEMMA AboveFacts ==
  ASSUME Typed, ForestInv, NEW r \in Refs
  PROVE  /\ r \in Above[r] /\ Above[r] \in SUBSET Refs
         /\ \A a \in Above[r] : inherited[a] # r
         /\ inherited[r] = Nobody => Above[r] = {r}
         /\ inherited[r] # Nobody =>
              /\ inherited[r] \in Refs /\ Above[r] = {r} \cup Above[inherited[r]]
              /\ r \notin Above[inherited[r]]
<1>1. PICK rank \in [Refs -> Nat] : Ranked(rank)
  BY DEF ForestInv
<1>2. \A x \in Refs : /\ inherited[x] \in Refs \cup {Nobody}
                      /\ Above[x] = {x} \cup IF inherited[x] = Nobody THEN {} ELSE Above[inherited[x]]
  BY AboveIs DEF Fixed, Typed
<1> DEFINE Fine(x) == \A a \in Above[x] : a \in Refs /\ rank[a] <= rank[x]
           N == {n \in Nat : \A x \in Refs : rank[x] <= n => Fine(x)}
<1>3. ASSUME NEW n \in Nat, \A x \in Refs : rank[x] < n => Fine(x), NEW x \in Refs, rank[x] <= n
      PROVE  Fine(x)
  <2>1. CASE inherited[x] = Nobody
    BY <1>2, <2>1
  <2>2. CASE inherited[x] # Nobody
    <3>1. inherited[x] \in Refs /\ rank[inherited[x]] < rank[x]
      BY <1>1, <1>2, <2>2 DEF Ranked
    <3>2. Fine(inherited[x])
      BY <1>3, <3>1
    <3>3. \A a \in Above[x] : a = x \/ a \in Above[inherited[x]]
      BY <1>2, <2>2
    <3> QED BY <3>1, <3>2, <3>3
  <2> QED BY <2>1, <2>2
<1>4. 0 \in N
  BY <1>3
<1>5. ASSUME NEW n \in Nat, n \in N PROVE n + 1 \in N
  <2>1. \A x \in Refs : rank[x] < n + 1 => Fine(x)
    BY <1>5
  <2> HIDE DEF Fine
  <2> QED BY <1>3, <2>1
<1>6. N = Nat
  <2> HIDE DEF N
  <2>1. N \subseteq Nat
    BY DEF N
  <2> QED BY <1>4, <1>5, <2>1, AllNumbers
<1>7. \A x \in Refs : Fine(x)
  BY <1>6
<1>8. inherited[r] # Nobody => inherited[r] \in Refs /\ rank[inherited[r]] < rank[r]
  BY <1>1, <1>2 DEF Ranked
<1>9. inherited[r] # Nobody => r \notin Above[inherited[r]]
  BY <1>7, <1>8
<1>10. r \in Above[r] /\ Above[r] \in SUBSET Refs
  BY <1>2, <1>7
<1>11. \A a \in Above[r] : inherited[a] # r
  <2> SUFFICES ASSUME NEW a \in Above[r], inherited[a] = r PROVE FALSE
    OBVIOUS
  <2>1. a \in Refs /\ rank[a] <= rank[r] /\ r # Nobody
    BY <1>7, RefAssumption
  <2>2. rank[r] < rank[a]
    BY <1>1, <2>1 DEF Ranked
  <2> QED BY <2>1, <2>2
<1> QED BY <1>2, <1>8, <1>9, <1>10, <1>11

-----------------------------------------------------------------------------
(* The local counts *)

\* What a reference counts of the one it inherits from.
Base(r) == IF inherited[r] = Nobody THEN 0 ELSE local[inherited[r]]

\* A local count is the sum of its parts, also before the reference is made.
SumInv ==
  /\ local \in [Refs -> Int]
  /\ \A r \in Refs : r \in live \/ pid[r] = Nobody => local[r] = Held(r) - forked[r] + Base(r)

HeirInv == IInv /\ ForestInv /\ SumInv

\* Numbers add up to 0 only where all are.
LEMMA SumZero ==
  ASSUME NEW g \in [Fusionees -> Nat]
  PROVE  SumOver(g, Fusionees) \in Nat /\ (SumOver(g, Fusionees) = 0 <=> \A f \in Fusionees : g[f] = 0)
<1>1. \A f \in Fusionees : g[f] \in Nat /\ g[f] \in Int
  OBVIOUS
<1>2. SumOver(g, Fusionees) \in Nat /\ ((\A f \in Fusionees : g[f] = 0) => SumOver(g, Fusionees) = 0)
  BY SumNat, RefAssumption
<1>3. ASSUME NEW f \in Fusionees, SumOver(g, Fusionees) = 0 PROVE g[f] = 0
  <2>1. SumOver(g, Fusionees) = g[f] + SumOver(g, Fusionees \ {f})
    BY <1>1, SumFacts, RefAssumption
  <2>2. SumOver(g, Fusionees \ {f}) \in Nat
    BY <1>1, SumNat, FS_RemoveElement, RefAssumption
  <2> QED BY <1>1, <1>3, <2>1, <2>2
<1> QED BY <1>2, <1>3

LEMMA HeldFacts ==
  ASSUME Typed, NEW r \in Refs
  PROVE  Held(r) \in Nat /\ Held(r) = SumOver(refs[r], Fusionees) /\ forked[r] \in Nat
         /\ (Held(r) = 0 <=> \A f \in Fusionees : refs[r][f] = 0)
<1>1. Held(r) = SumOver(refs[r], Fusionees)
  BY DEF Held
<1>2. refs[r] \in [Fusionees -> Nat] /\ forked[r] \in Nat
  BY DEF Typed
<1> QED BY <1>1, <1>2, SumZero

\* One fusionee has another count of a reference.
LEMMA HeldChange ==
  ASSUME Typed, Typed', NEW r \in Refs, NEW f \in Fusionees,
         \A g \in Fusionees \ {f} : refs'[r][g] = refs[r][g]
  PROVE  Held(r)' = Held(r) + refs'[r][f] - refs[r][f]
<1>1. Held(r)' = SumOver(refs'[r], Fusionees)
  BY DEF Held
<1>2. Held(r) = SumOver(refs[r], Fusionees)
  BY HeldFacts
<1>3. \A g \in Fusionees : refs[r][g] \in Int /\ refs'[r][g] \in Int
  BY DEF Typed
<1> QED BY <1>1, <1>2, <1>3, SumChange, RefAssumption

LEMMA HeldSame ==
  ASSUME NEW r, refs'[r] = refs[r]
  PROVE  Held(r)' = Held(r)
BY DEF Held

\* What propagate_local adds to a reference.
Added(S, diff, r) == IF Above[r] \cap S = {} THEN 0 ELSE SumOver(diff, Above[r] \cap S)

LEMMA AddedFacts ==
  ASSUME Typed, ForestInv, NEW S \in SUBSET Refs, NEW diff \in [Refs -> Int], NEW r \in Refs
  PROVE  /\ Added(S, diff, r) \in Int
         /\ Added(S, diff, r) = (IF r \in S THEN diff[r] ELSE 0)
                                + (IF inherited[r] = Nobody THEN 0 ELSE Added(S, diff, inherited[r]))
<1>1. ASSUME NEW x \in Refs
      PROVE  /\ IsFiniteSet(Above[x] \cap S) /\ Above[x] \cap S \in SUBSET Refs
             /\ SumOver(diff, Above[x] \cap S) \in Int
             /\ Added(S, diff, x) = SumOver(diff, Above[x] \cap S)
  <2>1. Above[x] \cap S \in SUBSET Refs
    BY AboveFacts
  <2>2. IsFiniteSet(Above[x] \cap S)
    BY <2>1, FS_Subset, RefAssumption
  <2>3. SumOver(diff, Above[x] \cap S) \in Int /\ (Above[x] \cap S = {} => SumOver(diff, Above[x] \cap S) = 0)
    BY <2>1, <2>2, SumFacts
  <2> QED BY <2>1, <2>2, <2>3 DEF Added
<1> DEFINE T == Above[r] \cap S
           U == IF inherited[r] = Nobody THEN {} ELSE Above[inherited[r]] \cap S
<1>2. r \notin U /\ T = (IF r \in S THEN {r} ELSE {}) \cup U
  BY AboveFacts
<1>3. /\ SumOver(diff, U) = IF inherited[r] = Nobody THEN 0 ELSE Added(S, diff, inherited[r])
      /\ SumOver(diff, U) \in Int
  <2>1. CASE inherited[r] = Nobody
    <3>1. SumOver(diff, {}) = 0
      BY SumFacts, FS_EmptySet
    <3> QED BY <2>1, <3>1
  <2>2. CASE inherited[r] # Nobody
    <3>1. inherited[r] \in Refs
      BY <2>2, AboveFacts
    <3> QED BY <1>1, <2>2, <3>1
  <2> QED BY <2>1, <2>2
<1>4. Added(S, diff, r) = SumOver(diff, T) /\ SumOver(diff, T) \in Int /\ IsFiniteSet(T) /\ \A x \in T : diff[x] \in Int
  BY <1>1
<1> HIDE DEF T, U
<1>5. CASE r \in S
  <2>1. r \in T /\ T \ {r} = U
    BY <1>2, <1>5
  <2>2. SumOver(diff, T) = diff[r] + SumOver(diff, T \ {r})
    BY <1>4, <2>1, SumFacts
  <2> QED BY <1>3, <1>4, <1>5, <2>1, <2>2
<1>6. CASE r \notin S
  <2>1. T = U
    BY <1>2, <1>6
  <2> QED BY <1>3, <1>4, <1>6, <2>1
<1> QED BY <1>5, <1>6

LEMMA PropagateAdds ==
  ASSUME HeirInv, NEW S \in SUBSET Refs, NEW diff \in [Refs -> Int], Propagate(S, diff)
  PROVE  /\ local' \in [Refs -> Int]
         /\ \A r \in Refs :
              local'[r] = local[r] + (IF r \in S THEN diff[r] ELSE 0)
                          + (IF inherited[r] = Nobody THEN 0 ELSE local'[inherited[r]] - local[inherited[r]])
         /\ \A r \in Refs : Above[r] \cap S = {} => local'[r] = local[r]
<1>0. Typed /\ ForestInv /\ local \in [Refs -> Int] /\ \A r \in Refs : inherited[r] \in Refs \cup {Nobody}
  BY DEF HeirInv, IInv, SumInv, Typed
<1>1. ASSUME NEW r \in Refs PROVE local'[r] = local[r] + Added(S, diff, r)
  <2>1. local'[r] = IF Above[r] \cap S = {} THEN local[r]
                    ELSE local[r] + SumOver(diff, Above[r] \cap S)
    BY DEF Propagate
  <2>2. local[r] \in Int /\ local[r] + 0 = local[r]
    BY <1>0
  <2> QED BY <2>1, <2>2 DEF Added
<1>2. \A r \in Refs : Added(S, diff, r) \in Int
  BY <1>0, AddedFacts
<1>3. local' \in [Refs -> Int]
  <2>1. \A r \in Refs : local'[r] \in Int
    BY <1>0, <1>1, <1>2
  <2> QED BY <2>1 DEF Propagate
<1>4. ASSUME NEW r \in Refs
      PROVE  local'[r] = local[r] + (IF r \in S THEN diff[r] ELSE 0)
                         + (IF inherited[r] = Nobody THEN 0 ELSE local'[inherited[r]] - local[inherited[r]])
  <2>1. Added(S, diff, r) = (IF r \in S THEN diff[r] ELSE 0)
                            + (IF inherited[r] = Nobody THEN 0 ELSE Added(S, diff, inherited[r]))
    BY <1>0, AddedFacts
  <2>2. inherited[r] # Nobody =>
          /\ local'[inherited[r]] - local[inherited[r]] = Added(S, diff, inherited[r])
          /\ Added(S, diff, inherited[r]) \in Int
    BY <1>0, <1>1, <1>2
  <2>3. local[r] \in Int /\ local'[r] = local[r] + Added(S, diff, r) /\ (IF r \in S THEN diff[r] ELSE 0) \in Int
    BY <1>0, <1>1
  <2>4. CASE inherited[r] = Nobody
    BY <2>1, <2>3, <2>4
  <2>5. CASE inherited[r] # Nobody
    BY <2>1, <2>2, <2>3, <2>5
  <2> QED BY <2>4, <2>5
<1>5. \A r \in Refs : Above[r] \cap S = {} => local'[r] = local[r]
  BY DEF Propagate
<1> QED BY <1>3, <1>4, <1>5

\* Changes of the parts that are propagated keep the sums.
LEMMA SumKept ==
  ASSUME HeirInv, NEW S \in SUBSET Refs, NEW diff \in [Refs -> Int], Propagate(S, diff), Typed',
         UNCHANGED <<pid, live, inherited>>,
         \A r \in Refs : r \in live \/ pid[r] = Nobody =>
           Held(r)' - forked'[r] = Held(r) - forked[r] + IF r \in S THEN diff[r] ELSE 0
  PROVE  SumInv'
<1>1. local' \in [Refs -> Int]
  BY PropagateAdds
<1>2. ASSUME NEW r \in Refs, r \in live \/ pid[r] = Nobody
      PROVE  local'[r] = Held(r)' - forked'[r] + Base(r)'
  <2> DEFINE d == IF r \in S THEN diff[r] ELSE 0
             h == Held(r) - forked[r]
             k == Held(r)' - forked'[r]
  <2>1. d \in Int /\ h \in Int /\ k = h + d
    <3>1. Held(r) \in Nat /\ forked[r] \in Nat
      BY HeldFacts DEF HeirInv, IInv
    <3> QED BY <1>2, <3>1
  <2>2. local[r] = h + Base(r)
    BY <1>2 DEF HeirInv, SumInv
  <2>3. local'[r] = local[r] + d + (IF inherited[r] = Nobody THEN 0 ELSE local'[inherited[r]] - local[inherited[r]])
    BY PropagateAdds
  <2>4. inherited[r] # Nobody => local[inherited[r]] \in Int /\ local'[inherited[r]] \in Int
    BY <1>1 DEF HeirInv, IInv, SumInv, Typed
  <2>5. Base(r)' = IF inherited[r] = Nobody THEN 0 ELSE local'[inherited[r]]
    BY DEF Base
  <2>6. Base(r) = IF inherited[r] = Nobody THEN 0 ELSE local[inherited[r]]
    BY DEF Base
  <2> HIDE DEF d, h, k
  <2>7. local'[r] = k + Base(r)'
    <3>1. CASE inherited[r] = Nobody
      BY <2>1, <2>2, <2>3, <2>5, <2>6, <3>1
    <3>2. CASE inherited[r] # Nobody
      BY <2>1, <2>2, <2>3, <2>4, <2>5, <2>6, <3>2
    <3> QED BY <3>1, <3>2
  <2> QED BY <2>7 DEF k
<1> QED BY <1>1, <1>2 DEF SumInv

\* Steps that change no count.
LEMMA SumStays ==
  ASSUME SumInv, UNCHANGED <<pid, live, inherited, local, refs, forked>>
  PROVE  SumInv'
<1>1. \A r : Held(r)' = Held(r) /\ Base(r)' = Base(r)
  BY DEF Held, Base
<1> QED BY <1>1 DEF SumInv

LEMMA ForestStays ==
  ASSUME ForestInv, UNCHANGED <<live, inherited>>
  PROVE  ForestInv'
BY DEF ForestInv, Ranked

\* A change of one count.
LEMMA ChangeSums ==
  ASSUME HeirInv, Typed', NEW r \in live, NEW f \in Fusionees, NEW n \in {1, -1}, Change(r, f, n),
         UNCHANGED <<entries, inherited>>
  PROVE  ForestInv' /\ SumInv'
<1>0. Typed /\ r \in Refs
  BY DEF HeirInv, IInv, Typed
<1>1. \A x \in Refs, g \in Fusionees : refs'[x][g] = IF x = r /\ g = f THEN refs[r][f] + n ELSE refs[x][g]
  BY <1>0 DEF Change, Typed
<1>2. UNCHANGED <<pid, live, inherited>> /\ \A x \in Refs : forked'[x] = forked[x]
  BY DEF entries
<1> DEFINE diff == [a \in Refs |-> n]
<1>3. Propagate({r}, diff) /\ {r} \in SUBSET Refs /\ diff \in [Refs -> Int]
  BY <1>0 DEF Change
<1>4. ASSUME NEW x \in Refs
      PROVE  Held(x)' - forked'[x] = Held(x) - forked[x] + IF x \in {r} THEN diff[x] ELSE 0
  <2>1. Held(x) \in Nat /\ forked[x] \in Nat /\ refs[x][f] \in Nat
    <3>1. Held(x) \in Nat /\ forked[x] \in Nat
      BY <1>0, HeldFacts
    <3>2. refs[x][f] \in Nat
      BY <1>0 DEF Typed
    <3> QED BY <3>1, <3>2
  <2>2. CASE x = r
    <3>1. Held(x)' = Held(x) + refs'[x][f] - refs[x][f]
      BY <1>0, <1>1, <2>2, HeldChange
    <3>2. refs'[x][f] = refs[x][f] + n /\ diff[x] = n /\ n \in Int
      BY <1>1, <2>2
    <3> HIDE DEF diff
    <3> QED BY <1>2, <2>1, <2>2, <3>1, <3>2
  <2>3. CASE x # r
    <3>1. refs'[x] = refs[x]
      BY <1>0, <2>3 DEF Change, Typed
    <3>2. Held(x)' = Held(x)
      BY <3>1, HeldSame
    <3> HIDE DEF diff
    <3> QED BY <1>2, <2>1, <2>3, <3>2
  <2> QED BY <2>2, <2>3
<1> HIDE DEF diff
<1>5. SumInv'
  BY <1>2, <1>3, <1>4, SumKept
<1> QED BY <1>2, <1>5, ForestStays DEF HeirInv

\* What only follows the reference it inherits from keeps its sum.
LEMMA SumFollows ==
  ASSUME HeirInv, local' \in [Refs -> Int], NEW x \in Refs, x \in live \/ pid[x] = Nobody,
         Held(x)' = Held(x), forked'[x] = forked[x], inherited'[x] = inherited[x],
         local'[x] = local[x] + 0
                     + (IF inherited[x] = Nobody THEN 0 ELSE local'[inherited[x]] - local[inherited[x]])
  PROVE  local'[x] = Held(x)' - forked'[x] + Base(x)'
<1>0. Typed /\ SumInv /\ local \in [Refs -> Int]
  BY DEF HeirInv, IInv, SumInv
<1>1. Held(x) \in Nat /\ forked[x] \in Nat
  BY <1>0, HeldFacts
<1>2. local[x] = Held(x) - forked[x] + Base(x) /\ local[x] \in Int
  BY <1>0 DEF SumInv
<1>3. CASE inherited[x] = Nobody
  <2>1. Base(x) = 0 /\ Base(x)' = 0
    BY <1>3 DEF Base
  <2>2. local'[x] = local[x] + 0 + 0
    BY <1>3
  <2> QED BY <1>1, <1>2, <2>1, <2>2
<1>4. CASE inherited[x] # Nobody
  <2> DEFINE h == inherited[x]
  <2>1. Base(x) = local[h] /\ Base(x)' = local'[h]
    BY <1>4 DEF Base
  <2>2. local'[x] = local[x] + 0 + (local'[h] - local[h])
    BY <1>4
  <2>3. local[h] \in Int /\ local'[h] \in Int
    BY <1>0, <1>4 DEF Typed
  <2> HIDE DEF h
  <2> QED BY <1>1, <1>2, <2>1, <2>2, <2>3
<1> QED BY <1>3, <1>4

\* The new heir counts what its ancestor does.
LEMMA InheritSums ==
  ASSUME HeirInv, NEW t \in Tasks, NEW r \in Refs, NEW from \in Refs, Inherit(t, r, from)
  PROVE  ForestInv' /\ SumInv'
<1> DEFINE diff == [a \in Refs |-> local[from]]
<1>0. Typed /\ ForestInv /\ SumInv /\ local \in [Refs -> Int] /\ Nobody \notin Refs
  BY RefAssumption DEF HeirInv, IInv, SumInv
<1>1. /\ {r, from} \subseteq live /\ r \notin Above[from] /\ inherited[r] = Nobody
      /\ Propagate({r}, diff) /\ UNCHANGED <<refs, pid, live, forked>>
      /\ inherited' = [inherited EXCEPT ![r] = from]
  BY DEF Inherit, entries
<1>2. {r} \in SUBSET Refs /\ diff \in [Refs -> Int]
  BY <1>0
<1>3. \A x \in Refs : inherited'[x] = IF x = r THEN from ELSE inherited[x]
  BY <1>0, <1>1 DEF Typed
<1>4. ForestInv'
  <2>1. PICK rank \in [Refs -> Nat] : Ranked(rank)
    BY <1>0 DEF ForestInv
  <2> DEFINE new == [x \in Refs |-> IF r \in Above[x] THEN rank[x] + rank[from] + 1 ELSE rank[x]]
  <2>2. new \in [Refs -> Nat]
    BY <2>1
  <2>3. ASSUME NEW x \in Refs, inherited'[x] # Nobody
        PROVE  new[inherited'[x]] < new[x]
    <3>1. CASE x = r
      <4>1. r \in Above[r] /\ inherited'[x] = from
        BY <1>0, <1>3, <3>1, AboveFacts
      <4>2. new[from] = rank[from] /\ new[x] = rank[r] + rank[from] + 1
        BY <1>1, <3>1, <4>1
      <4>3. rank[from] \in Nat /\ rank[r] \in Nat
        OBVIOUS
      <4> HIDE DEF new
      <4> QED BY <4>1, <4>2, <4>3
    <3>2. CASE x # r
      <4> DEFINE h == inherited[x]
      <4>1. inherited'[x] = h /\ h # Nobody /\ h \in Refs
        BY <1>0, <1>3, <2>3, <3>2 DEF Typed
      <4>2. Above[x] = {x} \cup Above[h]
        BY <1>0, <4>1, AboveFacts
      <4>3. r \in Above[x] <=> r \in Above[h]
        BY <3>2, <4>2
      <4>4. rank[h] < rank[x] /\ rank[h] \in Nat /\ rank[x] \in Nat /\ rank[from] \in Nat
        BY <2>1, <4>1 DEF Ranked
      <4> HIDE DEF h
      <4>5. new[h] < new[x]
        BY <4>1, <4>3, <4>4
      <4> QED BY <4>1, <4>5
    <3> QED BY <3>1, <3>2
  <2> HIDE DEF new
  <2>4. PICK next \in [Refs -> Nat] : next = new
    BY <2>2
  <2>5. Ranked(next)'
    <3>1. \A x \in Refs : inherited'[x] # Nobody => next[inherited'[x]] < next[x]
      BY <2>3, <2>4
    <3> QED BY <3>1 DEF Ranked
  <2>6. \A x \in Refs : inherited'[x] # Nobody => x \in live' /\ inherited'[x] \in live'
    BY <1>0, <1>1, <1>3 DEF ForestInv
  <2> QED BY <2>5, <2>6 DEF ForestInv
<1>5. /\ local' \in [Refs -> Int]
      /\ \A x \in Refs :
           local'[x] = local[x] + (IF x \in {r} THEN diff[x] ELSE 0)
                       + (IF inherited[x] = Nobody THEN 0 ELSE local'[inherited[x]] - local[inherited[x]])
      /\ local'[from] = local[from]
  <2>1. Above[from] \cap {r} = {}
    BY <1>1
  <2> HIDE DEF diff
  <2> QED BY <1>1, <1>2, <2>1, PropagateAdds
<1>6. ASSUME NEW x \in Refs, x \in live \/ pid[x] = Nobody
      PROVE  local'[x] = Held(x)' - forked'[x] + Base(x)'
  <2>1. Held(x)' = Held(x) /\ forked'[x] = forked[x] /\ Held(x) \in Nat /\ forked[x] \in Nat
    BY <1>0, <1>1, HeldSame, HeldFacts
  <2>2. local[x] = Held(x) - forked[x] + Base(x)
    BY <1>0, <1>6 DEF SumInv
  <2>3. CASE x = r
    <3>1. Base(x) = 0 /\ Base(x)' = local'[from]
      BY <1>0, <1>1, <1>3, <2>3 DEF Base
    <3>2. local'[x] = local[x] + local[from]
      <4>1. local'[x] = local[x] + diff[x] + 0 /\ diff[x] = local[from]
        BY <1>1, <1>5, <2>3
      <4>2. local[x] \in Int /\ local[from] \in Int
        BY <1>0
      <4> HIDE DEF diff
      <4> QED BY <4>1, <4>2
    <3>3. local[x] \in Int /\ local[from] \in Int
      BY <1>0
    <3> QED BY <1>5, <2>1, <2>2, <3>1, <3>2, <3>3
  <2>4. CASE x # r
    <3>1. inherited'[x] = inherited[x]
      BY <1>3, <2>4
    <3>2. local'[x] = local[x] + 0
                      + (IF inherited[x] = Nobody THEN 0 ELSE local'[inherited[x]] - local[inherited[x]])
      BY <1>5, <2>4
    <3> HIDE DEF diff
    <3> QED BY <1>5, <1>6, <2>1, <3>1, <3>2, SumFollows
  <2> QED BY <2>3, <2>4
<1>7. SumInv'
  BY <1>1, <1>5, <1>6 DEF SumInv
<1> QED BY <1>4, <1>7

\* The heirs give back what they inherited.
LEMMA DestroySums ==
  ASSUME HeirInv, NEW t \in Tasks, NEW r \in Refs, Destroy(t, r)
  PROVE  ForestInv' /\ SumInv'
<1> DEFINE Heirs == {h \in Refs : inherited[h] = r}
           diff == [h \in Refs |-> -local[r]]
<1>0. Typed /\ Fresh /\ ForestInv /\ SumInv /\ local \in [Refs -> Int] /\ Nobody \notin Refs
  BY RefAssumption DEF HeirInv, IInv, SumInv
<1>1. /\ r \in live /\ live' = live \ {r}
      /\ Propagate(Heirs, diff) /\ UNCHANGED <<refs, pid, forked>>
      /\ inherited' = [h \in Refs |-> IF h = r \/ h \in Heirs THEN Nobody ELSE inherited[h]]
  BY DEF Destroy, DropHeirs
<1>2. Heirs \in SUBSET Refs /\ diff \in [Refs -> Int]
  BY <1>0
<1>3. \A x \in Refs : inherited'[x] = IF x = r \/ inherited[x] = r THEN Nobody ELSE inherited[x]
  BY <1>1
<1>4. ForestInv'
  <2>1. PICK rank \in [Refs -> Nat] : Ranked(rank)
    BY <1>0 DEF ForestInv
  <2>2. Ranked(rank)'
    <3>1. \A x \in Refs : inherited'[x] # Nobody => rank[inherited'[x]] < rank[x]
      BY <1>3, <2>1 DEF Ranked
    <3> QED BY <3>1 DEF Ranked
  <2>3. \A x \in Refs : inherited'[x] # Nobody => x \in live' /\ inherited'[x] \in live'
    BY <1>0, <1>1, <1>3 DEF ForestInv
  <2> QED BY <2>2, <2>3 DEF ForestInv
<1>5. /\ local' \in [Refs -> Int]
      /\ \A x \in Refs :
           local'[x] = local[x] + (IF x \in Heirs THEN diff[x] ELSE 0)
                       + (IF inherited[x] = Nobody THEN 0 ELSE local'[inherited[x]] - local[inherited[x]])
      /\ local'[r] = local[r]
  <2>1. Above[r] \cap Heirs = {}
    BY <1>0, AboveFacts
  <2> HIDE DEF diff, Heirs
  <2> QED BY <1>1, <1>2, <2>1, PropagateAdds
<1>6. ASSUME NEW x \in Refs, x \in live' \/ pid'[x] = Nobody
      PROVE  local'[x] = Held(x)' - forked'[x] + Base(x)'
  <2>0. x # r /\ (x \in live \/ pid[x] = Nobody)
    BY <1>0, <1>1, <1>6 DEF Fresh
  <2>1. Held(x)' = Held(x) /\ forked'[x] = forked[x] /\ Held(x) \in Nat /\ forked[x] \in Nat
    BY <1>0, <1>1, HeldSame, HeldFacts
  <2>2. local[x] = Held(x) - forked[x] + Base(x)
    BY <1>0, <2>0 DEF SumInv
  <2>3. CASE inherited[x] = r
    <3>1. Base(x) = local[r] /\ Base(x)' = 0
      BY <1>0, <1>3, <2>3 DEF Base
    <3>2. local'[x] = local[x] + diff[x] + (local'[r] - local[r]) /\ diff[x] = -local[r]
      BY <1>0, <1>5, <2>3
    <3>3. local[x] \in Int /\ local[r] \in Int
      BY <1>0
    <3> HIDE DEF diff, Heirs
    <3> QED BY <1>5, <2>1, <2>2, <3>1, <3>2, <3>3
  <2>4. CASE inherited[x] # r
    <3>1. inherited'[x] = inherited[x]
      BY <1>3, <2>0, <2>4
    <3>2. local'[x] = local[x] + 0
                      + (IF inherited[x] = Nobody THEN 0 ELSE local'[inherited[x]] - local[inherited[x]])
      BY <1>5, <2>4
    <3> HIDE DEF diff, Heirs
    <3> QED BY <1>5, <2>0, <2>1, <3>1, <3>2, SumFollows
  <2> QED BY <2>3, <2>4
<1>7. SumInv'
  BY <1>5, <1>6 DEF SumInv
<1> QED BY <1>4, <1>7

\* A fork adds as much to what is held as to what it added.
LEMMA ForkSums ==
  ASSUME HeirInv, Typed', NEW t \in Tasks, NEW from \in Fusionees, Fork(t, from)
  PROVE  ForestInv' /\ SumInv'
<1> DEFINE R == {r \in live : refs[r][from] > 0}
<1>0. Typed /\ SumInv
  BY DEF HeirInv, IInv
<1>1. UNCHANGED <<pid, live, local, inherited>>
  BY DEF Fork, rest
<1>2. ASSUME NEW x \in Refs PROVE Held(x)' - forked'[x] = Held(x) - forked[x]
  <2>0. Held(x) \in Nat /\ forked[x] \in Nat /\ refs[x][from] \in Nat /\ refs[x] \in [Fusionees -> Nat]
    <3>1. Held(x) \in Nat /\ forked[x] \in Nat
      BY <1>0, HeldFacts
    <3>2. refs[x][from] \in Nat /\ refs[x] \in [Fusionees -> Nat]
      BY <1>0 DEF Typed
    <3> QED BY <3>1, <3>2
  <2>1. CASE x \in R
    <3>1. refs'[x] = [refs[x] EXCEPT ![from] = @ + 1] /\ forked'[x] = forked[x] + 1
      BY <2>1 DEF Fork
    <3>2. refs'[x][from] = refs[x][from] + 1 /\ \A g \in Fusionees \ {from} : refs'[x][g] = refs[x][g]
      BY <2>0, <3>1
    <3>3. Held(x)' = Held(x) + refs'[x][from] - refs[x][from]
      BY <1>0, <3>2, HeldChange
    <3> HIDE DEF R
    <3> QED BY <2>0, <3>1, <3>2, <3>3
  <2>2. CASE x \notin R
    <3>1. refs'[x] = refs[x] /\ forked'[x] = forked[x] + 0
      BY <2>2 DEF Fork
    <3>2. Held(x)' = Held(x)
      BY <3>1, HeldSame
    <3> QED BY <2>0, <3>1, <3>2
  <2> QED BY <2>1, <2>2
<1>3. \A x \in Refs : Base(x)' = Base(x) /\ (inherited[x] # Nobody => inherited[x] \in Refs)
  BY <1>0, <1>1 DEF Base, Typed
<1>4. SumInv'
  BY <1>0, <1>1, <1>2, <1>3 DEF SumInv
<1> QED BY <1>1, <1>4, ForestStays DEF HeirInv

\* What the dead counted leaves the sum.
LEMMA ReleaseSums ==
  ASSUME HeirInv, Typed', NEW f \in Fusionees, Release(f)
  PROVE  ForestInv' /\ SumInv'
<1> DEFINE Counted == {r \in live : refs[r][f] > 0}
           diff == [r \in Refs |-> -refs[r][f]]
<1>0. Typed /\ Fresh /\ live \subseteq Refs
  BY DEF HeirInv, IInv, Typed
<1>1. /\ Propagate(Counted, diff) /\ UNCHANGED <<pid, live, inherited, forked>>
      /\ refs' = [r \in Refs |-> IF r \in live THEN [refs[r] EXCEPT ![f] = 0] ELSE refs[r]]
  BY DEF Release, ClearLocal, entries
<1>2. Counted \in SUBSET Refs /\ diff \in [Refs -> Int]
  BY <1>0 DEF Typed
<1>3. ASSUME NEW x \in Refs, x \in live \/ pid[x] = Nobody
      PROVE  Held(x)' - forked'[x] = Held(x) - forked[x] + IF x \in Counted THEN diff[x] ELSE 0
  <2>0. Held(x) \in Nat /\ forked[x] \in Nat /\ refs[x][f] \in Nat /\ refs[x] \in [Fusionees -> Nat]
    <3>1. Held(x) \in Nat /\ forked[x] \in Nat
      BY <1>0, HeldFacts
    <3>2. refs[x][f] \in Nat /\ refs[x] \in [Fusionees -> Nat]
      BY <1>0 DEF Typed
    <3> QED BY <3>1, <3>2
  <2>1. refs'[x][f] = 0 /\ \A g \in Fusionees \ {f} : refs'[x][g] = refs[x][g]
    BY <1>0, <1>1, <1>3, <2>0 DEF Fresh
  <2>2. Held(x)' = Held(x) + refs'[x][f] - refs[x][f]
    BY <1>0, <2>1, HeldChange
  <2>3. (IF x \in Counted THEN diff[x] ELSE 0) = -refs[x][f]
    BY <1>0, <1>3, <2>0 DEF Fresh
  <2>4. forked'[x] = forked[x]
    BY <1>1
  <2> HIDE DEF diff, Counted
  <2> QED BY <2>0, <2>1, <2>2, <2>3, <2>4
<1> HIDE DEF diff, Counted
<1>4. SumInv'
  BY <1>1, <1>2, <1>3, SumKept
<1> QED BY <1>1, <1>4, ForestStays DEF HeirInv

LEMMA HeirInit == Init => HeirInv
<1> SUFFICES ASSUME Init PROVE HeirInv
  OBVIOUS
<1>1. IInv
  BY InvInit
<1>2. ForestInv
  <2>1. [r \in Refs |-> 0] \in [Refs -> Nat]
    OBVIOUS
  <2>2. Ranked([r \in Refs |-> 0])
    BY DEF Init, Ranked
  <2> QED BY <2>1, <2>2 DEF Init, ForestInv
<1>3. SumInv
  <2>1. ASSUME NEW r \in Refs PROVE local[r] = Held(r) - forked[r] + Base(r)
    <3>1. Held(r) = 0
      BY <1>1, HeldFacts DEF Init, IInv
    <3> QED BY <3>1 DEF Init, Base
  <2> QED BY <2>1 DEF Init, SumInv
<1> QED BY <1>1, <1>2, <1>3 DEF HeirInv

LEMMA HeirNext == HeirInv /\ [Next]_vars => HeirInv'
<1> SUFFICES ASSUME HeirInv, [Next]_vars PROVE HeirInv'
  OBVIOUS
<1>0. IInv /\ Typed /\ ForestInv /\ SumInv
  BY DEF HeirInv, IInv
<1>1. IInv' /\ Typed'
  BY <1>0, InvNext DEF IInv
<1>2. ASSUME NEW t \in Tasks, NEW r \in Refs, Counting(t, r)
      PROVE  ForestInv' /\ SumInv'
  <2>0. Owner[t] \in Fusionees /\ -1 \in {1, -1}
    BY RefAssumption
  <2>1. CASE Up(t, r) \/ Down(t, r)
    <3>1. r \in live /\ UNCHANGED <<entries, inherited>>
      BY <2>1 DEF Up, Down, Free, rest
    <3>2. Change(r, Owner[t], 1) \/ Change(r, Owner[t], -1)
      BY <2>1 DEF Up, Down
    <3> QED BY <1>1, <2>0, <3>1, <3>2, ChangeSums
  <2>2. CASE Catch(t, r)
    <3>1. r \in live /\ UNCHANGED <<entries, inherited>>
      BY <2>2 DEF Catch, Free
    <3>2. (\E f \in Fusionees : Change(r, f, -1)) \/ UNCHANGED <<counts, asleep>>
      <4>1. PICK i \in 1..Len(throws[r]) :
              IF refs[r][throws[r][i].fusion_id] > 0
              THEN Change(r, throws[r][i].fusion_id, -1) ELSE UNCHANGED <<counts, asleep>>
        BY <2>2 DEF Catch
      <4>2. throws[r] \in Seq(Throws)
        BY <1>0 DEF Typed
      <4>3. throws[r][i] \in Throws
        BY <4>2
      <4>4. throws[r][i].fusion_id \in Fusionees
        BY <4>3 DEF Throws
      <4> QED BY <4>1, <4>4
    <3>3. CASE \E f \in Fusionees : Change(r, f, -1)
      BY <1>1, <2>0, <3>1, <3>3, ChangeSums
    <3>4. CASE UNCHANGED <<counts, asleep>>
      BY <1>0, <3>1, <3>4, SumStays, ForestStays DEF counts, entries
    <3> QED BY <3>2, <3>3, <3>4
  <2>3. CASE UpGlobal(t, r) \/ DownGlobal(t, r) \/ \E f \in Fusionees : Throw(t, r, f)
    <3>1. UNCHANGED <<pid, live, inherited, local, refs, forked>>
      BY <2>3 DEF UpGlobal, DownGlobal, Throw, entries, rest, counts
    <3> QED BY <1>0, <3>1, SumStays, ForestStays
  <2>4. CASE \E from \in Refs : Inherit(t, r, from)
    BY <2>4, InheritSums
  <2> QED BY <1>2, <2>1, <2>2, <2>3, <2>4 DEF Counting
<1>3. ASSUME NEW t \in Tasks, NEW r \in Refs, Zeroing(t, r)
      PROVE  ForestInv' /\ SumInv'
  <2>1. UNCHANGED <<pid, live, inherited, local, refs, forked>>
    BY <1>3 DEF Zeroing, ZeroLock, ZeroTrylock, ZeroUnlock, Watch, entries, counts
  <2> QED BY <1>0, <2>1, SumStays, ForestStays
<1>4. ASSUME NEW t \in Tasks, NEW r \in Refs, New(t, r)
      PROVE  ForestInv' /\ SumInv'
  <2>1. /\ pid[r] = Nobody /\ pid' = [pid EXCEPT ![r] = t] /\ live' = live \cup {r}
        /\ UNCHANGED <<inherited, local, refs, forked>>
    BY <1>4 DEF New, counts, rest
  <2>2. ForestInv'
    BY <1>0, <2>1 DEF ForestInv, Ranked
  <2>3. \A x \in Refs : Held(x)' = Held(x) /\ Base(x)' = Base(x)
    BY <2>1 DEF Held, Base
  <2>4. \A x \in Refs : x \in live' \/ pid'[x] = Nobody => x \in live \/ pid[x] = Nobody
    BY <1>0, <2>1, RefAssumption DEF Typed
  <2>5. SumInv'
    BY <1>0, <2>1, <2>3, <2>4 DEF SumInv
  <2> QED BY <2>2, <2>5
<1>5. ASSUME NEW t \in Tasks, NEW r \in Refs, Destroy(t, r)
      PROVE  ForestInv' /\ SumInv'
  BY <1>5, DestroySums
<1>6. ASSUME NEW t \in Tasks, NEW f \in Fusionees, Fork(t, f)
      PROVE  ForestInv' /\ SumInv'
  BY <1>1, <1>6, ForkSums
<1>7. ASSUME NEW f \in Fusionees, Release(f)
      PROVE  ForestInv' /\ SumInv'
  BY <1>1, <1>7, ReleaseSums
<1>8. CASE (\E t \in Tasks : Resume(t) \/ Signal(t)) \/ (\E f \in Fusionees : Kill(f)) \/ UNCHANGED vars
  <2>1. UNCHANGED <<pid, live, inherited, local, refs, forked>>
    BY <1>8 DEF Resume, Signal, Kill, vars, entries, counts, rest
  <2> QED BY <1>0, <1>1, <2>1, SumStays, ForestStays DEF HeirInv
<1> QED BY <1>1, <1>2, <1>3, <1>4, <1>5, <1>6, <1>7, <1>8 DEF Next, Step, HeirInv

THEOREM HeirInvariant == Spec => []HeirInv
  BY HeirInit, HeirNext, PTL DEF Spec

\* The local count of a reference is what the fusionees hold of it, less what forks
\* added behind its back, and the local count of the reference it inherits from:
\* through every order of ups, downs, catches, inheritance, destruction and death,
\* and for every forest of references.
THEOREM CountsAreSums == Spec => []LocalIsSum
<1>1. HeirInv => LocalIsSum
  <2>1. HeirInv => live \subseteq Refs
    BY DEF HeirInv, IInv, Typed
  <2> QED BY <2>1 DEF HeirInv, SumInv, LocalIsSum, Base
<1> QED BY <1>1, HeirInvariant, PTL

\* Every variable keeps the type of its field, the local count too.
THEOREM AllTyped == Spec => []TypeOK
<1>1. HeirInv => TypeOK
  BY DEF HeirInv, IInv, SumInv, TypeOK
<1> QED BY <1>1, HeirInvariant, PTL

-----------------------------------------------------------------------------
(* References locked at zero *)

Bare(r) == global[r] = 0 /\ (Held(r) = 0 \/ forked[r] > 0)

\* What is locked at zero holds nothing but what forks added.
LEMMA ZeroIsBare ==
  ASSUME HeirInv, NotNegative, NEW r \in live, global[r] = 0, local[r] = 0
  PROVE  Bare(r)
<1>1. r \in Refs /\ Held(r) \in Nat /\ forked[r] \in Nat
  BY HeldFacts DEF HeirInv, IInv, Typed
<1>2. local[r] = Held(r) - forked[r] + Base(r)
  BY <1>1 DEF HeirInv, SumInv
<1>3. Base(r) \in Nat
  BY <1>1 DEF Base, HeirInv, ForestInv, NotNegative
<1> QED BY <1>1, <1>2, <1>3 DEF Bare

\* Who holds less of what was bare leaves it bare.
LEMMA LessIsBare ==
  ASSUME Typed, Typed', NEW r \in Refs, Bare(r), global'[r] = global[r], forked'[r] >= forked[r],
         (\A f \in Fusionees : refs[r][f] = 0 => refs'[r][f] = 0) \/ forked'[r] > 0
  PROVE  Bare(r)'
<1>1. Held(r)' = 0 <=> \A f \in Fusionees : refs'[r][f] = 0
  <2>1. refs'[r] \in [Fusionees -> Nat]
    BY DEF Typed
  <2> QED BY <2>1, SumZero DEF Held
<1>2. Held(r) = 0 <=> \A f \in Fusionees : refs[r][f] = 0
  BY HeldFacts
<1>3. forked[r] \in Nat /\ forked'[r] \in Nat
  BY DEF Typed
<1> QED BY <1>1, <1>2, <1>3 DEF Bare

LEMMA BareNext ==
  ASSUME HeirInv, LockedIsBare, [Next]_vars
  PROVE  LockedIsBare'
<1>0. IInv /\ Typed /\ live \subseteq Refs /\ Nobody \notin Fusionees
  BY RefAssumption DEF HeirInv, IInv, Typed
<1>1. IInv' /\ Typed' /\ live' \subseteq Refs
  BY <1>0, InvNext DEF IInv, Typed
<1> SUFFICES ASSUME NEW x \in live', locked'[x] # Nobody
             PROVE  Bare(x)'
  BY DEF LockedIsBare, Bare
<1>x. x \in Refs
  BY <1>1
<1>b. x \in live /\ locked[x] # Nobody => Bare(x)
  BY DEF LockedIsBare, Bare
<1>s. ASSUME x \in live, locked[x] # Nobody, UNCHANGED <<global, forked, refs>> PROVE Bare(x)'
  <2>1. forked'[x] >= forked[x]
    BY <1>0, <1>x, <1>s DEF Typed
  <2> QED BY <1>0, <1>1, <1>x, <1>b, <1>s, <2>1, LessIsBare
<1>2. ASSUME NEW t \in Tasks, NEW r \in Refs, Counting(t, r)
      PROVE  Bare(x)'
  <2>1. /\ UNCHANGED <<entries, locked>>
        /\ (r \in live /\ locked[r] = Nobody /\ \A y \in Refs \ {r} : global'[y] = global[y] /\ refs'[y] = refs[y])
           \/ UNCHANGED <<global, refs>>
    <3>1. CASE Up(t, r) \/ Down(t, r)
      BY <1>0, <3>1 DEF Up, Down, Free, Change, rest, Typed
    <3>2. CASE Catch(t, r)
      BY <1>0, <3>2 DEF Catch, Free, Change, counts, Typed
    <3>3. CASE UpGlobal(t, r) \/ DownGlobal(t, r)
      BY <1>0, <3>3 DEF UpGlobal, DownGlobal, Free, rest, Typed
    <3>4. CASE (\E f \in Fusionees : Throw(t, r, f)) \/ (\E from \in Refs : Inherit(t, r, from))
      BY <3>4 DEF Throw, Inherit, counts
    <3> QED BY <1>2, <3>1, <3>2, <3>3, <3>4 DEF Counting
  <2>2. x \in live /\ locked[x] # Nobody /\ forked' = forked
    BY <2>1 DEF entries
  <2>3. global'[x] = global[x] /\ refs'[x] = refs[x]
    BY <1>x, <2>1, <2>2
  <2>4. forked'[x] >= forked[x]
    BY <1>0, <1>x, <2>2 DEF Typed
  <2> QED BY <1>0, <1>1, <1>x, <1>b, <2>2, <2>3, <2>4, LessIsBare
<1>3. ASSUME NotNegative, UNCHANGED <<live, global, local, refs, forked>>,
             \A y \in Refs : locked'[y] # locked[y] => locked'[y] = Nobody \/ (global[y] = 0 /\ local[y] = 0)
      PROVE  Bare(x)'
  <2>1. CASE locked[x] # Nobody
    BY <1>3, <1>s, <2>1
  <2>2. CASE locked[x] = Nobody
    <3>1. global[x] = 0 /\ local[x] = 0 /\ x \in live
      BY <1>3, <1>x, <2>2
    <3>2. Bare(x)
      BY <1>3, <3>1, ZeroIsBare
    <3>3. forked'[x] >= forked[x]
      BY <1>0, <1>3, <1>x DEF Typed
    <3> QED BY <1>0, <1>1, <1>3, <1>x, <3>2, <3>3, LessIsBare
  <2> QED BY <2>1, <2>2
<1>4. ASSUME NotNegative, NEW t \in Tasks, NEW r \in Refs, Zeroing(t, r) \/ (Resume(t) /\ r = obj[t])
      PROVE  Bare(x)'
  <2>1. UNCHANGED <<live, global, local, refs, forked>>
    BY <1>4 DEF Zeroing, ZeroLock, ZeroTrylock, ZeroUnlock, Watch, Resume, entries, counts
  <2>2. \A y \in Refs : locked'[y] # locked[y] => locked'[y] = Nobody \/ (global[y] = 0 /\ local[y] = 0)
    BY <1>0, <1>4 DEF Zeroing, ZeroLock, ZeroTrylock, ZeroUnlock, Watch, Resume, Attempt, Typed
  <2> QED BY <1>3, <1>4, <2>1, <2>2
<1>5. ASSUME NEW t \in Tasks, NEW r \in Refs, New(t, r)
      PROVE  Bare(x)'
  <2>1. /\ pid[r] = Nobody /\ live' = live \cup {r}
        /\ UNCHANGED <<global, locked, refs, forked>>
    BY <1>5 DEF New, counts, rest
  <2>2. x # r
    BY <1>0, <2>1 DEF IInv, Fresh
  <2> QED BY <1>s, <2>1, <2>2
<1>6. ASSUME NEW t \in Tasks, NEW r \in Refs, Destroy(t, r)
      PROVE  Bare(x)'
  <2>1. live' \subseteq live /\ UNCHANGED <<global, locked, refs, forked>>
    BY <1>6 DEF Destroy
  <2> QED BY <1>s, <2>1
<1>7. ASSUME NEW t \in Tasks, NEW f \in Fusionees, Fork(t, f)
      PROVE  Bare(x)'
  <2>1. UNCHANGED <<live, locked, global>>
    BY <1>7 DEF Fork, rest
  <2>2. forked[x] \in Nat /\ ((refs'[x] = refs[x] /\ forked'[x] = forked[x] + 0) \/ forked'[x] = forked[x] + 1)
    BY <1>0, <1>7, <1>x DEF Fork, Typed
  <2>3. forked'[x] >= forked[x] /\ (refs'[x] = refs[x] \/ forked'[x] > 0)
    BY <2>2
  <2>4. Bare(x) /\ global'[x] = global[x]
    BY <1>b, <2>1
  <2> QED BY <1>0, <1>1, <1>x, <2>3, <2>4, LessIsBare
<1>8. ASSUME NEW f \in Fusionees, Release(f)
      PROVE  Bare(x)'
  <2>1. /\ UNCHANGED <<live, global, forked>>
        /\ locked'[x] # Nobody => locked'[x] = locked[x]
        /\ refs'[x] = refs[x] \/ refs'[x] = [refs[x] EXCEPT ![f] = 0]
    BY <1>x, <1>8 DEF Release, ClearLocal, entries
  <2>2. \A g \in Fusionees : refs[x][g] = 0 => refs'[x][g] = 0
    BY <1>0, <1>x, <2>1 DEF Typed
  <2>3. forked'[x] >= forked[x]
    BY <1>0, <1>x, <2>1 DEF Typed
  <2> QED BY <1>0, <1>1, <1>x, <1>b, <2>1, <2>2, <2>3, LessIsBare
<1>9. CASE (\E t \in Tasks : Signal(t)) \/ (\E f \in Fusionees : Kill(f)) \/ UNCHANGED vars
  <2>1. UNCHANGED <<live, global, locked, refs, forked>>
    BY <1>9 DEF Signal, Kill, vars, entries, counts, rest
  <2> QED BY <1>s, <2>1
<1>10. ASSUME NEW t \in Tasks, Resume(t) PROVE obj[t] \in Refs
  BY <1>0, <1>10 DEF Resume, Typed
<1> QED
  BY <1>2, <1>4, <1>5, <1>6, <1>7, <1>8, <1>9, <1>10 DEF Next, Step

\* While a reference is locked nobody has a reference of its own to it: what it
\* counts comes from the reference it inherits from, or from a fork.
THEOREM LockedAreBare == Spec => []LockedIsBare
<1>1. Init => LockedIsBare
  BY DEF Init, LockedIsBare
<1>2. HeirInv /\ LockedIsBare /\ [Next]_vars => LockedIsBare'
  BY BareNext
<1> QED BY <1>1, <1>2, HeirInvariant, PTL DEF Spec

=============================================================================
