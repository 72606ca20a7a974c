-------------------------- MODULE Skirmish_proofs --------------------------
(* Theorems about Skirmish, for every set of tasks and skirmishes. *)
EXTENDS Skirmish, TLAPS

LEMMA TransferTypes == NoTransfer \in Transfers /\ NoWait \in Waits
  BY DEF NoTransfer, NoWait, Transfers, Waits

LEMMA DismissSetsTypes ==
  ASSUME TypeOK, NEW L, NEW S1, NEW S2, DismissSets(L, S1, S2)
  PROVE  /\ lock_fid'   \in [Skirmishes -> Fusionees \cup {Nobody}]
         /\ lock_pid'   \in [Skirmishes -> Tasks \cup {Nobody, Returned}]
         /\ lock_count' \in [Skirmishes -> Nat]
         /\ transfer'   \in [Skirmishes -> Transfers]
         /\ transfer2'  \in [Skirmishes -> Transfers]
         /\ asleep' \subseteq Tasks
<1>1. /\ lock_fid'   \in [Skirmishes -> Fusionees \cup {Nobody}]
      /\ lock_pid'   \in [Skirmishes -> Tasks \cup {Nobody, Returned}]
      /\ lock_count' \in [Skirmishes -> Nat]
  BY DEF TypeOK, DismissSets
<1>2. transfer' \in [Skirmishes -> Transfers]
  <2>1. ASSUME NEW s \in Skirmishes
        PROVE  [transfer2[s] EXCEPT !.serial = transfer[s].serial] \in Transfers
    <3>1. transfer2[s] \in Transfers /\ transfer[s].serial \in Nat
      BY DEF TypeOK, Transfers
    <3>2. QED
      BY <3>1 DEF Transfers
  <2>2. QED
    BY <2>1, TransferTypes DEF TypeOK, DismissSets, Dropped
<1>3. transfer2' \in [Skirmishes -> Transfers]
  BY TransferTypes DEF TypeOK, DismissSets, Dropped2
<1>4. asleep' \subseteq Tasks
  BY DEF TypeOK, DismissSets, Wake
<1>5. QED
  BY <1>1, <1>2, <1>3, <1>4

-----------------------------------------------------------------------------
(* The inductive invariant *)

\* The fields of a lock agree, and only a live entry is locked.
LockShape ==
  \A s \in Skirmishes :
    /\ lock_pid[s] \in Tasks =>
         s \in Live /\ lock_count[s] > 0 /\ lock_fid[s] = Owner[lock_pid[s]]
    /\ lock_pid[s] \notin Tasks => lock_fid[s] = Nobody

\* Nobody runs any more in a released fusionee.
ReleasedDead == \A t \in Tasks : Owner[t] \in released => pc[t] = "dead"

\* What a task keeps while it is inside a wait.
WaitShape ==
  \A t \in Tasks :
    /\ pc[t] = "prevail" => obj[t] \in Skirmishes
    /\ wait[t].lock_count > 0 => wait[t].id \in Skirmishes
    /\ pc[t] \in {"wait", "relock"} => wait[t].lock_count > 0 /\ obj[t] = wait[t].id

LockInv == LockShape /\ HeldIsLock /\ NoOrphanedLock
IInv    == TypeOK /\ LockInv /\ ReleasedDead /\ WaitShape

-----------------------------------------------------------------------------
(* What the helpers do to the lock *)

LEMMA TakeLock ==
  ASSUME IInv, NEW t \in Tasks, NEW s \in Live, NEW n \in Nat \ {0},
         pc[t] # "dead", lock_pid[s] \notin Tasks, Take(s, t, n),
         UNCHANGED <<state, released>>
  PROVE  /\ LockInv'
         /\ lock_fid'   \in [Skirmishes -> Fusionees \cup {Nobody}]
         /\ lock_pid'   \in [Skirmishes -> Tasks \cup {Nobody, Returned}]
         /\ lock_count' \in [Skirmishes -> Nat]
         /\ held'       \in [Tasks -> [Skirmishes -> Nat]]
<1>1. s \in Skirmishes
  BY DEF Live
<1>2. LockShape'
  BY <1>1, TasksAssumption DEF IInv, LockInv, TypeOK, LockShape, Live, Take
<1>3. HeldIsLock'
  BY <1>1, TasksAssumption DEF IInv, LockInv, TypeOK, HeldIsLock, Take
<1>4. NoOrphanedLock'
  BY <1>1, TasksAssumption DEF IInv, LockInv, TypeOK, NoOrphanedLock, ReleasedDead, Live, Take
<1>5. QED
  BY <1>1, <1>2, <1>3, <1>4, TasksAssumption DEF IInv, LockInv, TypeOK, Take

LEMMA DeepenLock ==
  ASSUME IInv, NEW t \in Tasks, NEW s \in Skirmishes, lock_pid[s] = t, Deepen(s, t),
         UNCHANGED <<state, released>>
  PROVE  /\ LockInv'
         /\ lock_count' \in [Skirmishes -> Nat]
         /\ held'       \in [Tasks -> [Skirmishes -> Nat]]
<1>1. LockShape'
  BY TasksAssumption DEF IInv, LockInv, TypeOK, LockShape, Live, Deepen
<1>2. HeldIsLock'
  BY TasksAssumption DEF IInv, LockInv, TypeOK, HeldIsLock, Deepen
<1>3. NoOrphanedLock'
  BY DEF IInv, LockInv, NoOrphanedLock, Live, Deepen
<1>4. QED
  BY <1>1, <1>2, <1>3 DEF IInv, LockInv, TypeOK, Deepen

LEMMA SameLock ==
  ASSUME IInv, UNCHANGED <<state, locks, held, released>>
  PROVE  LockInv'
  BY DEF IInv, LockInv, LockShape, HeldIsLock, NoOrphanedLock, Live, locks

\* dismiss_all: the locks L are free and nobody believes to hold one of them.
LEMMA DismissLocks ==
  ASSUME IInv, NEW L \in SUBSET Skirmishes, NEW S1, NEW S2, DismissSets(L, S1, S2),
         held' \in [Tasks -> [Skirmishes -> Nat]],
         \A t \in Tasks, s \in Skirmishes :
           held'[t][s] = IF s \in L THEN 0 ELSE held[t][s],
         UNCHANGED state,
         \A s \in Skirmishes \ L : lock_pid[s] \in Tasks => Owner[lock_pid[s]] \notin released'
  PROVE  LockInv'
<1>1. LockShape'
  BY TasksAssumption DEF IInv, LockInv, TypeOK, LockShape, Live, DismissSets
<1>2. HeldIsLock'
  BY TasksAssumption DEF IInv, LockInv, TypeOK, HeldIsLock, DismissSets
<1>3. NoOrphanedLock'
  BY TasksAssumption DEF IInv, LockInv, TypeOK, NoOrphanedLock, Live, DismissSets
<1>4. QED
  BY <1>1, <1>2, <1>3 DEF LockInv

-----------------------------------------------------------------------------
LEMMA InvInit == Init => IInv
<1> SUFFICES ASSUME Init PROVE IInv
  OBVIOUS
<1>1. TypeOK
  BY TasksAssumption, TransferTypes DEF Init, TypeOK
<1>2. LockInv
  BY TasksAssumption DEF Init, LockInv, LockShape, HeldIsLock, NoOrphanedLock
<1>3. ReleasedDead /\ WaitShape
  BY DEF Init, ReleasedDead, WaitShape, NoWait
<1>4. QED
  BY <1>1, <1>2, <1>3 DEF IInv

\* A call of task t on skirmish s that takes effect at once or goes to sleep.
LEMMA InvLockStep ==
  ASSUME IInv, NEW t \in Tasks, NEW s \in Skirmishes, LockStep(t, s)
  PROVE  IInv'
<1> USE DEF Spend, history, kernel, locks, transfers
<1>1. CASE PrevailOwned(t, s)
  <2>1. LockInv' /\ lock_count' \in [Skirmishes -> Nat] /\ held' \in [Tasks -> [Skirmishes -> Nat]]
    BY <1>1, DeepenLock DEF PrevailOwned
  <2>2. TypeOK'
    BY <1>1, <2>1 DEF IInv, TypeOK, PrevailOwned, Deepen
  <2>3. QED
    BY <1>1, <2>1, <2>2 DEF IInv, PrevailOwned, ReleasedDead, WaitShape
<1>2. CASE PrevailFree(t, s)
  <2>1. lock_pid[s] \notin Tasks /\ pc[t] # "dead" /\ Take(s, t, 1) /\ s \in Live
    BY <1>2, TasksAssumption DEF PrevailFree, MustWait, InUser
  <2>2. /\ LockInv'
        /\ lock_fid'   \in [Skirmishes -> Fusionees \cup {Nobody}]
        /\ lock_pid'   \in [Skirmishes -> Tasks \cup {Nobody, Returned}]
        /\ lock_count' \in [Skirmishes -> Nat]
        /\ held'       \in [Tasks -> [Skirmishes -> Nat]]
    BY <1>2, <2>1, TakeLock DEF PrevailFree
  <2>3. TypeOK'
    <3>1. ops' \in [Tasks -> Nat]
      BY <1>2 DEF IInv, TypeOK, PrevailFree
    <3>2. UNCHANGED <<state, notify_count, transfers, kernel, wait, released, notified>>
      BY <1>2 DEF PrevailFree
    <3>3. QED
      BY <2>2, <3>1, <3>2 DEF IInv, TypeOK
  <2>4. QED
    BY <1>2, <2>2, <2>3 DEF IInv, PrevailFree, ReleasedDead, WaitShape
<1>3. CASE PrevailBlock(t, s)
  <2>1. LockInv'
    BY <1>3, SameLock DEF PrevailBlock
  <2>2. TypeOK'
    BY <1>3 DEF IInv, TypeOK, PrevailBlock, SleepOn
  <2>3. ReleasedDead' /\ WaitShape'
    BY <1>3 DEF IInv, TypeOK, PrevailBlock, SleepOn, InUser, ReleasedDead, WaitShape
  <2>4. QED
    BY <2>1, <2>2, <2>3 DEF IInv
<1>4. CASE Swoop(t, s)
  <2>1. CASE lock_pid[s] = t /\ Deepen(s, t)
    <3>1. LockInv' /\ lock_count' \in [Skirmishes -> Nat] /\ held' \in [Tasks -> [Skirmishes -> Nat]]
      BY <1>4, <2>1, DeepenLock DEF Swoop
    <3>2. TypeOK'
      BY <1>4, <2>1, <3>1 DEF IInv, TypeOK, Swoop, Deepen
    <3>3. QED
      BY <1>4, <3>1, <3>2 DEF IInv, Swoop, ReleasedDead, WaitShape
  <2>2. CASE lock_fid[s] = Nobody /\ Take(s, t, 1)
    <3>1. lock_pid[s] \notin Tasks /\ pc[t] # "dead" /\ s \in Live
      BY <1>4, <2>2, TasksAssumption DEF IInv, LockInv, LockShape, Swoop, InUser
    <3>2. /\ LockInv'
          /\ lock_fid'   \in [Skirmishes -> Fusionees \cup {Nobody}]
          /\ lock_pid'   \in [Skirmishes -> Tasks \cup {Nobody, Returned}]
          /\ lock_count' \in [Skirmishes -> Nat]
          /\ held'       \in [Tasks -> [Skirmishes -> Nat]]
      BY <1>4, <2>2, <3>1, TakeLock DEF Swoop
    <3>3. TypeOK'
      <4>1. ops' \in [Tasks -> Nat]
        BY <1>4 DEF IInv, TypeOK, Swoop
      <4>2. UNCHANGED <<state, notify_count, transfers, kernel, wait, released, notified>>
        BY <1>4 DEF Swoop
      <4>3. QED
        BY <3>2, <4>1, <4>2 DEF IInv, TypeOK
    <3>4. QED
      BY <1>4, <3>2, <3>3 DEF IInv, Swoop, ReleasedDead, WaitShape
  <2>3. QED
    BY <1>4, <2>1, <2>2 DEF Swoop
<1>5. CASE Dismiss(t, s)
  <2>1. lock_count[s] \in Nat \ {0} /\ held[t][s] = lock_count[s]
    BY <1>5 DEF IInv, LockInv, LockShape, HeldIsLock, TypeOK, Dismiss
  <2>2. TypeOK'
    <3>1. lock_count' \in [Skirmishes -> Nat] /\ held' \in [Tasks -> [Skirmishes -> Nat]]
      <4>1. lock_count[s] - 1 \in Nat /\ held[t][s] - 1 \in Nat
        BY <2>1
      <4>2. lock_count' = [lock_count EXCEPT ![s] = lock_count[s] - 1]
        BY <1>5 DEF Dismiss
      <4>3. held' = [held EXCEPT ![t] = [held[t] EXCEPT ![s] = held[t][s] - 1]]
        BY <1>5 DEF Dismiss
      <4>4. [held[t] EXCEPT ![s] = held[t][s] - 1] \in [Skirmishes -> Nat]
        BY <4>1 DEF IInv, TypeOK
      <4>5. QED
        BY <4>1, <4>2, <4>3, <4>4 DEF IInv, TypeOK
    <3>2. /\ lock_fid' \in [Skirmishes -> Fusionees \cup {Nobody}]
          /\ lock_pid' \in [Skirmishes -> Tasks \cup {Nobody, Returned}]
          /\ asleep' \subseteq Tasks
      BY <1>5 DEF IInv, TypeOK, Dismiss, Wake
    <3>3. QED
      BY <1>5, <3>1, <3>2 DEF IInv, TypeOK, Dismiss
  <2>3. LockShape' /\ NoOrphanedLock'
    <3>1. CASE lock_count[s] = 1
      BY <1>5, <3>1, TasksAssumption
         DEF IInv, LockInv, TypeOK, LockShape, NoOrphanedLock, Live, Dismiss
    <3>2. CASE lock_count[s] # 1
      BY <1>5, <2>1, <3>2, TasksAssumption
         DEF IInv, LockInv, TypeOK, LockShape, NoOrphanedLock, Live, Dismiss
    <3>3. QED
      BY <3>1, <3>2
  <2>4. HeldIsLock'
    BY <1>5, <2>1, TasksAssumption DEF IInv, LockInv, TypeOK, HeldIsLock, Dismiss
  <2>5. QED
    BY <1>5, <2>2, <2>3, <2>4 DEF IInv, LockInv, Dismiss, ReleasedDead, WaitShape
<1>6. CASE Destroy(t, s)
  <2>1. \A u \in Tasks, r \in Skirmishes : held'[u][r] = IF r = s THEN 0 ELSE held[u][r]
    BY <1>6 DEF IInv, TypeOK, Destroy
  <2>2. held' \in [Tasks -> [Skirmishes -> Nat]]
    BY <1>6 DEF IInv, TypeOK, Destroy
  <2>3. TypeOK'
    BY <1>6, <2>2, TransferTypes DEF IInv, TypeOK, Destroy, Wake
  <2>4. LockShape' /\ NoOrphanedLock'
    BY <1>6, TasksAssumption
       DEF IInv, LockInv, TypeOK, LockShape, NoOrphanedLock, Live, Destroy
  <2>5. HeldIsLock'
    BY <1>6, <2>1, TasksAssumption DEF IInv, LockInv, TypeOK, HeldIsLock, Destroy
  <2>6. QED
    BY <1>6, <2>3, <2>4, <2>5 DEF IInv, LockInv, Destroy, ReleasedDead, WaitShape
<1>7. ASSUME NEW timed \in BOOLEAN, WaitFresh(t, s, timed)
      PROVE  IInv'
  <2>1. lock_count[s] > 0
    BY <1>7 DEF IInv, LockInv, LockShape, WaitFresh
  <2>2. TypeOK'
    BY <1>7, TasksAssumption DEF IInv, TypeOK, WaitFresh, Waits, SleepOn
  <2>3. LockShape' /\ NoOrphanedLock'
    BY <1>7, TasksAssumption
       DEF IInv, LockInv, TypeOK, LockShape, NoOrphanedLock, Live, WaitFresh
  <2>4. HeldIsLock'
    BY <1>7, TasksAssumption DEF IInv, LockInv, TypeOK, HeldIsLock, WaitFresh
  <2>5. ReleasedDead' /\ WaitShape'
    BY <1>7, <2>1 DEF IInv, TypeOK, WaitFresh, SleepOn, InUser, ReleasedDead, WaitShape
  <2>6. QED
    BY <2>2, <2>3, <2>4, <2>5 DEF IInv, LockInv
<1>8. CASE Notify(t, s)
  <2>1. LockInv'
    BY <1>8, SameLock DEF Notify
  <2>2. TypeOK'
    BY <1>8 DEF IInv, TypeOK, Notify, Wake
  <2>3. QED
    BY <1>8, <2>1, <2>2 DEF IInv, Notify, ReleasedDead, WaitShape
<1>9. QED
  BY <1>1, <1>2, <1>3, <1>4, <1>5, <1>6, <1>7, <1>8 DEF LockStep

\* The section that starts when a sleeping task is woken, or a wait is resumed.
LEMMA InvRelock ==
  ASSUME IInv, NEW t \in Tasks, NEW s \in Live, s = wait[t].id, wait[t].lock_count > 0,
         pc[t] # "dead", Relock(t, s),
         UNCHANGED <<state, notify_count, transfers, released, ops>>
  PROVE  IInv'
<1> USE DEF transfers, locks
<1>0. s \in Skirmishes
  BY DEF Live
<1>1. CASE lock_pid[s] # Nobody
  <2>1. LockInv'
    BY <1>1, SameLock DEF Relock
  <2>2. TypeOK'
    <3>1. /\ pc' \in [Tasks -> {"user", "prevail", "wait", "relock", "dead"}]
          /\ obj' \in [Tasks -> Skirmishes \cup {Nobody}]
          /\ asleep' \subseteq Tasks
      <4>1. /\ pc' = [pc EXCEPT ![t] = "relock"]
            /\ obj' = [obj EXCEPT ![t] = s]
            /\ asleep' = asleep \cup {t}
        BY <1>1 DEF Relock, SleepOn
      <4>2. QED
        BY <1>0, <4>1 DEF IInv, TypeOK
    <3>2. UNCHANGED <<state, locks, notify_count, transfers, pending, expired, wait, released,
                      ops, held, notified>>
      BY <1>1 DEF Relock, SleepOn
    <3>3. QED
      BY <3>1, <3>2 DEF IInv, TypeOK
  <2>3. ReleasedDead' /\ WaitShape'
    BY <1>0, <1>1 DEF IInv, TypeOK, Relock, SleepOn, ReleasedDead, WaitShape
  <2>4. QED
    BY <2>1, <2>2, <2>3 DEF IInv
<1>2. CASE lock_pid[s] = Nobody
  <2>1. wait[t].lock_count \in Nat \ {0}
    BY DEF IInv, TypeOK, Waits
  <2>2. Take(s, t, wait[t].lock_count) /\ lock_pid[s] \notin Tasks
    BY <1>2, TasksAssumption DEF Relock
  <2>3. /\ LockInv'
        /\ lock_fid'   \in [Skirmishes -> Fusionees \cup {Nobody}]
        /\ lock_pid'   \in [Skirmishes -> Tasks \cup {Nobody, Returned}]
        /\ lock_count' \in [Skirmishes -> Nat]
        /\ held'       \in [Tasks -> [Skirmishes -> Nat]]
    BY <2>1, <2>2, TakeLock
  <2>4. /\ wait'     = [wait EXCEPT ![t] = NoWait]
        /\ notified' = notified \ {t}
        /\ ReturnToUser(t)
        /\ UNCHANGED asleep
    BY <1>2 DEF Relock
  <2>5. TypeOK'
    BY <2>3, <2>4, TransferTypes, TasksAssumption DEF IInv, TypeOK, ReturnToUser
  <2>6. ReleasedDead' /\ WaitShape'
    BY <2>4 DEF IInv, TypeOK, ReleasedDead, WaitShape, ReturnToUser, NoWait
  <2>7. QED
    BY <2>3, <2>5, <2>6 DEF IInv
<1>3. QED
  BY <1>1, <1>2

LEMMA InvAwaitNotify ==
  ASSUME IInv, NEW t \in Tasks, NEW s \in Live, s = wait[t].id, wait[t].lock_count > 0,
         pc[t] # "dead", AwaitNotify(t, s),
         UNCHANGED <<state, notify_count, transfers, released, ops>>
  PROVE  IInv'
<1>0. s \in Skirmishes
  BY DEF Live
<1>1. CASE wait[t].notify_count = notify_count[s]
  <2>1. LockInv'
    BY <1>1, SameLock DEF AwaitNotify
  <2>2. TypeOK'
    <3>1. /\ pc' \in [Tasks -> {"user", "prevail", "wait", "relock", "dead"}]
          /\ obj' \in [Tasks -> Skirmishes \cup {Nobody}]
          /\ asleep' \subseteq Tasks
      <4>1. /\ pc' = [pc EXCEPT ![t] = "wait"]
            /\ obj' = [obj EXCEPT ![t] = s]
            /\ asleep' = asleep \cup {t}
        BY <1>1 DEF AwaitNotify, SleepOn
      <4>2. QED
        BY <1>0, <4>1 DEF IInv, TypeOK
    <3>2. UNCHANGED <<state, locks, notify_count, transfers, pending, expired, wait, released,
                      ops, held, notified>>
      BY <1>1 DEF AwaitNotify, SleepOn
    <3>3. QED
      BY <3>1, <3>2 DEF IInv, TypeOK, locks, transfers
  <2>3. ReleasedDead' /\ WaitShape'
    BY <1>0, <1>1, SMTT(20) DEF IInv, TypeOK, AwaitNotify, SleepOn, ReleasedDead, WaitShape
  <2>4. QED
    BY <2>1, <2>2, <2>3 DEF IInv
<1>2. CASE wait[t].notify_count # notify_count[s]
  BY <1>2, InvRelock DEF AwaitNotify
<1>3. QED
  BY <1>1, <1>2

LEMMA InvWaitFails ==
  ASSUME IInv, NEW t \in Tasks, NEW keep \in BOOLEAN, WaitFails(t, keep), pc[t] # "dead",
         UNCHANGED <<state, notify_count, transfers, released, ops>>
  PROVE  IInv'
<1>1. LockInv'
  BY SameLock DEF WaitFails
<1>2. TypeOK'
  BY TransferTypes, TasksAssumption
     DEF IInv, TypeOK, WaitFails, ReturnToUser, locks, transfers
<1>3. ReleasedDead' /\ WaitShape'
  BY DEF IInv, TypeOK, WaitFails, ReturnToUser, NoWait, ReleasedDead, WaitShape
<1>4. QED
  BY <1>1, <1>2, <1>3 DEF IInv

LEMMA InvPrevailResume ==
  ASSUME IInv, NEW t \in Tasks, PrevailResume(t)
  PROVE  IInv'
<1> DEFINE s == obj[t]
<1> USE DEF transfers, locks
<1>0. s \in Skirmishes /\ pc[t] = "prevail"
  BY DEF PrevailResume, IInv, WaitShape
<1>1. CASE ReturnToUser(t) /\ UNCHANGED <<locks, asleep, held>>
  <2>1. LockInv'
    BY <1>1, SameLock DEF PrevailResume
  <2>2. TypeOK'
    BY <1>1, TasksAssumption DEF PrevailResume, IInv, TypeOK, ReturnToUser
  <2>3. ReleasedDead' /\ WaitShape'
    BY <1>0, <1>1 DEF PrevailResume, IInv, TypeOK, ReturnToUser, ReleasedDead, WaitShape
  <2>4. QED
    BY <2>1, <2>2, <2>3 DEF IInv
<1>2. CASE asleep' = asleep \cup {t} /\ UNCHANGED <<locks, pc, obj, pending, expired, held>>
  <2>1. LockInv'
    BY <1>2, SameLock DEF PrevailResume
  <2>2. TypeOK'
    BY <1>2 DEF PrevailResume, IInv, TypeOK
  <2>3. ReleasedDead' /\ WaitShape'
    BY <1>2 DEF PrevailResume, IInv, ReleasedDead, WaitShape
  <2>4. QED
    BY <2>1, <2>2, <2>3 DEF IInv
<1>3. CASE s \in Live /\ ~MustWait(s, t) /\ Take(s, t, 1) /\ ReturnToUser(t) /\ UNCHANGED asleep
  <2>1. lock_pid[s] \notin Tasks
    BY <1>3, TasksAssumption DEF MustWait
  <2>2. /\ LockInv'
        /\ lock_fid'   \in [Skirmishes -> Fusionees \cup {Nobody}]
        /\ lock_pid'   \in [Skirmishes -> Tasks \cup {Nobody, Returned}]
        /\ lock_count' \in [Skirmishes -> Nat]
        /\ held'       \in [Tasks -> [Skirmishes -> Nat]]
    BY <1>0, <1>3, <2>1, TakeLock DEF PrevailResume
  <2>3. TypeOK'
    BY <1>3, <2>2, TasksAssumption DEF PrevailResume, IInv, TypeOK, ReturnToUser
  <2>4. ReleasedDead' /\ WaitShape'
    BY <1>0, <1>3 DEF PrevailResume, IInv, TypeOK, ReturnToUser, ReleasedDead, WaitShape
  <2>5. QED
    BY <2>2, <2>3, <2>4 DEF IInv
<1>4. QED
  BY <1>1, <1>2, <1>3 DEF PrevailResume

LEMMA InvExit ==
  ASSUME IInv, NEW t \in Tasks, Exit(t)
  PROVE  IInv'
<1> USE DEF locks
<1>1. ReleasedDead' /\ WaitShape'
  BY DEF Exit, IInv, TypeOK, ReleasedDead, WaitShape, NoWait
<1>2. CASE Alive(Owner[t]) = {t}
  <2> DEFINE L == {s \in Live : lock_pid[s] = t}
  <2>1. DismissAllFromPid(t) /\ held' = [held EXCEPT ![t] = [s \in Skirmishes |-> 0]]
    BY <1>2 DEF Exit
  <2>2. \A u \in Tasks, s \in Skirmishes : held'[u][s] = IF s \in L THEN 0 ELSE held[u][s]
    <3>1. \A u \in Tasks, s \in Skirmishes : held'[u][s] = IF u = t THEN 0 ELSE held[u][s]
      BY <2>1 DEF IInv, TypeOK
    <3>2. \A u \in Tasks, s \in Skirmishes :
            held[u][s] = IF lock_pid[s] = u THEN lock_count[s] ELSE 0
      BY DEF IInv, LockInv, HeldIsLock
    <3>3. \A s \in Skirmishes : lock_pid[s] = t => s \in L
      BY DEF IInv, LockInv, LockShape
    <3>4. QED
      BY <3>1, <3>2, <3>3 DEF Live
  <2>3. held' \in [Tasks -> [Skirmishes -> Nat]]
    BY <2>1 DEF IInv, TypeOK
  <2>4. L \in SUBSET Skirmishes /\ UNCHANGED <<state, released>>
    BY DEF Live, Exit
  <2>5. LockInv'
    BY <2>1, <2>2, <2>3, <2>4, DismissLocks
       DEF DismissAllFromPid, IInv, LockInv, NoOrphanedLock
  <2>6. TypeOK'
    BY <2>1, <2>3, DismissSetsTypes, TransferTypes DEF DismissAllFromPid, Exit, IInv, TypeOK
  <2>7. QED
    BY <1>1, <2>5, <2>6 DEF IInv
<1>3. CASE Alive(Owner[t]) # {t}
  <2>1. LockInv'
    BY <1>3, SameLock DEF Exit
  <2>2. TypeOK'
    BY <1>3, TransferTypes DEF Exit, IInv, TypeOK
  <2>3. QED
    BY <1>1, <2>1, <2>2 DEF IInv
<1>4. QED
  BY <1>2, <1>3

LEMMA InvRelease ==
  ASSUME IInv, NEW f \in Fusionees, Release(f)
  PROVE  IInv'
<1> DEFINE L == {s \in Live : lock_fid[s] = f}
<1>1. ReleasedDead' /\ WaitShape'
  BY DEF Release, Alive, IInv, TypeOK, ReleasedDead, WaitShape
<1>2. \A s \in Skirmishes : lock_pid[s] \in Tasks => (s \in L <=> Owner[lock_pid[s]] = f)
  BY DEF IInv, LockInv, LockShape
<1>3. \A t \in Tasks, s \in Skirmishes : held'[t][s] = IF s \in L THEN 0 ELSE held[t][s]
  <2>1. \A t \in Tasks, s \in Skirmishes : held'[t][s] = IF Owner[t] = f THEN 0 ELSE held[t][s]
    BY DEF Release, IInv, TypeOK
  <2>2. \A t \in Tasks, s \in Skirmishes :
          held[t][s] = IF lock_pid[s] = t THEN lock_count[s] ELSE 0
    BY DEF IInv, LockInv, HeldIsLock
  <2>3. \A s \in L : lock_pid[s] \in Tasks
    BY TasksAssumption DEF IInv, LockInv, LockShape, Live
  <2>4. QED
    BY <1>2, <2>1, <2>2, <2>3 DEF Live
<1>4. held' \in [Tasks -> [Skirmishes -> Nat]]
  BY DEF Release, IInv, TypeOK
<1>5. \A s \in Skirmishes \ L : lock_pid[s] \in Tasks => Owner[lock_pid[s]] \notin released'
  BY <1>2 DEF Release, IInv, LockInv, NoOrphanedLock
<1>6. LockInv'
  BY <1>3, <1>4, <1>5, DismissLocks DEF Release, DismissAll, Live
<1>7. TypeOK'
  BY <1>4, DismissSetsTypes DEF Release, DismissAll, IInv, TypeOK
<1>8. QED
  BY <1>1, <1>6, <1>7 DEF IInv

\* The remaining actions of a task.
LEMMA InvTaskStep ==
  ASSUME IInv, NEW t \in Tasks,
         New(t) \/ Resume(t) \/ WaitAgain(t) \/ Signal(t) \/ Expire(t) \/ Exit(t)
  PROVE  IInv'
<1> USE DEF history, kernel, locks
<1>1. CASE New(t)
  <2>1. LockShape' /\ NoOrphanedLock'
    BY <1>1, TasksAssumption DEF New, IInv, LockInv, TypeOK, LockShape, NoOrphanedLock, Live
  <2>2. HeldIsLock'
    BY <1>1 DEF New, IInv, LockInv, HeldIsLock
  <2>3. TypeOK'
    BY <1>1 DEF New, IInv, TypeOK, transfers
  <2>4. QED
    BY <1>1, <2>1, <2>2, <2>3 DEF New, IInv, LockInv, ReleasedDead, WaitShape
<1>2. CASE WaitAgain(t)
  <2>1. pc[t] # "dead" /\ wait[t].lock_count > 0
    BY <1>2 DEF WaitAgain, InUser
  <2>2. CASE WaitFails(t, FALSE)
    BY <1>2, <2>1, <2>2, InvWaitFails DEF WaitAgain
  <2>3. CASE wait[t].id \in Live /\ AwaitNotify(t, wait[t].id)
    BY <1>2, <2>1, <2>3, InvAwaitNotify DEF WaitAgain
  <2>4. QED
    BY <1>2, <2>2, <2>3 DEF WaitAgain
<1>3. CASE WaitResume(t)
  <2>1. pc[t] # "dead" /\ wait[t].lock_count > 0
    BY <1>3 DEF WaitResume, IInv, WaitShape
  <2>2. ASSUME NEW keep \in BOOLEAN, WaitFails(t, keep)
        PROVE  IInv'
    BY <1>3, <2>1, <2>2, InvWaitFails DEF WaitResume
  <2>3. CASE wait[t].id \in Live /\ AwaitNotify(t, wait[t].id)
    BY <1>3, <2>1, <2>3, InvAwaitNotify DEF WaitResume
  <2>4. CASE wait[t].id \in Live /\ Relock(t, wait[t].id)
    BY <1>3, <2>1, <2>4, InvRelock DEF WaitResume
  <2>5. QED
    BY <1>3, <2>2, <2>3, <2>4 DEF WaitResume
<1>4. CASE RelockResume(t)
  <2>1. pc[t] # "dead" /\ wait[t].lock_count > 0
    BY <1>4 DEF RelockResume, IInv, WaitShape
  <2>2. ASSUME NEW keep \in BOOLEAN, WaitFails(t, keep)
        PROVE  IInv'
    BY <1>4, <2>1, <2>2, InvWaitFails DEF RelockResume
  <2>3. CASE wait[t].id \in Live /\ Relock(t, wait[t].id)
    BY <1>4, <2>1, <2>3, InvRelock DEF RelockResume
  <2>4. QED
    BY <1>4, <2>2, <2>3 DEF RelockResume
<1>5. CASE Signal(t) \/ Expire(t)
  <2>1. LockInv'
    BY <1>5, SameLock DEF Signal, Expire
  <2>2. TypeOK'
    BY <1>5 DEF Signal, Expire, IInv, TypeOK, transfers
  <2>3. QED
    BY <1>5, <2>1, <2>2 DEF Signal, Expire, IInv, ReleasedDead, WaitShape
<1>6. QED
  BY <1>1, <1>2, <1>3, <1>4, <1>5, InvPrevailResume, InvExit DEF Resume

LEMMA InvStep == IInv /\ [Next]_vars => IInv'
<1> SUFFICES ASSUME IInv, [Next]_vars PROVE IInv'
  OBVIOUS
<1>1. ASSUME NEW t \in Tasks, NEW s \in Skirmishes, LockStep(t, s) PROVE IInv'
  BY <1>1, InvLockStep
<1>2. ASSUME NEW t \in Tasks,
             New(t) \/ Resume(t) \/ WaitAgain(t) \/ Signal(t) \/ Expire(t) \/ Exit(t)
      PROVE  IInv'
  BY <1>2, InvTaskStep
<1>3. ASSUME NEW f \in Fusionees, Release(f) PROVE IInv'
  BY <1>3, InvRelease
<1>4. CASE UNCHANGED vars
  <2>1. LockInv'
    BY <1>4, SameLock DEF vars, history
  <2>2. TypeOK'
    BY <1>4 DEF vars, locks, transfers, kernel, history, IInv, TypeOK
  <2>3. QED
    BY <1>4, <2>1, <2>2 DEF vars, kernel, IInv, ReleasedDead, WaitShape
<1>5. QED
  BY <1>1, <1>2, <1>3, <1>4 DEF Next

LEMMA Inductive == Spec => []IInv
  BY InvInit, InvStep, PTL DEF Spec

\* Every variable keeps its type, for any number of tasks and skirmishes.
THEOREM TypeCorrect == Spec => []TypeOK
<1>1. IInv => TypeOK
  BY DEF IInv
<1>2. QED
  BY <1>1, Inductive, PTL

\* Mutual exclusion and the lock depth, by the return codes of skirmish.c.
THEOREM Exclusion == Spec => []HeldIsLock
<1>1. IInv => HeldIsLock
  BY DEF IInv, LockInv
<1>2. QED
  BY <1>1, Inductive, PTL

\* A released process or a destroyed entry never keeps a lock.
THEOREM NoOrphans == Spec => []NoOrphanedLock
<1>1. IInv => NoOrphanedLock
  BY DEF IInv, LockInv
<1>2. QED
  BY <1>1, Inductive, PTL

-----------------------------------------------------------------------------
(* Wake-ups and notifications *)

\* A sleeping task is in a wait whose condition does not hold.
Blocked(t) ==
  /\ pc[t] \in {"prevail", "wait", "relock"}
  /\ obj[t] \in Live
  /\ pc[t] = "prevail" => MustWait(obj[t], t)
  /\ pc[t] = "relock"  => lock_pid[obj[t]] # Nobody
  /\ pc[t] = "wait"    => wait[t].notify_count = notify_count[obj[t]]

\* The counter a wait saved is behind as soon as it was notified.
Counted(t) ==
  /\ wait[t].lock_count = 0 => wait[t].id = Nobody /\ t \notin notified
  /\ wait[t].id \in Skirmishes => state[wait[t].id] # "unused"
  /\ wait[t].id \in Live => /\ wait[t].notify_count <= notify_count[wait[t].id]
                            /\ t \in notified => wait[t].notify_count < notify_count[wait[t].id]

WakeInv == IInv /\ (\A t \in asleep : Blocked(t)) /\ (\A t \in Tasks : Counted(t))

LEMMA WakeInvImplies == WakeInv => NoLostWakeup /\ NotifyReachesAll
<1> SUFFICES ASSUME WakeInv PROVE NoLostWakeup /\ NotifyReachesAll
  OBVIOUS
<1>1. NoLostWakeup
  BY DEF WakeInv, Blocked, NoLostWakeup
<1>2. ASSUME NEW t \in asleep, pc[t] = "wait" PROVE t \notin notified
  <2>1. t \in Tasks /\ obj[t] = wait[t].id /\ wait[t].id \in Live
    BY <1>2 DEF WakeInv, IInv, TypeOK, WaitShape, Blocked
  <2>2. wait[t].notify_count = notify_count[wait[t].id] /\ notify_count[wait[t].id] \in Nat
    BY <1>2, <2>1 DEF WakeInv, Blocked, IInv, TypeOK, Live
  <2>3. QED
    BY <2>1, <2>2 DEF WakeInv, Counted
<1>3. QED
  BY <1>1, <1>2 DEF NotifyReachesAll

\* A task stays blocked while its own place is untouched and the skirmish it
\* sleeps on is either owned or unchanged.
LEMMA StillBlocked ==
  ASSUME WakeInv, NEW t \in asleep,
         pc'[t] = pc[t], obj'[t] = obj[t], wait'[t] = wait[t], obj[t] \in Live',
         notify_count'[obj[t]] = notify_count[obj[t]],
         \A f \in Fusionees : dispatcher_pid'[f] \in {dispatcher_pid[f], Nobody},
         \/ lock_pid'[obj[t]] # Nobody
         \/ /\ lock_pid'[obj[t]]  = lock_pid[obj[t]]
            /\ transfer'[obj[t]]  = transfer[obj[t]]
            /\ transfer2'[obj[t]] = transfer2[obj[t]]
  PROVE  Blocked(t)'
<1>0. t \in Tasks /\ obj[t] \in Skirmishes /\ Blocked(t)
  BY DEF WakeInv, IInv, TypeOK, Blocked, Live
<1>1. ASSUME pc[t] = "prevail" PROVE MustWait(obj[t], t)'
  <2>1. CASE lock_pid'[obj[t]] # Nobody
    BY <1>1, <2>1 DEF MustWait
  <2>2. CASE /\ lock_pid'[obj[t]]  = lock_pid[obj[t]]
             /\ transfer'[obj[t]]  = transfer[obj[t]]
             /\ transfer2'[obj[t]] = transfer2[obj[t]]
    <3>1. Innermost(obj[t])' = Innermost(obj[t])
      BY <2>2 DEF Innermost
    <3>2. Innermost(obj[t]).to \in Fusionees \cup {Nobody}
      BY <1>0 DEF Innermost, WakeInv, IInv, TypeOK, Transfers
    <3>3. lock_pid[obj[t]] # Nobody \/ TransferredElsewhere(obj[t], t)
      BY <1>0, <1>1 DEF Blocked, MustWait
    <3>4. TransferredElsewhere(obj[t], t) => TransferredElsewhere(obj[t], t)'
      BY <1>0, <1>1, <3>1, <3>2, TasksAssumption DEF TransferredElsewhere
    <3>5. QED
      BY <2>2, <3>3, <3>4 DEF MustWait
  <2>3. QED
    BY <2>1, <2>2
<1>2. QED
  BY <1>0, <1>1 DEF Blocked

\* The history and the counters are untouched.
LEMMA StillCounted ==
  ASSUME WakeInv, NEW t \in Tasks, wait'[t] = wait[t],
         t \in notified' => t \in notified,
         UNCHANGED <<state, notify_count>>
  PROVE  Counted(t)'
  BY DEF WakeInv, Counted, Live

\* The wait is over.
LEMMA NotCounting ==
  ASSUME NEW t \in Tasks, wait'[t] = NoWait, t \notin notified'
  PROVE  Counted(t)'
  BY TasksAssumption DEF Counted, NoWait, Live

\* A step that wakes whoever sleeps on the skirmishes it frees, and does not
\* put anybody to sleep.
LEMMA WakeKeeps ==
  ASSUME WakeInv, IInv', NEW S \in SUBSET Skirmishes,
         asleep' \subseteq asleep \ Sleepers(S),
         \A t \in asleep' : pc'[t] = pc[t] /\ obj'[t] = obj[t] /\ wait'[t] = wait[t],
         \A f \in Fusionees : dispatcher_pid'[f] \in {dispatcher_pid[f], Nobody},
         \A s \in Skirmishes \ S :
           /\ s \in Live => s \in Live'
           /\ notify_count'[s] = notify_count[s]
           /\ \/ lock_pid'[s] # Nobody
              \/ /\ lock_pid'[s]  = lock_pid[s]
                 /\ transfer'[s]  = transfer[s]
                 /\ transfer2'[s] = transfer2[s]
  PROVE  \A t \in asleep' : Blocked(t)'
<1> SUFFICES ASSUME NEW t \in asleep' PROVE Blocked(t)'
  OBVIOUS
<1>1. t \in asleep /\ obj[t] \in Live /\ obj[t] \in Skirmishes \ S
  BY DEF WakeInv, Blocked, Live, Sleepers
<1>2. QED
  BY <1>1, StillBlocked

\* A step of t that puts t to sleep and leaves the skirmishes alone.
LEMMA SleepKeeps ==
  ASSUME WakeInv, IInv', NEW t \in Tasks, NEW where \in {"prevail", "wait", "relock"},
         NEW s \in Live, pc'[t] = where, obj'[t] = s, asleep' = asleep \cup {t}, Blocked(t)',
         \A u \in asleep : u # t => pc'[u] = pc[u] /\ obj'[u] = obj[u] /\ wait'[u] = wait[u],
         UNCHANGED <<state, notify_count, transfers, lock_pid>>
  PROVE  \A u \in asleep' : Blocked(u)'
<1> SUFFICES ASSUME NEW u \in asleep' PROVE Blocked(u)'
  OBVIOUS
<1>1. CASE u = t
  BY <1>1
<1>2. CASE u # t
  <2>1. u \in asleep /\ obj[u] \in Live
    BY <1>2 DEF WakeInv, Blocked
  <2>2. obj[u] \in Live'
    BY <2>1 DEF Live
  <2>3. QED
    BY <1>2, <2>1, <2>2, StillBlocked DEF transfers
<1>3. QED
  BY <1>1, <1>2

LEMMA WakeLockStep ==
  ASSUME WakeInv, NEW t \in Tasks, NEW s \in Skirmishes, LockStep(t, s)
  PROVE  WakeInv'
<1> USE DEF history, kernel, locks, transfers
<1>0. IInv /\ IInv'
  BY InvLockStep DEF WakeInv
<1>a. t \notin asleep
  <2>1. pc[t] = "user"
    BY DEF LockStep, PrevailOwned, PrevailFree, PrevailBlock, Swoop, Dismiss, Destroy,
           WaitFresh, Notify, InUser
  <2>2. QED
    BY <2>1 DEF WakeInv, Blocked
<1>b. ASSUME UNCHANGED <<state, notify_count, wait, notified>>
      PROVE  \A u \in Tasks : Counted(u)'
  BY <1>b, StillCounted DEF WakeInv
<1>1. CASE PrevailOwned(t, s)
  <2>1. \A u \in asleep' : Blocked(u)'
    <3>1. UNCHANGED <<state, lock_pid, notify_count, transfer, transfer2, dispatcher_pid,
                      asleep, pc, obj, wait>>
      BY <1>1 DEF PrevailOwned, Deepen
    <3>2. asleep' \subseteq asleep \ Sleepers({})
      BY <3>1 DEF Sleepers
    <3>3. QED
      BY <1>0, <3>1, <3>2, WakeKeeps DEF Live
  <2>2. QED
    BY <1>0, <1>1, <1>b, <2>1 DEF PrevailOwned, WakeInv
<1>2. CASE PrevailFree(t, s) \/ Swoop(t, s)
  <2>1. \A u \in asleep' : Blocked(u)'
    <3>1. UNCHANGED <<state, notify_count, transfer, transfer2, dispatcher_pid,
                      asleep, pc, obj, wait>>
      BY <1>2 DEF PrevailFree, Swoop
    <3>2. asleep' \subseteq asleep \ Sleepers({})
      BY <3>1 DEF Sleepers
    <3>3. UNCHANGED lock_pid \/ lock_pid' = [lock_pid EXCEPT ![s] = t]
      BY <1>2 DEF PrevailFree, Swoop, Deepen, Take
    <3>4. \A r \in Skirmishes : lock_pid'[r] # Nobody \/ lock_pid'[r] = lock_pid[r]
      BY <1>0, <3>3, TasksAssumption DEF IInv, TypeOK
    <3>5. QED
      BY <1>0, <3>1, <3>2, <3>4, WakeKeeps DEF Live
  <2>2. QED
    BY <1>0, <1>2, <1>b, <2>1 DEF PrevailFree, Swoop, WakeInv
<1>3. CASE PrevailBlock(t, s)
  <2>1. pc' = [pc EXCEPT ![t] = "prevail"] /\ obj' = [obj EXCEPT ![t] = s]
    BY <1>3 DEF PrevailBlock, SleepOn
  <2>2. pc'[t] = "prevail" /\ obj'[t] = s
    BY <1>0, <2>1 DEF IInv, TypeOK
  <2>3. Blocked(t)'
    BY <1>3, <2>2 DEF PrevailBlock, Blocked, MustWait, TransferredElsewhere, Innermost, Live
  <2>4. \A u \in asleep : u # t => pc'[u] = pc[u] /\ obj'[u] = obj[u] /\ wait'[u] = wait[u]
    BY <1>0, <1>3, <2>1 DEF PrevailBlock, IInv, TypeOK
  <2>5. \A u \in asleep' : Blocked(u)'
    BY <1>0, <1>3, <2>2, <2>3, <2>4, SleepKeeps DEF PrevailBlock
  <2>6. QED
    BY <1>0, <1>3, <1>b, <2>5 DEF PrevailBlock, WakeInv
<1>4. CASE Dismiss(t, s)
  <2>1. \A u \in asleep' : Blocked(u)'
    <3>1. UNCHANGED <<state, notify_count, transfer, transfer2, dispatcher_pid, pc, obj, wait>>
      BY <1>4 DEF Dismiss
    <3>2. CASE lock_count[s] = 1
      <4>1. asleep' \subseteq asleep \ Sleepers({s})
        BY <1>4, <3>2 DEF Dismiss, Wake
      <4>2. \A r \in Skirmishes \ {s} : lock_pid'[r] = lock_pid[r]
        BY <1>0, <1>4, <3>2 DEF Dismiss, IInv, TypeOK
      <4>3. QED
        BY <1>0, <3>1, <4>1, <4>2, WakeKeeps DEF Live
    <3>3. CASE lock_count[s] # 1
      <4>1. asleep' \subseteq asleep \ Sleepers({}) /\ UNCHANGED lock_pid
        BY <1>4, <3>3 DEF Dismiss, Sleepers
      <4>2. QED
        BY <1>0, <3>1, <4>1, WakeKeeps DEF Live
    <3>4. QED
      BY <3>2, <3>3
  <2>2. QED
    BY <1>0, <1>4, <1>b, <2>1 DEF Dismiss, WakeInv
<1>5. CASE Destroy(t, s)
  <2>1. /\ asleep' \subseteq asleep \ Sleepers({s})
        /\ UNCHANGED <<dispatcher_pid, pc, obj, wait, notified>>
        /\ \A r \in Skirmishes \ {s} :
             /\ state'[r] = state[r] /\ lock_pid'[r] = lock_pid[r]
             /\ notify_count'[r] = notify_count[r]
             /\ transfer'[r] = transfer[r] /\ transfer2'[r] = transfer2[r]
    BY <1>0, <1>5 DEF Destroy, Wake, IInv, TypeOK
  <2>2. \A u \in asleep' : Blocked(u)'
    BY <1>0, <2>1, WakeKeeps DEF Live
  <2>3. ASSUME NEW u \in Tasks PROVE Counted(u)'
    <3>1. Counted(u) /\ s \notin Live' /\ state'[s] = "destroyed"
      BY <1>0, <1>5 DEF WakeInv, Destroy, Live, IInv, TypeOK
    <3>2. QED
      BY <2>1, <3>1 DEF Counted, Live
  <2>4. QED
    BY <1>0, <2>2, <2>3 DEF WakeInv
<1>6. ASSUME NEW timed \in BOOLEAN, WaitFresh(t, s, timed)
      PROVE  WakeInv'
  <2>1. /\ pc' = [pc EXCEPT ![t] = "wait"] /\ obj' = [obj EXCEPT ![t] = s]
        /\ lock_pid' = [lock_pid EXCEPT ![s] = Nobody]
        /\ wait' = [wait EXCEPT ![t] = [id |-> s, lock_count |-> lock_count[s],
                                       notify_count |-> notify_count[s], timed |-> timed]]
        /\ asleep' = (asleep \ Sleepers({s})) \cup {t}
        /\ UNCHANGED <<state, notify_count, transfer, transfer2, dispatcher_pid, notified>>
    BY <1>6 DEF WaitFresh, SleepOn
  <2>2. /\ pc'[t] = "wait" /\ obj'[t] = s
        /\ wait'[t].id = s /\ wait'[t].notify_count = notify_count[s]
        /\ wait'[t].lock_count = lock_count[s]
    BY <1>0, <2>1 DEF IInv, TypeOK
  <2>3. s \in Live /\ wait[t].lock_count = 0 /\ lock_count[s] > 0
    BY <1>0, <1>6 DEF WaitFresh, IInv, LockInv, LockShape
  <2>4. Blocked(t)'
    BY <2>1, <2>2, <2>3 DEF Blocked, Live
  <2>5. ASSUME NEW u \in asleep', u # t PROVE Blocked(u)'
    <3>1. u \in asleep /\ obj[u] \in Live /\ obj[u] \in Skirmishes \ {s}
      BY <2>1, <2>5 DEF WakeInv, Blocked, Live, Sleepers
    <3>2. pc'[u] = pc[u] /\ obj'[u] = obj[u] /\ wait'[u] = wait[u] /\ lock_pid'[obj[u]] = lock_pid[obj[u]]
      BY <1>0, <2>1, <2>5, <3>1 DEF IInv, TypeOK
    <3>3. obj[u] \in Live'
      BY <2>1, <3>1 DEF Live
    <3>4. QED
      BY <2>1, <3>1, <3>2, <3>3, StillBlocked
  <2>6. ASSUME NEW u \in Tasks PROVE Counted(u)'
    <3>1. CASE u = t
      <4>1. t \notin notified'
        BY <2>1, <2>3 DEF WakeInv, Counted
      <4>2. wait'[t].notify_count <= notify_count[s] /\ lock_count[s] # 0 /\ state[s] = "live"
        BY <1>0, <2>2, <2>3 DEF IInv, TypeOK, Live
      <4>3. QED
        BY <2>1, <2>2, <2>3, <3>1, <4>1, <4>2 DEF Counted, Live
    <3>2. CASE u # t
      <4>1. wait'[u] = wait[u]
        BY <1>0, <2>1, <3>2 DEF IInv, TypeOK
      <4>2. QED
        BY <2>1, <4>1, StillCounted
    <3>3. QED
      BY <3>1, <3>2
  <2>7. QED
    BY <1>0, <2>4, <2>5, <2>6 DEF WakeInv
<1>7. CASE Notify(t, s)
  <2>1. /\ asleep' \subseteq asleep \ Sleepers({s})
        /\ UNCHANGED <<state, lock_pid, transfer, transfer2, dispatcher_pid, pc, obj, wait>>
        /\ notify_count' = [notify_count EXCEPT ![s] = @ + 1]
        /\ notified' = notified \cup {u \in Tasks : wait[u].id = s}
    BY <1>7 DEF Notify, Wake
  <2>2. /\ \A r \in Skirmishes \ {s} : notify_count'[r] = notify_count[r]
        /\ notify_count'[s] = notify_count[s] + 1
    BY <1>0, <2>1 DEF IInv, TypeOK
  <2>3. \A u \in asleep' : Blocked(u)'
    BY <1>0, <2>1, <2>2, WakeKeeps DEF Live
  <2>4. ASSUME NEW u \in Tasks PROVE Counted(u)'
    <3>1. Counted(u) /\ wait[u] \in Waits /\ notify_count \in [Skirmishes -> Nat]
      BY <1>0 DEF WakeInv, IInv, TypeOK
    <3>2. CASE wait[u].id = s
      <4>1. /\ wait[u].notify_count \in Nat /\ notify_count[s] \in Nat
            /\ s \in Live => wait[u].notify_count <= notify_count[s]
        BY <3>1, <3>2 DEF Counted, Waits
      <4>2. s \in Live => wait'[u].notify_count < notify_count'[s]
        BY <2>1, <2>2, <4>1
      <4>3. wait[u].lock_count # 0 /\ state'[s] # "unused"
        BY <2>1, <3>1, <3>2, TasksAssumption DEF Counted
      <4>4. s \in Live => wait'[u].notify_count <= notify_count'[s]
        BY <2>1, <2>2, <4>1
      <4>5. QED
        BY <2>1, <3>2, <4>2, <4>3, <4>4 DEF Counted, Live
    <3>3. CASE wait[u].id # s
      BY <2>1, <2>2, <3>1, <3>3 DEF Counted, Live
    <3>4. QED
      BY <3>2, <3>3
  <2>5. QED
    BY <1>0, <2>3, <2>4 DEF WakeInv
<1>8. QED
  BY <1>1, <1>2, <1>3, <1>4, <1>5, <1>6, <1>7 DEF LockStep

\* The steps of a task that is awake inside the kernel, or resumes a wait.
LEMMA WakeReturn ==
  ASSUME WakeInv, IInv', NEW t \in Tasks, t \notin asleep, ReturnToUser(t), UNCHANGED asleep,
         \A s \in Skirmishes : lock_pid'[s] # Nobody \/ lock_pid'[s] = lock_pid[s],
         \A u \in Tasks : u # t => wait'[u] = wait[u],
         UNCHANGED <<state, notify_count, transfers>>
  PROVE  \A u \in asleep' : Blocked(u)'
<1>1. asleep' \subseteq asleep \ Sleepers({})
  BY DEF Sleepers
<1>2. \A u \in asleep' : pc'[u] = pc[u] /\ obj'[u] = obj[u] /\ wait'[u] = wait[u]
  BY DEF WakeInv, IInv, TypeOK, ReturnToUser
<1>3. UNCHANGED <<transfer, transfer2, dispatcher_pid>>
  BY DEF transfers
<1>4. QED
  BY <1>1, <1>2, <1>3, WakeKeeps DEF Live

LEMMA WakeRelock ==
  ASSUME WakeInv, NEW t \in Tasks, NEW s \in Live, s = wait[t].id, wait[t].lock_count > 0,
         pc[t] # "dead", t \notin asleep, Relock(t, s),
         UNCHANGED <<state, notify_count, transfers, released, ops>>
  PROVE  WakeInv'
<1>0. IInv /\ IInv' /\ s \in Skirmishes
  BY InvRelock DEF WakeInv, Live
<1>1. CASE lock_pid[s] # Nobody
  <2>1. /\ pc' = [pc EXCEPT ![t] = "relock"] /\ obj' = [obj EXCEPT ![t] = s]
        /\ asleep' = asleep \cup {t}
        /\ UNCHANGED <<lock_pid, wait, notified>>
    BY <1>1 DEF Relock, SleepOn, locks
  <2>2. /\ pc'[t] = "relock" /\ obj'[t] = s
        /\ \A u \in asleep : u # t => pc'[u] = pc[u] /\ obj'[u] = obj[u] /\ wait'[u] = wait[u]
    BY <1>0, <2>1 DEF IInv, TypeOK
  <2>3. Blocked(t)'
    BY <1>1, <2>1, <2>2 DEF Blocked, Live
  <2>4. \A u \in asleep' : Blocked(u)'
    BY <1>0, <2>1, <2>2, <2>3, SleepKeeps
  <2>5. \A u \in Tasks : Counted(u)'
    BY <2>1, StillCounted
  <2>6. QED
    BY <1>0, <2>4, <2>5 DEF WakeInv
<1>2. CASE lock_pid[s] = Nobody
  <2>1. /\ lock_pid' = [lock_pid EXCEPT ![s] = t]
        /\ ReturnToUser(t)
        /\ wait'     = [wait EXCEPT ![t] = NoWait]
        /\ notified' = notified \ {t}
        /\ UNCHANGED asleep
    BY <1>2 DEF Relock, Take
  <2>2. \A r \in Skirmishes : lock_pid'[r] # Nobody \/ lock_pid'[r] = lock_pid[r]
    BY <1>0, <2>1, TasksAssumption DEF IInv, TypeOK
  <2>3. wait'[t] = NoWait /\ \A u \in Tasks : u # t => wait'[u] = wait[u]
    BY <1>0, <2>1 DEF IInv, TypeOK
  <2>4. \A u \in asleep' : Blocked(u)'
    BY <1>0, <2>1, <2>2, <2>3, WakeReturn
  <2>5. \A u \in Tasks : Counted(u)'
    BY <2>1, <2>3, StillCounted, NotCounting
  <2>6. QED
    BY <1>0, <2>4, <2>5 DEF WakeInv
<1>3. QED
  BY <1>1, <1>2

LEMMA WakeAwaitNotify ==
  ASSUME WakeInv, NEW t \in Tasks, NEW s \in Live, s = wait[t].id, wait[t].lock_count > 0,
         pc[t] # "dead", t \notin asleep, AwaitNotify(t, s),
         UNCHANGED <<state, notify_count, transfers, released, ops>>
  PROVE  WakeInv'
<1>0. IInv /\ IInv' /\ s \in Skirmishes
  BY InvAwaitNotify DEF WakeInv, Live
<1>1. CASE wait[t].notify_count = notify_count[s]
  <2>1. /\ pc' = [pc EXCEPT ![t] = "wait"] /\ obj' = [obj EXCEPT ![t] = s]
        /\ asleep' = asleep \cup {t}
        /\ UNCHANGED <<lock_pid, wait, notified>>
    BY <1>1 DEF AwaitNotify, SleepOn, locks
  <2>2. /\ pc'[t] = "wait" /\ obj'[t] = s
        /\ \A u \in asleep : u # t => pc'[u] = pc[u] /\ obj'[u] = obj[u] /\ wait'[u] = wait[u]
    BY <1>0, <2>1 DEF IInv, TypeOK
  <2>3. Blocked(t)'
    BY <1>1, <2>1, <2>2 DEF Blocked, Live
  <2>4. \A u \in asleep' : Blocked(u)'
    BY <1>0, <2>1, <2>2, <2>3, SleepKeeps
  <2>5. \A u \in Tasks : Counted(u)'
    BY <2>1, StillCounted
  <2>6. QED
    BY <1>0, <2>4, <2>5 DEF WakeInv
<1>2. CASE wait[t].notify_count # notify_count[s]
  BY <1>2, WakeRelock DEF AwaitNotify
<1>3. QED
  BY <1>1, <1>2

LEMMA WakeWaitFails ==
  ASSUME WakeInv, NEW t \in Tasks, NEW keep \in BOOLEAN, WaitFails(t, keep), pc[t] # "dead",
         t \notin asleep, UNCHANGED <<state, notify_count, transfers, released, ops>>
  PROVE  WakeInv'
<1>0. IInv /\ IInv'
  BY InvWaitFails DEF WakeInv
<1>1. \A u \in Tasks : u # t => wait'[u] = wait[u]
  BY <1>0 DEF WaitFails, IInv, TypeOK
<1>2. \A u \in asleep' : Blocked(u)'
  BY <1>0, <1>1, WakeReturn DEF WaitFails, locks
<1>3. \A u \in Tasks : Counted(u)'
  <2>1. CASE keep
    BY <2>1, StillCounted DEF WaitFails
  <2>2. CASE ~keep
    <3>1. wait'[t] = NoWait /\ notified' = notified \ {t}
      BY <1>0, <2>2 DEF WaitFails, IInv, TypeOK
    <3>2. QED
      BY <1>1, <3>1, StillCounted, NotCounting
  <2>3. QED
    BY <2>1, <2>2
<1>4. QED
  BY <1>0, <1>2, <1>3 DEF WakeInv

LEMMA WakePrevailResume ==
  ASSUME WakeInv, NEW t \in Tasks, PrevailResume(t)
  PROVE  WakeInv'
<1> DEFINE s == obj[t]
<1>0. IInv /\ IInv' /\ t \notin asleep /\ pc[t] = "prevail" /\ s \in Skirmishes
  BY InvPrevailResume DEF WakeInv, IInv, WaitShape, PrevailResume
<1>a. UNCHANGED <<state, notify_count, transfers, wait, notified>>
  BY DEF PrevailResume
<1>b. \A u \in Tasks : Counted(u)'
  BY <1>a, StillCounted
<1>1. CASE ReturnToUser(t) /\ UNCHANGED <<locks, asleep, held>>
  <2>1. \A u \in asleep' : Blocked(u)'
    BY <1>0, <1>1, <1>a, WakeReturn DEF locks
  <2>2. QED
    BY <1>0, <1>b, <2>1 DEF WakeInv
<1>2. CASE /\ s \in Live /\ MustWait(s, t) /\ asleep' = asleep \cup {t}
           /\ UNCHANGED <<locks, pc, obj, pending, expired, held>>
  <2>1. Blocked(t)'
    BY <1>0, <1>2, <1>a
       DEF Blocked, MustWait, TransferredElsewhere, Innermost, Live, locks, transfers
  <2>2. \A u \in asleep' : Blocked(u)'
    BY <1>0, <1>2, <1>a, <2>1, SleepKeeps DEF locks
  <2>3. QED
    BY <1>0, <1>b, <2>2 DEF WakeInv
<1>3. CASE Take(s, t, 1) /\ ReturnToUser(t) /\ UNCHANGED asleep
  <2>1. \A r \in Skirmishes : lock_pid'[r] # Nobody \/ lock_pid'[r] = lock_pid[r]
    BY <1>0, <1>3, TasksAssumption DEF Take, IInv, TypeOK
  <2>2. \A u \in asleep' : Blocked(u)'
    BY <1>0, <1>3, <1>a, <2>1, WakeReturn
  <2>3. QED
    BY <1>0, <1>b, <2>2 DEF WakeInv
<1>4. QED
  BY <1>1, <1>2, <1>3 DEF PrevailResume

\* dismiss_all wakes the sleepers of every skirmish it changes.
LEMMA WakeDismissSets ==
  ASSUME WakeInv, IInv', NEW L \in SUBSET Skirmishes, NEW S1 \in SUBSET Skirmishes,
         NEW S2 \in SUBSET Skirmishes, DismissSets(L, S1, S2), UNCHANGED <<state, notify_count>>,
         \A f \in Fusionees : dispatcher_pid'[f] \in {dispatcher_pid[f], Nobody},
         \A t \in asleep : pc'[t] = pc[t] /\ obj'[t] = obj[t] /\ wait'[t] = wait[t]
  PROVE  \A t \in asleep' : Blocked(t)'
<1> DEFINE S == L \cup S1 \cup S2
<1>1. asleep' \subseteq asleep \ Sleepers(S) /\ S \in SUBSET Skirmishes
  BY DEF DismissSets, Wake
<1>2. \A s \in Skirmishes \ S :
        lock_pid'[s] = lock_pid[s] /\ transfer'[s] = transfer[s] /\ transfer2'[s] = transfer2[s]
  BY DEF DismissSets, Dropped, Dropped2
<1>3. QED
  BY <1>1, <1>2, WakeKeeps DEF Live

LEMMA WakeExit ==
  ASSUME WakeInv, NEW t \in Tasks, Exit(t)
  PROVE  WakeInv'
<1>0. IInv /\ IInv'
  BY InvExit DEF WakeInv
<1>1. /\ UNCHANGED <<state, notify_count, dispatcher_pid, obj>>
      /\ pc' = [pc EXCEPT ![t] = "dead"] /\ wait' = [wait EXCEPT ![t] = NoWait]
      /\ notified' = notified \ {t}
  BY DEF Exit
<1>2. t \notin asleep
  BY DEF Exit, InUser, WakeInv, Blocked
<1>3. \A u \in asleep : pc'[u] = pc[u] /\ obj'[u] = obj[u] /\ wait'[u] = wait[u]
  BY <1>0, <1>1, <1>2 DEF IInv, TypeOK
<1>4. \A u \in asleep' : Blocked(u)'
  <2>1. CASE DismissAllFromPid(t)
    BY <1>0, <1>1, <1>3, <2>1, WakeDismissSets DEF DismissAllFromPid, Live
  <2>2. CASE UNCHANGED <<locks, transfer, transfer2, asleep, held>>
    <3>1. asleep' \subseteq asleep \ Sleepers({})
      BY <2>2 DEF Sleepers
    <3>2. QED
      BY <1>0, <1>1, <1>3, <2>2, <3>1, WakeKeeps DEF Live, locks
  <2>3. QED
    BY <2>1, <2>2 DEF Exit
<1>5. ASSUME NEW u \in Tasks PROVE Counted(u)'
  <2>1. IF u = t THEN wait'[u] = NoWait ELSE wait'[u] = wait[u]
    BY <1>0, <1>1 DEF IInv, TypeOK
  <2>2. QED
    BY <1>1, <2>1, StillCounted, NotCounting
<1>6. QED
  BY <1>0, <1>4, <1>5 DEF WakeInv

LEMMA WakeRelease ==
  ASSUME WakeInv, NEW f \in Fusionees, Release(f)
  PROVE  WakeInv'
<1>0. IInv /\ IInv'
  BY InvRelease DEF WakeInv
<1>1. /\ UNCHANGED <<state, notify_count, pc, obj, wait, notified>>
      /\ \A g \in Fusionees : dispatcher_pid'[g] \in {dispatcher_pid[g], Nobody}
  BY <1>0 DEF Release, IInv, TypeOK
<1>2. \A u \in asleep' : Blocked(u)'
  BY <1>0, <1>1, WakeDismissSets DEF Release, DismissAll, Live
<1>3. QED
  BY <1>0, <1>1, <1>2, StillCounted DEF WakeInv

LEMMA WakeTaskStep ==
  ASSUME WakeInv, NEW t \in Tasks,
         New(t) \/ Resume(t) \/ WaitAgain(t) \/ Signal(t) \/ Expire(t) \/ Exit(t)
  PROVE  WakeInv'
<1>0. IInv /\ IInv'
  BY InvTaskStep DEF WakeInv
<1>1. CASE New(t)
  <2>1. UNCHANGED <<lock_pid, notify_count, transfer, transfer2, dispatcher_pid, pc, obj,
                    asleep, wait, notified>>
    BY <1>1 DEF New, locks, transfers, kernel, history
  <2>2. PICK s \in Skirmishes : state[s] = "unused" /\ state' = [state EXCEPT ![s] = "live"]
    BY <1>1 DEF New
  <2>3. asleep' \subseteq asleep \ Sleepers({}) /\ \A r \in Live : r \in Live'
    BY <1>0, <2>1, <2>2 DEF Sleepers, Live, IInv, TypeOK
  <2>4. \A u \in asleep' : Blocked(u)'
    BY <1>0, <2>1, <2>3, WakeKeeps
  <2>5. ASSUME NEW u \in Tasks PROVE Counted(u)'
    <3>1. Counted(u) /\ (wait[u].id \in Skirmishes => state[wait[u].id] # "unused")
      BY DEF WakeInv, Counted
    <3>2. wait[u].id \in Skirmishes => wait[u].id # s /\ state'[wait[u].id] = state[wait[u].id]
      BY <1>0, <2>2, <3>1 DEF IInv, TypeOK
    <3>3. QED
      BY <2>1, <3>1, <3>2 DEF Counted, Live
  <2>6. QED
    BY <1>0, <2>4, <2>5 DEF WakeInv
<1>2. CASE WaitAgain(t)
  <2>1. pc[t] # "dead" /\ wait[t].lock_count > 0 /\ t \notin asleep
    BY <1>2 DEF WaitAgain, InUser, WakeInv, Blocked
  <2>2. CASE WaitFails(t, FALSE)
    BY <1>2, <2>1, <2>2, WakeWaitFails DEF WaitAgain
  <2>3. CASE wait[t].id \in Live /\ AwaitNotify(t, wait[t].id)
    BY <1>2, <2>1, <2>3, WakeAwaitNotify DEF WaitAgain
  <2>4. QED
    BY <1>2, <2>2, <2>3 DEF WaitAgain
<1>3. CASE WaitResume(t)
  <2>1. pc[t] # "dead" /\ wait[t].lock_count > 0 /\ t \notin asleep
    BY <1>3 DEF WaitResume, WakeInv, IInv, WaitShape
  <2>2. ASSUME NEW keep \in BOOLEAN, WaitFails(t, keep)
        PROVE  WakeInv'
    BY <1>3, <2>1, <2>2, WakeWaitFails DEF WaitResume
  <2>3. CASE wait[t].id \in Live /\ AwaitNotify(t, wait[t].id)
    BY <1>3, <2>1, <2>3, WakeAwaitNotify DEF WaitResume
  <2>4. CASE wait[t].id \in Live /\ Relock(t, wait[t].id)
    BY <1>3, <2>1, <2>4, WakeRelock DEF WaitResume
  <2>5. QED
    BY <1>3, <2>2, <2>3, <2>4 DEF WaitResume
<1>4. CASE RelockResume(t)
  <2>1. pc[t] # "dead" /\ wait[t].lock_count > 0 /\ t \notin asleep
    BY <1>4 DEF RelockResume, WakeInv, IInv, WaitShape
  <2>2. ASSUME NEW keep \in BOOLEAN, WaitFails(t, keep)
        PROVE  WakeInv'
    BY <1>4, <2>1, <2>2, WakeWaitFails DEF RelockResume
  <2>3. CASE wait[t].id \in Live /\ Relock(t, wait[t].id)
    BY <1>4, <2>1, <2>3, WakeRelock DEF RelockResume
  <2>4. QED
    BY <1>4, <2>2, <2>3 DEF RelockResume
<1>5. CASE Signal(t) \/ Expire(t)
  <2>1. asleep' \subseteq asleep \ Sleepers({})
    BY <1>5 DEF Signal, Expire, Sleepers
  <2>2. UNCHANGED <<state, lock_pid, notify_count, transfer, transfer2, dispatcher_pid,
                    pc, obj, wait, notified>>
    BY <1>5 DEF Signal, Expire, locks, transfers, history
  <2>3. \A u \in asleep' : Blocked(u)'
    BY <1>0, <2>1, <2>2, WakeKeeps DEF Live
  <2>4. QED
    BY <1>0, <2>2, <2>3, StillCounted DEF WakeInv
<1>6. QED
  BY <1>1, <1>2, <1>3, <1>4, <1>5, WakePrevailResume, WakeExit DEF Resume

LEMMA WakeInit == Init => WakeInv
<1> SUFFICES ASSUME Init PROVE WakeInv
  OBVIOUS
<1>1. IInv
  BY InvInit
<1>2. \A t \in Tasks : Counted(t)
  BY TasksAssumption DEF Init, Counted, NoWait, Live
<1>3. QED
  BY <1>1, <1>2 DEF Init, WakeInv

LEMMA WakeStep == WakeInv /\ [Next]_vars => WakeInv'
<1> SUFFICES ASSUME WakeInv, [Next]_vars PROVE WakeInv'
  OBVIOUS
<1>1. ASSUME NEW t \in Tasks, NEW s \in Skirmishes, LockStep(t, s) PROVE WakeInv'
  BY <1>1, WakeLockStep
<1>2. ASSUME NEW t \in Tasks,
             New(t) \/ Resume(t) \/ WaitAgain(t) \/ Signal(t) \/ Expire(t) \/ Exit(t)
      PROVE  WakeInv'
  BY <1>2, WakeTaskStep
<1>3. ASSUME NEW f \in Fusionees, Release(f) PROVE WakeInv'
  BY <1>3, WakeRelease
<1>4. CASE UNCHANGED vars
  <2>1. IInv'
    BY <1>4, InvStep DEF WakeInv
  <2>2. UNCHANGED <<state, lock_pid, notify_count, transfer, transfer2, dispatcher_pid,
                    asleep, pc, obj, wait, notified>>
    BY <1>4 DEF vars, locks, transfers, kernel, history
  <2>3. asleep' \subseteq asleep \ Sleepers({})
    BY <2>2 DEF Sleepers
  <2>4. \A u \in asleep' : Blocked(u)'
    BY <2>1, <2>2, <2>3, WakeKeeps DEF Live
  <2>5. QED
    BY <2>1, <2>2, <2>4, StillCounted DEF WakeInv
<1>5. QED
  BY <1>1, <1>2, <1>3, <1>4 DEF Next

LEMMA WakeInductive == Spec => []WakeInv
  BY WakeInit, WakeStep, PTL DEF Spec

\* No task sleeps on a condition that has come true.
THEOREM WakeUps == Spec => []NoLostWakeup
  BY WakeInductive, WakeInvImplies, PTL

\* No notified task sleeps for a notification, however often it was interrupted.
THEOREM Notifications == Spec => []NotifyReachesAll
  BY WakeInductive, WakeInvImplies, PTL

-----------------------------------------------------------------------------
(* A skirmish implements the monitor *)

\* Without calls no lock is ever given back by a callee.
NeverReturned == \A s \in Skirmishes : lock_pid[s] # Returned

\* A task that stays out of a wait has no structure; one whose counter is
\* behind was notified; and who takes the lock back was notified or timed out.
Earned(t) ==
  /\ wait[t].lock_count = 0 => wait[t] = NoWait
  /\ wait[t].id \in Live /\ wait[t].notify_count # notify_count[wait[t].id] => t \in notified
  /\ pc[t] = "relock" => t \in notified \/ wait[t].timed

MonitorInv == WakeInv /\ NeverReturned /\ \A t \in Tasks : Earned(t)

LEMMA StillEarned ==
  ASSUME MonitorInv, NEW t \in Tasks, wait'[t] = wait[t],
         pc'[t] = "relock" => pc[t] = "relock", t \in notified => t \in notified',
         UNCHANGED notify_count, wait[t].id \in Live' => wait[t].id \in Live
  PROVE  Earned(t)'
  BY DEF MonitorInv, Earned

LEMMA NothingEarned ==
  ASSUME NEW t \in Tasks, wait'[t] = NoWait, pc'[t] # "relock"
  PROVE  Earned(t)'
  BY TasksAssumption DEF Earned, NoWait, Live

\* A task on its way to the lock it waited for.
LEMMA EarnedRelock ==
  ASSUME MonitorInv, NEW t \in Tasks, Relock(t, wait[t].id), wait[t].id \in Live,
         wait[t].lock_count > 0, t \in notified \/ wait[t].timed, UNCHANGED <<state, notify_count>>
  PROVE  NeverReturned' /\ \A u \in Tasks : Earned(u)'
<1>0. IInv /\ \A u \in Tasks : Earned(u)
  BY DEF MonitorInv, WakeInv
<1>t. wait \in [Tasks -> Waits] /\ pc \in [Tasks -> {"user", "prevail", "wait", "relock", "dead"}]
  BY <1>0 DEF IInv, TypeOK
<1>1. CASE lock_pid[wait[t].id] # Nobody
  <2>1. /\ pc' = [pc EXCEPT ![t] = "relock"] /\ lock_pid' = lock_pid
        /\ wait' = wait /\ notified' = notified
    BY <1>1 DEF Relock, SleepOn, locks
  <2>2. Earned(t)'
    BY <1>0, <2>1 DEF Earned, Live
  <2>3. \A u \in Tasks \ {t} : Earned(u)'
    BY <1>t, <2>1, StillEarned DEF Live
  <2>4. QED
    BY <2>1, <2>2, <2>3 DEF MonitorInv, NeverReturned
<1>2. CASE lock_pid[wait[t].id] = Nobody
  <2>1. /\ pc' = [pc EXCEPT ![t] = "user"] /\ Take(wait[t].id, t, wait[t].lock_count)
        /\ wait' = [wait EXCEPT ![t] = NoWait] /\ notified' = notified \ {t}
    BY <1>2 DEF Relock, ReturnToUser
  <2>2. NeverReturned'
    BY <1>0, <2>1, TasksAssumption DEF MonitorInv, NeverReturned, Take, IInv, TypeOK
  <2>3. Earned(t)'
    BY <1>t, <2>1, NothingEarned
  <2>4. \A u \in Tasks \ {t} : Earned(u)'
    BY <1>t, <2>1, StillEarned DEF Live
  <2>5. QED
    BY <2>2, <2>3, <2>4
<1>3. QED
  BY <1>1, <1>2

LEMMA EarnedAwaitNotify ==
  ASSUME MonitorInv, NEW t \in Tasks, AwaitNotify(t, wait[t].id), wait[t].id \in Live,
         wait[t].lock_count > 0, UNCHANGED <<state, notify_count>>
  PROVE  NeverReturned' /\ \A u \in Tasks : Earned(u)'
<1>1. CASE wait[t].notify_count = notify_count[wait[t].id]
  <2>1. /\ pc' = [pc EXCEPT ![t] = "wait"] /\ lock_pid' = lock_pid
        /\ wait' = wait /\ notified' = notified
    BY <1>1 DEF AwaitNotify, SleepOn, locks
  <2>2. pc \in [Tasks -> {"user", "prevail", "wait", "relock", "dead"}]
    BY DEF MonitorInv, WakeInv, IInv, TypeOK
  <2>3. \A u \in Tasks : Earned(u)'
    BY <2>1, <2>2, StillEarned DEF Live
  <2>4. QED
    BY <2>1, <2>3 DEF MonitorInv, NeverReturned
<1>2. CASE wait[t].notify_count # notify_count[wait[t].id]
  <2>1. t \in notified
    BY <1>2 DEF MonitorInv, Earned
  <2>2. QED
    BY <1>2, <2>1, EarnedRelock DEF AwaitNotify
<1>3. QED
  BY <1>1, <1>2

LEMMA EarnedWaitFails ==
  ASSUME MonitorInv, NEW t \in Tasks, NEW keep \in BOOLEAN, WaitFails(t, keep),
         UNCHANGED <<state, notify_count>>
  PROVE  NeverReturned' /\ \A u \in Tasks : Earned(u)'
<1>0. wait \in [Tasks -> Waits] /\ pc \in [Tasks -> {"user", "prevail", "wait", "relock", "dead"}]
  BY DEF MonitorInv, WakeInv, IInv, TypeOK
<1>1. pc' = [pc EXCEPT ![t] = "user"] /\ lock_pid' = lock_pid
  BY DEF WaitFails, ReturnToUser, locks
<1>2. \A u \in Tasks \ {t} : wait'[u] = wait[u] /\ (u \in notified => u \in notified')
  BY <1>0 DEF WaitFails
<1>3. \A u \in Tasks \ {t} : Earned(u)'
  BY <1>0, <1>1, <1>2, StillEarned DEF Live
<1>4. Earned(t)'
  <2>1. CASE keep
    BY <1>0, <1>1, <2>1, StillEarned DEF WaitFails, Live
  <2>2. CASE ~keep
    BY <1>0, <1>1, <2>2, NothingEarned DEF WaitFails
  <2>3. QED
    BY <2>1, <2>2
<1>5. QED
  BY <1>1, <1>3, <1>4 DEF MonitorInv, NeverReturned

LEMMA EarnedLockStep ==
  ASSUME MonitorInv, NEW t \in Tasks, NEW s \in Skirmishes, LockStep(t, s)
  PROVE  NeverReturned' /\ \A u \in Tasks : Earned(u)'
<1> USE DEF history, kernel, locks, transfers
<1>0. IInv
  BY DEF MonitorInv, WakeInv
<1>t. /\ wait \in [Tasks -> Waits] /\ pc \in [Tasks -> {"user", "prevail", "wait", "relock", "dead"}]
      /\ lock_pid \in [Skirmishes -> Tasks \cup {Nobody, Returned}]
      /\ notify_count \in [Skirmishes -> Nat]
  BY <1>0 DEF IInv, TypeOK
<1>1. NeverReturned'
  <2>1. \A r \in Skirmishes : lock_pid'[r] \in {lock_pid[r], Nobody, t}
    BY <1>t DEF LockStep, PrevailOwned, PrevailFree, PrevailBlock, Swoop, Dismiss, Destroy, WaitFresh,
                Notify, Take, Deepen
  <2>2. QED
    BY <2>1, TasksAssumption DEF MonitorInv, NeverReturned
<1>2. CASE PrevailOwned(t, s) \/ PrevailFree(t, s) \/ Swoop(t, s) \/ Dismiss(t, s)
  <2>1. UNCHANGED <<pc, wait, notified, state, notify_count>>
    BY <1>2 DEF PrevailOwned, PrevailFree, Swoop, Dismiss
  <2>2. QED
    BY <1>1, <2>1, StillEarned DEF Live
<1>3. CASE PrevailBlock(t, s)
  <2>1. pc' = [pc EXCEPT ![t] = "prevail"] /\ UNCHANGED <<wait, notified, state, notify_count>>
    BY <1>3 DEF PrevailBlock, SleepOn
  <2>2. QED
    BY <1>1, <1>t, <2>1, StillEarned DEF Live
<1>4. CASE Destroy(t, s)
  <2>1. /\ state' = [state EXCEPT ![s] = "destroyed"] /\ notify_count' = [notify_count EXCEPT ![s] = 0]
        /\ UNCHANGED <<pc, wait, notified>>
    BY <1>4 DEF Destroy
  <2>2. \A r \in Live' : r \in Live /\ notify_count'[r] = notify_count[r]
    BY <1>0, <2>1, <1>t DEF Live, IInv, TypeOK
  <2>3. QED
    BY <1>1, <2>1, <2>2 DEF MonitorInv, Earned
<1>5. CASE Notify(t, s)
  <2>1. /\ notify_count' = [notify_count EXCEPT ![s] = @ + 1]
        /\ notified' = notified \cup {u \in Tasks : wait[u].id = s}
        /\ UNCHANGED <<pc, wait, state>>
    BY <1>5 DEF Notify
  <2>2. \A u \in Tasks : wait[u].id # s /\ wait[u].id \in Live =>
                           notify_count'[wait[u].id] = notify_count[wait[u].id]
    BY <1>t, <2>1 DEF Live
  <2>3. QED
    BY <1>1, <2>1, <2>2 DEF MonitorInv, Earned, Live
<1>6. ASSUME NEW timed \in BOOLEAN, WaitFresh(t, s, timed)
      PROVE  \A u \in Tasks : Earned(u)'
  <2>1. /\ pc' = [pc EXCEPT ![t] = "wait"] /\ UNCHANGED <<state, notify_count, notified>>
        /\ wait' = [wait EXCEPT ![t] = [id |-> s, lock_count |-> lock_count[s],
                                        notify_count |-> notify_count[s], timed |-> timed]]
    BY <1>6 DEF WaitFresh, SleepOn
  <2>2. lock_count[s] \in Nat \ {0}
    BY <1>0, <1>6 DEF WaitFresh, IInv, LockInv, LockShape, TypeOK
  <2>3. wait'[t].lock_count # 0 /\ wait'[t].id = s /\ wait'[t].notify_count = notify_count[s]
    BY <1>t, <2>1, <2>2
  <2>4. pc'[t] = "wait"
    BY <1>t, <2>1
  <2>5. Earned(t)'
    BY <2>1, <2>3, <2>4 DEF Earned
  <2>6. \A u \in Tasks \ {t} : Earned(u)'
    BY <1>t, <2>1, StillEarned DEF Live
  <2>7. QED
    BY <2>5, <2>6
<1>7. QED
  BY <1>1, <1>2, <1>3, <1>4, <1>5, <1>6 DEF LockStep

LEMMA EarnedTaskStep ==
  ASSUME MonitorInv, NEW t \in Tasks,
         New(t) \/ Resume(t) \/ WaitAgain(t) \/ Signal(t) \/ Expire(t) \/ Exit(t)
  PROVE  NeverReturned' /\ \A u \in Tasks : Earned(u)'
<1> USE DEF history, kernel, locks, transfers
<1>0. IInv /\ WakeInv
  BY DEF MonitorInv, WakeInv
<1>t. /\ wait \in [Tasks -> Waits] /\ pc \in [Tasks -> {"user", "prevail", "wait", "relock", "dead"}]
      /\ lock_pid \in [Skirmishes -> Tasks \cup {Nobody, Returned}]
  BY <1>0 DEF IInv, TypeOK
<1>1. CASE New(t)
  <2>1. UNCHANGED <<lock_pid, notify_count, pc, wait, notified>>
    BY <1>1 DEF New
  <2>2. PICK s \in Skirmishes : state[s] = "unused" /\ state' = [state EXCEPT ![s] = "live"]
    BY <1>1 DEF New
  <2>3. \A u \in Tasks : wait[u].id \in Live' => wait[u].id \in Live
    BY <1>0, <2>2 DEF Live, IInv, TypeOK, WakeInv, Counted
  <2>4. QED
    BY <2>1, <2>3, StillEarned DEF MonitorInv, NeverReturned
<1>2. CASE WaitAgain(t)
  BY <1>2, EarnedWaitFails, EarnedAwaitNotify DEF WaitAgain
<1>3. CASE WaitResume(t)
  <2>1. wait[t].lock_count > 0
    BY <1>0, <1>3 DEF WaitResume, IInv, WaitShape
  <2>2. CASE wait[t].timed /\ wait[t].id \in Live /\ Relock(t, wait[t].id)
    BY <1>3, <2>1, <2>2, EarnedRelock DEF WaitResume
  <2>3. CASE wait[t].id \in Live /\ AwaitNotify(t, wait[t].id)
    BY <1>3, <2>1, <2>3, EarnedAwaitNotify DEF WaitResume
  <2>4. CASE WaitFails(t, TRUE) \/ WaitFails(t, FALSE)
    BY <1>3, <2>4, EarnedWaitFails DEF WaitResume
  <2>5. QED
    BY <1>3, <2>2, <2>3, <2>4 DEF WaitResume
<1>4. CASE RelockResume(t)
  <2>1. wait[t].lock_count > 0 /\ (t \in notified \/ wait[t].timed)
    BY <1>0, <1>4 DEF RelockResume, IInv, WaitShape, MonitorInv, Earned
  <2>2. CASE wait[t].id \in Live /\ Relock(t, wait[t].id)
    BY <1>4, <2>1, <2>2, EarnedRelock DEF RelockResume
  <2>3. CASE WaitFails(t, TRUE) \/ WaitFails(t, FALSE)
    BY <1>4, <2>3, EarnedWaitFails DEF RelockResume
  <2>4. QED
    BY <1>4, <2>2, <2>3 DEF RelockResume
<1>5. CASE Signal(t) \/ Expire(t)
  <2>1. UNCHANGED <<state, lock_pid, notify_count, pc, wait, notified>>
    BY <1>5 DEF Signal, Expire
  <2>2. QED
    BY <2>1, StillEarned DEF MonitorInv, NeverReturned, Live
<1>6. CASE PrevailResume(t)
  <2>1. UNCHANGED <<state, notify_count, wait, notified>>
    BY <1>6 DEF PrevailResume
  <2>2. \A u \in Tasks : pc'[u] = "relock" => pc[u] = "relock"
    BY <1>6, <1>t DEF PrevailResume, ReturnToUser
  <2>3. \A r \in Skirmishes : lock_pid'[r] \in {lock_pid[r], t}
    BY <1>6, <1>t DEF PrevailResume, Take
  <2>4. QED
    BY <2>1, <2>2, <2>3, StillEarned, TasksAssumption DEF MonitorInv, NeverReturned, Live
<1>7. CASE Exit(t)
  <2>1. /\ UNCHANGED <<state, notify_count>> /\ pc' = [pc EXCEPT ![t] = "dead"]
        /\ wait' = [wait EXCEPT ![t] = NoWait] /\ notified' = notified \ {t}
    BY <1>7 DEF Exit
  <2>2. \A r \in Skirmishes : lock_pid'[r] \in {lock_pid[r], Nobody}
    BY <1>7, <1>t DEF Exit, DismissAllFromPid, DismissSets
  <2>3. Earned(t)'
    BY <1>t, <2>1, NothingEarned
  <2>4. \A u \in Tasks \ {t} : Earned(u)'
    BY <1>t, <2>1, StillEarned DEF Live
  <2>5. QED
    BY <2>2, <2>3, <2>4, TasksAssumption DEF MonitorInv, NeverReturned
<1>8. QED
  BY <1>1, <1>2, <1>3, <1>4, <1>5, <1>6, <1>7 DEF Resume

LEMMA MonitorInvStep == MonitorInv /\ [Next]_vars => MonitorInv'
<1> SUFFICES ASSUME MonitorInv, [Next]_vars PROVE NeverReturned' /\ \A u \in Tasks : Earned(u)'
  BY WakeStep DEF MonitorInv
<1>1. ASSUME NEW f \in Fusionees, Release(f) PROVE NeverReturned' /\ \A u \in Tasks : Earned(u)'
  <2>1. UNCHANGED <<state, notify_count, pc, wait, notified>>
    BY <1>1 DEF Release
  <2>2. \A r \in Skirmishes : lock_pid'[r] \in {lock_pid[r], Nobody}
    BY <1>1 DEF Release, DismissAll, DismissSets
  <2>3. QED
    BY <2>1, <2>2, StillEarned, TasksAssumption DEF MonitorInv, NeverReturned, Live
<1>2. CASE UNCHANGED vars
  BY <1>2, StillEarned DEF vars, locks, kernel, history, MonitorInv, NeverReturned, Live
<1>3. QED
  BY <1>1, <1>2, EarnedLockStep, EarnedTaskStep DEF Next

LEMMA MonitorInvInit == Init => MonitorInv
  BY WakeInit, TasksAssumption DEF Init, MonitorInv, NeverReturned, Earned, NoWait, Live

LEMMA MonitorInductive == Spec => []MonitorInv
  BY MonitorInvInit, MonitorInvStep, PTL DEF Spec

\* A step of the monitor, or none.
MonitorStep == [Abstract!Next]_(Abstract!vars)

LEMMA Stutter ==
  ASSUME UNCHANGED <<lock_pid, lock_count, wait, notified>>
  PROVE  MonitorStep
  BY DEF MonitorStep, Abstract!vars, MonitorDepth, MonitorSaved

\* The lock s gets the holder u, with depth n when u is somebody.
LEMMA SetLock ==
  ASSUME NEW s \in Skirmishes, NEW u, NEW n,
         lock_pid' = [lock_pid EXCEPT ![s] = u], lock_pid \in [Skirmishes -> Tasks \cup {Nobody, Returned}],
         \A r \in Skirmishes \ {s} : lock_count'[r] = lock_count[r],
         n = IF u = Nobody THEN 0 ELSE lock_count'[s]
  PROVE  Abstract!Set(s, u, n)
  BY DEF Abstract!Set, MonitorDepth

LEMMA SetSaved ==
  ASSUME NEW t \in Tasks, NEW w \in Waits, wait' = [wait EXCEPT ![t] = w], wait \in [Tasks -> Waits]
  PROVE  MonitorSaved' = [MonitorSaved EXCEPT ![t] = [id |-> w.id, depth |-> w.lock_count, timed |-> w.timed]]
  BY DEF MonitorSaved

LEMMA SavedNothing ==
  [id |-> NoWait.id, depth |-> NoWait.lock_count, timed |-> NoWait.timed] = Abstract!NotWaiting
  BY DEF NoWait, Abstract!NotWaiting

LEMMA GiveUpWait ==
  ASSUME NEW t \in Tasks, wait' = [wait EXCEPT ![t] = NoWait], wait \in [Tasks -> Waits],
         notified' = notified \ {t}
  PROVE  Abstract!GiveUp(t)
  BY SetSaved, SavedNothing, TransferTypes DEF Abstract!GiveUp

\* The locks L are freed.
LEMMA FreeLocks ==
  ASSUME NEW L \in SUBSET Skirmishes,
         lock_pid' = [s \in Skirmishes |-> IF s \in L THEN Nobody ELSE lock_pid[s]],
         \A s \in Skirmishes \ L : lock_count'[s] = lock_count[s]
  PROVE  Abstract!Free(L)
  BY DEF Abstract!Free, MonitorDepth

LEMMA FailedWait ==
  ASSUME MonitorInv, NEW t \in Tasks, NEW keep \in BOOLEAN, WaitFails(t, keep)
  PROVE  MonitorStep
<1>1. UNCHANGED <<lock_pid, lock_count>>
  BY DEF WaitFails, locks
<1>2. CASE keep
  BY <1>1, <1>2, Stutter DEF WaitFails
<1>3. CASE ~keep
  <2>1. wait \in [Tasks -> Waits]
    BY DEF MonitorInv, WakeInv, IInv, TypeOK
  <2>2. Abstract!GiveUp(t)
    BY <1>3, <2>1, GiveUpWait DEF WaitFails
  <2>3. Abstract!FailWait(t)
    BY <1>1, <2>2 DEF Abstract!FailWait, MonitorDepth
  <2>4. QED
    BY <2>3 DEF MonitorStep, Abstract!Next
<1>4. QED
  BY <1>2, <1>3

LEMMA EndedWait ==
  ASSUME MonitorInv, NEW t \in Tasks, Relock(t, wait[t].id), wait[t].id \in Live,
         t \in notified \/ wait[t].timed
  PROVE  MonitorStep
<1>0. IInv
  BY DEF MonitorInv, WakeInv
<1>1. CASE lock_pid[wait[t].id] # Nobody
  BY <1>1, Stutter DEF Relock, locks
<1>2. CASE lock_pid[wait[t].id] = Nobody
  <2>1. /\ Take(wait[t].id, t, wait[t].lock_count) /\ wait[t].id \in Skirmishes
        /\ wait' = [wait EXCEPT ![t] = NoWait] /\ notified' = notified \ {t}
    BY <1>2 DEF Relock, Live
  <2>t. /\ wait \in [Tasks -> Waits] /\ lock_count \in [Skirmishes -> Nat]
        /\ lock_pid \in [Skirmishes -> Tasks \cup {Nobody, Returned}]
    BY <1>0 DEF IInv, TypeOK
  <2>2. Abstract!Set(wait[t].id, t, wait[t].lock_count)
    BY <2>1, <2>t, SetLock, TasksAssumption DEF Take
  <2>3. MonitorSaved' = [MonitorSaved EXCEPT ![t] = Abstract!NotWaiting]
    BY <2>1, <2>t, SetSaved, SavedNothing, TransferTypes
  <2>4. MonitorSaved[t].id = wait[t].id /\ MonitorSaved[t].depth = wait[t].lock_count
        /\ MonitorSaved[t].timed = wait[t].timed
    BY DEF MonitorSaved
  <2>5. Abstract!EndWait(t, wait[t].id)
    BY <1>2, <2>1, <2>2, <2>3, <2>4 DEF Abstract!EndWait
  <2>6. QED
    BY <2>1, <2>5 DEF MonitorStep, Abstract!Next
<1>3. QED
  BY <1>1, <1>2

LEMMA AwaitedNotify ==
  ASSUME MonitorInv, NEW t \in Tasks, AwaitNotify(t, wait[t].id), wait[t].id \in Live
  PROVE  MonitorStep
<1>1. CASE wait[t].notify_count = notify_count[wait[t].id]
  BY <1>1, Stutter DEF AwaitNotify, locks
<1>2. CASE wait[t].notify_count # notify_count[wait[t].id]
  BY <1>2, EndedWait DEF AwaitNotify, MonitorInv, Earned
<1>3. QED
  BY <1>1, <1>2

LEMMA LockStepOfMonitor ==
  ASSUME MonitorInv, NEW t \in Tasks, NEW s \in Skirmishes, LockStep(t, s)
  PROVE  MonitorStep
<1> USE DEF history, kernel, locks, transfers
<1>0. IInv /\ t # Nobody
  BY TasksAssumption DEF MonitorInv, WakeInv
<1>t. /\ wait \in [Tasks -> Waits] /\ lock_count \in [Skirmishes -> Nat]
      /\ lock_pid \in [Skirmishes -> Tasks \cup {Nobody, Returned}]
      /\ notify_count \in [Skirmishes -> Nat]
  BY <1>0 DEF IInv, TypeOK
<1>1. CASE PrevailOwned(t, s) \/ (Swoop(t, s) /\ Deepen(s, t))
  <2>1. lock_pid[s] = t /\ Deepen(s, t) /\ UNCHANGED <<wait, notified>>
    <3>1. CASE PrevailOwned(t, s)
      BY <3>1 DEF PrevailOwned
    <3>2. CASE Swoop(t, s) /\ Deepen(s, t)
      <4>1. lock_count'[s] = lock_count[s] + 1 /\ lock_pid' = lock_pid
        BY <3>2, <1>t DEF Deepen
      <4>2. Take(s, t, 1) => lock_pid[s] = t
        BY <4>1, <1>t DEF Take
      <4>3. QED
        BY <3>2, <4>2 DEF Swoop
    <3>3. QED
      BY <1>1, <3>1, <3>2
  <2>2. lock_pid' = [lock_pid EXCEPT ![s] = t]
    BY <2>1, <1>t DEF Deepen
  <2>3. \A r \in Skirmishes \ {s} : lock_count'[r] = lock_count[r]
    BY <2>1, <1>t DEF Deepen
  <2>4. MonitorDepth[s] = lock_count[s] /\ lock_count'[s] = MonitorDepth[s] + 1
    BY <1>0, <1>t, <2>1 DEF Deepen, MonitorDepth
  <2>5. Abstract!Set(s, t, MonitorDepth[s] + 1)
    BY <1>0, <1>t, <2>2, <2>3, <2>4, SetLock
  <2>6. Abstract!Enter(t, s)
    BY <2>1, <2>5 DEF Abstract!Enter, MonitorSaved
  <2>7. QED
    BY <2>6 DEF MonitorStep, Abstract!Next
<1>2. CASE PrevailFree(t, s) \/ (Swoop(t, s) /\ Take(s, t, 1))
  <2>1. lock_pid[s] = Nobody /\ Take(s, t, 1) /\ UNCHANGED <<wait, notified>>
    <3>1. CASE PrevailFree(t, s)
      BY <3>1 DEF PrevailFree, MustWait
    <3>2. CASE Swoop(t, s) /\ Take(s, t, 1)
      <4>1. lock_pid[s] \in Tasks => lock_fid[s] # Nobody
        BY <1>0, TasksAssumption DEF IInv, LockInv, LockShape
      <4>2. lock_fid[s] = Nobody => lock_pid[s] = Nobody
        BY <1>t, <4>1 DEF MonitorInv, NeverReturned
      <4>3. CASE lock_fid[s] # Nobody
        <5>1. Deepen(s, t) /\ lock_pid[s] = t
          BY <3>2, <4>3 DEF Swoop
        <5>2. lock_count'[s] = 1 /\ lock_count'[s] = lock_count[s] + 1 /\ lock_count[s] > 0
          BY <1>0, <1>t, <3>2, <5>1 DEF Take, Deepen, IInv, LockInv, LockShape
        <5>4. QED
          BY <1>t, <5>2
      <4>4. QED
        BY <3>2, <4>2, <4>3 DEF Swoop
    <3>3. QED
      BY <1>2, <3>1, <3>2
  <2>2. Abstract!Set(s, t, 1)
    BY <1>0, <1>t, <2>1, SetLock DEF Take
  <2>3. MonitorDepth[s] + 1 = 1
    BY <2>1 DEF MonitorDepth
  <2>4. Abstract!Enter(t, s)
    BY <2>1, <2>2, <2>3 DEF Abstract!Enter, MonitorSaved
  <2>5. QED
    BY <2>4 DEF MonitorStep, Abstract!Next
<1>3. CASE PrevailBlock(t, s)
  BY <1>3, Stutter DEF PrevailBlock
<1>4. CASE Dismiss(t, s)
  <2>1. /\ lock_pid[s] = t /\ lock_count' = [lock_count EXCEPT ![s] = @ - 1]
        /\ UNCHANGED <<wait, notified>>
        /\ lock_pid' = [lock_pid EXCEPT ![s] = IF lock_count[s] = 1 THEN Nobody ELSE t]
    BY <1>4, <1>t DEF Dismiss
  <2>2. MonitorDepth[s] = lock_count[s] /\ lock_count'[s] = lock_count[s] - 1
    BY <1>0, <1>t, <2>1 DEF MonitorDepth
  <2>3. \A r \in Skirmishes \ {s} : lock_count'[r] = lock_count[r]
    BY <1>t, <2>1
  <2>4. lock_count[s] - 1 = IF (IF lock_count[s] = 1 THEN Nobody ELSE t) = Nobody THEN 0 ELSE lock_count'[s]
    BY <1>0, <1>t, <2>2
  <2>5. Abstract!Set(s, IF MonitorDepth[s] = 1 THEN Nobody ELSE t, MonitorDepth[s] - 1)
    BY <1>t, <2>1, <2>2, <2>3, <2>4, SetLock
  <2>6. Abstract!Leave(t, s)
    BY <2>1, <2>5 DEF Abstract!Leave, MonitorSaved
  <2>7. QED
    BY <2>6 DEF MonitorStep, Abstract!Next
<1>5. CASE Destroy(t, s)
  <2>1. /\ lock_pid' = [r \in Skirmishes |-> IF r \in {s} THEN Nobody ELSE lock_pid[r]]
        /\ \A r \in Skirmishes \ {s} : lock_count'[r] = lock_count[r]
        /\ UNCHANGED <<wait, notified>>
    BY <1>5, <1>t DEF Destroy
  <2>2. Abstract!Free({s})
    BY <2>1, FreeLocks
  <2>3. Abstract!Destroy(s)
    BY <2>1, <2>2 DEF Abstract!Destroy, MonitorSaved
  <2>4. QED
    BY <2>3 DEF MonitorStep, Abstract!Next
<1>6. CASE Notify(t, s)
  <2>1. /\ lock_pid[s] = t /\ UNCHANGED <<lock_pid, lock_count, wait>>
        /\ notified' = notified \cup {u \in Tasks : wait[u].id = s}
    BY <1>6 DEF Notify
  <2>2. {u \in Tasks : wait[u].id = s} = {u \in Tasks : MonitorSaved[u].id = s}
    BY DEF MonitorSaved
  <2>3. Abstract!Notify(t, s)
    BY <2>1, <2>2 DEF Abstract!Notify, MonitorSaved, MonitorDepth
  <2>4. QED
    BY <2>3 DEF MonitorStep, Abstract!Next
<1>7. ASSUME NEW timed \in BOOLEAN, WaitFresh(t, s, timed)
      PROVE  MonitorStep
  <2> DEFINE w == [id |-> s, lock_count |-> lock_count[s], notify_count |-> notify_count[s],
                   timed |-> timed]
  <2>1. /\ lock_pid[s] = t /\ wait[t].lock_count = 0 /\ wait' = [wait EXCEPT ![t] = w]
        /\ lock_pid' = [lock_pid EXCEPT ![s] = Nobody] /\ UNCHANGED <<lock_count, notified>>
    BY <1>7 DEF WaitFresh
  <2>2. w \in Waits /\ w.id = s /\ w.lock_count = lock_count[s] /\ w.timed = timed
    BY <1>t DEF Waits
  <2>3. MonitorDepth[s] = lock_count[s]
    BY <1>0, <2>1 DEF MonitorDepth
  <2>4. Abstract!Set(s, Nobody, 0)
    BY <1>t, <2>1, SetLock
  <2>5. MonitorSaved[t] = Abstract!NotWaiting
    BY <2>1, SavedNothing DEF MonitorInv, Earned, MonitorSaved
  <2>6. MonitorSaved' = [MonitorSaved EXCEPT ![t] = [id |-> s, depth |-> MonitorDepth[s], timed |-> timed]]
    <3>1. MonitorSaved' = [MonitorSaved EXCEPT ![t] =
                             [id |-> w.id, depth |-> w.lock_count, timed |-> w.timed]]
      <4> HIDE DEF w
      <4>1. QED
        BY <1>t, <2>1, <2>2, SetSaved
    <3>2. QED
      BY <2>2, <2>3, <3>1
  <2>7. Abstract!BeginWait(t, s, timed)
    BY <2>1, <2>4, <2>5, <2>6 DEF Abstract!BeginWait
  <2>8. QED
    BY <2>7 DEF MonitorStep, Abstract!Next
<1>8. QED
  BY <1>1, <1>2, <1>3, <1>4, <1>5, <1>6, <1>7 DEF LockStep, Swoop

LEMMA TaskStepOfMonitor ==
  ASSUME MonitorInv, NEW t \in Tasks,
         New(t) \/ Resume(t) \/ WaitAgain(t) \/ Signal(t) \/ Expire(t) \/ Exit(t)
  PROVE  MonitorStep
<1> USE DEF history, kernel, locks, transfers
<1>0. IInv /\ t # Nobody
  BY TasksAssumption DEF MonitorInv, WakeInv
<1>t. /\ wait \in [Tasks -> Waits] /\ lock_count \in [Skirmishes -> Nat]
      /\ lock_pid \in [Skirmishes -> Tasks \cup {Nobody, Returned}]
  BY <1>0 DEF IInv, TypeOK
<1>1. CASE New(t) \/ Signal(t) \/ Expire(t)
  BY <1>1, Stutter DEF New, Signal, Expire
<1>2. CASE WaitAgain(t)
  BY <1>2, FailedWait, AwaitedNotify DEF WaitAgain
<1>3. CASE WaitResume(t)
  BY <1>3, FailedWait, AwaitedNotify, EndedWait DEF WaitResume
<1>4. CASE RelockResume(t)
  BY <1>4, FailedWait, EndedWait DEF RelockResume, MonitorInv, Earned
<1>5. CASE PrevailResume(t)
  <2>1. CASE UNCHANGED locks
    BY <1>5, <2>1, Stutter DEF PrevailResume
  <2>2. CASE obj[t] \in Live /\ ~MustWait(obj[t], t) /\ Take(obj[t], t, 1)
    <3>1. obj[t] \in Skirmishes /\ lock_pid[obj[t]] = Nobody
      BY <2>2 DEF Live, MustWait
    <3>2. Abstract!Set(obj[t], t, 1)
      <4> DEFINE s == obj[t]
      <4>1. lock_pid' = [lock_pid EXCEPT ![s] = t] /\ lock_count' = [lock_count EXCEPT ![s] = 1]
        BY <2>2 DEF Take
      <4>2. lock_count'[s] = 1 /\ \A r \in Skirmishes \ {s} : lock_count'[r] = lock_count[r]
        BY <1>t, <3>1, <4>1
      <4>3. QED
        BY <1>0, <1>t, <3>1, <4>1, <4>2, SetLock
    <3>a. MonitorDepth[obj[t]] + 1 = 1
      BY <3>1 DEF MonitorDepth
    <3>3. Abstract!Enter(t, obj[t])
      BY <1>5, <3>1, <3>2, <3>a DEF Abstract!Enter, MonitorSaved, PrevailResume
    <3>4. QED
      BY <3>1, <3>3 DEF MonitorStep, Abstract!Next
  <2>3. QED
    BY <1>5, <2>1, <2>2 DEF PrevailResume
<1>6. CASE Exit(t)
  <2>1. Abstract!GiveUp(t)
    BY <1>6, <1>t, GiveUpWait DEF Exit
  <2>2. CASE Alive(Owner[t]) = {t}
    <3> DEFINE L == {s \in Skirmishes : lock_pid[s] = t}
    <3>1. {s \in Live : lock_pid[s] = t} = L
      BY <1>0 DEF IInv, LockInv, LockShape, Live
    <3>2. /\ lock_pid' = [s \in Skirmishes |-> IF s \in L THEN Nobody ELSE lock_pid[s]]
          /\ \A s \in Skirmishes \ L : lock_count'[s] = lock_count[s]
      BY <1>6, <2>2, <3>1 DEF Exit, DismissAllFromPid, DismissSets
    <3>3. Abstract!Exit(t)
      BY <2>1, <3>2, FreeLocks DEF Abstract!Exit
    <3>4. QED
      BY <3>3 DEF MonitorStep, Abstract!Next
  <2>3. CASE Alive(Owner[t]) # {t}
    <3>1. Abstract!FailWait(t)
      BY <1>6, <2>1, <2>3 DEF Exit, Abstract!FailWait, MonitorDepth
    <3>2. QED
      BY <3>1 DEF MonitorStep, Abstract!Next
  <2>4. QED
    BY <2>2, <2>3
<1>7. QED
  BY <1>1, <1>2, <1>3, <1>4, <1>5, <1>6 DEF Resume

LEMMA ReleaseOfMonitor ==
  ASSUME MonitorInv, NEW f \in Fusionees, Release(f)
  PROVE  MonitorStep
<1> DEFINE T == {t \in Tasks : Owner[t] = f}
           L == {s \in Skirmishes : lock_pid[s] \in T}
<1>1. {s \in Live : lock_fid[s] = f} = L
  BY TasksAssumption DEF MonitorInv, WakeInv, IInv, LockInv, LockShape, Live
<1>2. /\ lock_pid' = [s \in Skirmishes |-> IF s \in L THEN Nobody ELSE lock_pid[s]]
      /\ \A s \in Skirmishes \ L : lock_count'[s] = lock_count[s]
      /\ UNCHANGED <<wait, notified>>
  BY <1>1 DEF Release, DismissAll, DismissSets
<1>3. Abstract!Free(L)
  BY <1>2, FreeLocks
<1>4. T \in SUBSET Tasks /\ Abstract!Bury(T)
  BY <1>2, <1>3 DEF Abstract!Bury, MonitorSaved
<1>5. QED
  BY <1>4 DEF MonitorStep, Abstract!Next

\* A skirmish implements the abstract monitor: from the outside it is a lock with
\* a condition, whatever sleeps, signals, timers and deaths happen inside.
THEOREM MonitorImplemented == Spec => ImplementsMonitor
<1>1. Init => Abstract!Init
  BY SavedNothing DEF Init, Abstract!Init, MonitorDepth, MonitorSaved
<1>2. MonitorInv /\ [Next]_vars => MonitorStep
  <2> SUFFICES ASSUME MonitorInv, [Next]_vars PROVE MonitorStep
    OBVIOUS
  <2>1. CASE UNCHANGED vars
    BY <2>1, Stutter DEF vars, locks, history
  <2>2. QED
    BY <2>1, LockStepOfMonitor, TaskStepOfMonitor, ReleaseOfMonitor DEF Next
<1>3. QED
  BY <1>1, <1>2, MonitorInductive, PTL DEF Spec, ImplementsMonitor, Abstract!Spec, MonitorStep
=============================================================================
