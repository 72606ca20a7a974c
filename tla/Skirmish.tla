------------------------------ MODULE Skirmish ------------------------------
(***************************************************************************)
(* The skirmish of linux-fusion (skirmish.c): a recursive lock owned by a  *)
(* task, with a condition (wait_ / notify_) and with slots that hold the   *)
(* lock of a caller while its call is executed by another fusionee.        *)
(*                                                                         *)
(* Every ioctl runs under the one global semaphore of fusioncore_impl.c,   *)
(* which fusion_core_wq_wait alone gives up.  An action is therefore the   *)
(* code from an ioctl's entry, or from a wake-up, to the next wait or to   *)
(* the return to user space.                                               *)
(*                                                                         *)
(* The transfer slots are read here and filled by SkirmishCall, which      *)
(* composes this module with the calls of call.c.                          *)
(***************************************************************************)
EXTENDS Naturals, FiniteSets

CONSTANTS
  Tasks,       \* kernel tasks (pids)
  Fusionees,   \* fusion ids
  Owner,       \* the fusionee whose file descriptor a task uses
  Skirmishes,  \* entry ids, given out once each
  Nobody,      \* the value 0 of a pid or a fusion id
  Returned,    \* the value -1 of lock_pid: given back by the callee
  Mortals,     \* the tasks that may exit
  MaxOps,      \* bound: acquiring calls (prevail, swoop, wait) of each task
  MaxNotify    \* bound: notifications of a skirmish

ASSUME TasksAssumption ==
  /\ Nobody \notin Tasks \cup Fusionees \cup Skirmishes
  /\ Returned \notin Tasks \cup {Nobody}
  /\ Owner \in [Tasks -> Fusionees]
  /\ Mortals \subseteq Tasks
  /\ MaxOps \in [Tasks -> Nat] /\ MaxNotify \in Nat

VARIABLES
  state,           \* of an entry id: "unused", "live" or "destroyed"
  lock_fid, lock_pid, lock_count, notify_count,
  transfer,        \* transfer_to, _from, _from_pid, _count, _serial
  transfer2,       \* the same for a call made while serving a call
  dispatcher_pid,  \* of a fusionee: the task that last read its messages
  pc,              \* where a task is: "user", or the wait it is in, or "dead"
  obj,             \* the skirmish whose wait queue the task is on
  asleep,          \* tasks that schedule() has not let continue yet
  pending,         \* tasks in the kernel with a signal pending
  expired,         \* tasks whose timeout has run out
  wait,            \* FusionSkirmishWait, kept by the user over EINTR
  released,        \* fusionees whose file has been released
  ops,             \* bound: acquiring calls a task has left
  held,            \* history: lock depth a task has by its return codes
  notified         \* history: tasks notified since their wait began

locks     == <<lock_fid, lock_pid, lock_count>>
transfers == <<transfer, transfer2, dispatcher_pid>>
kernel    == <<pc, obj, asleep, pending, expired>>
history   == <<held, notified>>
vars == <<state, locks, notify_count, transfers, kernel, wait, released, ops, history>>

NoTransfer == [to |-> Nobody, from |-> Nobody, from_pid |-> Nobody, count |-> 0, serial |-> 0]
NoWait     == [id |-> Nobody, lock_count |-> 0, notify_count |-> 0, timed |-> FALSE]

Transfers == [to : Fusionees \cup {Nobody}, from : Fusionees \cup {Nobody},
              from_pid : Tasks \cup {Nobody}, count : Nat, serial : Nat]
Waits     == [id : Skirmishes \cup {Nobody}, lock_count : Nat, notify_count : Nat,
              timed : BOOLEAN]

Live == {s \in Skirmishes : state[s] = "live"}

-----------------------------------------------------------------------------
(* The wait queue of an entry *)

Sleepers(S) == {t \in asleep : obj[t] \in S}

\* Mutants: one sleeper is woken, none is.
WakeOne(S) ==
  asleep' = IF Sleepers(S) = {} THEN asleep ELSE asleep \ {CHOOSE t \in Sleepers(S) : TRUE}

WakeNone(S) == UNCHANGED asleep

\* fusion_core_wq_wake on the entries S: wake_up_all, nobody chosen.
Wake(S) == asleep' = asleep \ Sleepers(S)

\* prepare_to_wait and schedule, the caller last: what it did wakes others.
SleepOn(t, s, where) ==
  /\ pc'  = [pc EXCEPT ![t] = where]
  /\ obj' = [obj EXCEPT ![t] = s]
  /\ UNCHANGED <<pending, expired>>

\* Back to user space, where a pending signal is handled.
ReturnToUser(t) ==
  /\ pc'  = [pc EXCEPT ![t] = "user"]
  /\ obj' = [obj EXCEPT ![t] = Nobody]
  /\ pending' = pending \ {t}
  /\ expired' = expired \ {t}

-----------------------------------------------------------------------------
(* The lock *)

\* The call a transferred lock belongs to: the nested one when there is one.
Innermost(s) == IF transfer2[s].to # Nobody THEN transfer2[s] ELSE transfer[s]

TransferredElsewhere(s, t) ==
  /\ Innermost(s).to # Nobody
  /\ dispatcher_pid[Innermost(s).to] # t

\* Mutants: the transfer slots are not looked at, the holder is not looked at.
MustWaitForHolder(s, t)   == lock_pid[s] # Nobody
MustWaitForTransfer(s, t) == TransferredElsewhere(s, t)

\* The loop condition of fusion_skirmish_prevail.
MustWait(s, t) == lock_pid[s] # Nobody \/ TransferredElsewhere(s, t)

Take(s, t, n) ==
  /\ lock_fid'   = [lock_fid EXCEPT ![s] = Owner[t]]
  /\ lock_pid'   = [lock_pid EXCEPT ![s] = t]
  /\ lock_count' = [lock_count EXCEPT ![s] = n]
  /\ held'       = [held EXCEPT ![t][s] = n]

Deepen(s, t) ==
  /\ lock_count' = [lock_count EXCEPT ![s] = @ + 1]
  /\ held'       = [held EXCEPT ![t][s] = @ + 1]
  /\ UNCHANGED <<lock_fid, lock_pid>>

Spend(t) == ops[t] > 0 /\ ops' = [ops EXCEPT ![t] = @ - 1]

InUser(t) == pc[t] = "user"

New(t) ==
  /\ InUser(t)
  /\ \E s \in Skirmishes : state[s] = "unused" /\ state' = [state EXCEPT ![s] = "live"]
  /\ UNCHANGED <<locks, notify_count, transfers, kernel, wait, released, ops, history>>

PrevailOwned(t, s) ==
  /\ InUser(t) /\ s \in Live /\ Spend(t)
  /\ lock_pid[s] = t
  /\ Deepen(s, t)
  /\ UNCHANGED <<state, notify_count, transfers, kernel, wait, released, notified>>

PrevailFree(t, s) ==
  /\ InUser(t) /\ s \in Live /\ Spend(t)
  /\ lock_pid[s] # t /\ ~MustWait(s, t)
  /\ Take(s, t, 1)
  /\ UNCHANGED <<state, notify_count, transfers, kernel, wait, released, notified>>

PrevailBlock(t, s) ==
  /\ InUser(t) /\ s \in Live /\ Spend(t)
  /\ lock_pid[s] # t /\ MustWait(s, t)
  /\ SleepOn(t, s, "prevail")
  /\ asleep' = asleep \cup {t}
  /\ UNCHANGED <<state, locks, notify_count, transfers, wait, released, history>>

\* fusion_entry_wait returned into the loop of fusion_skirmish_prevail.
PrevailResume(t) ==
  LET s == obj[t] IN
  /\ pc[t] = "prevail" /\ t \notin asleep
  /\ \/ /\ t \in pending \/ s \notin Live              \* EINTR, EIDRM
        /\ ReturnToUser(t)
        /\ UNCHANGED <<locks, asleep, held>>
     \/ /\ t \notin pending /\ s \in Live /\ MustWait(s, t)
        /\ asleep' = asleep \cup {t}
        /\ UNCHANGED <<locks, pc, obj, pending, expired, held>>
     \/ /\ t \notin pending /\ s \in Live /\ ~MustWait(s, t)
        /\ Take(s, t, 1)
        /\ ReturnToUser(t)
        /\ UNCHANGED asleep
  /\ UNCHANGED <<state, notify_count, transfers, wait, released, ops, notified>>

\* fusion_skirmish_swoop asks for lock_fid where prevail asks for lock_pid.
Swoop(t, s) ==
  LET busy == lock_fid[s] # Nobody \/ TransferredElsewhere(s, t) IN
  /\ InUser(t) /\ s \in Live /\ Spend(t)
  /\ \/ busy /\ lock_pid[s] = t /\ Deepen(s, t)
     \/ ~busy /\ Take(s, t, 1)
  /\ UNCHANGED <<state, notify_count, transfers, kernel, wait, released, notified>>

Dismiss(t, s) ==
  /\ InUser(t) /\ s \in Live
  /\ lock_pid[s] = t                                   \* else EIO
  /\ lock_count' = [lock_count EXCEPT ![s] = @ - 1]
  /\ held'       = [held EXCEPT ![t][s] = @ - 1]
  /\ IF lock_count[s] = 1
     THEN /\ lock_fid' = [lock_fid EXCEPT ![s] = Nobody]
          /\ lock_pid' = [lock_pid EXCEPT ![s] = Nobody]
          /\ Wake({s})
     ELSE UNCHANGED <<lock_fid, lock_pid, asleep>>
  /\ UNCHANGED <<state, notify_count, transfers, pc, obj, pending, expired,
                 wait, released, ops, notified>>

\* The entry leaves the hash, its waiters are woken, its memory is freed.
Destroy(t, s) ==
  /\ InUser(t) /\ s \in Live
  /\ state'        = [state EXCEPT ![s] = "destroyed"]
  /\ lock_fid'     = [lock_fid EXCEPT ![s] = Nobody]
  /\ lock_pid'     = [lock_pid EXCEPT ![s] = Nobody]
  /\ lock_count'   = [lock_count EXCEPT ![s] = 0]
  /\ notify_count' = [notify_count EXCEPT ![s] = 0]
  /\ transfer'     = [transfer EXCEPT ![s] = NoTransfer]
  /\ transfer2'    = [transfer2 EXCEPT ![s] = NoTransfer]
  /\ Wake({s})
  /\ held' = [u \in Tasks |-> [held[u] EXCEPT ![s] = 0]]
  /\ UNCHANGED <<dispatcher_pid, pc, obj, pending, expired, wait, released, ops, notified>>

-----------------------------------------------------------------------------
(* The condition *)

\* fusion_skirmish_wait_ with a fresh FusionSkirmishWait.
WaitFresh(t, s, timed) ==
  /\ InUser(t) /\ s \in Live /\ Spend(t)
  /\ wait[t].lock_count = 0
  /\ lock_pid[s] = t                                   \* else EIO
  /\ wait' = [wait EXCEPT ![t] = [id |-> s, lock_count |-> lock_count[s],
                                  notify_count |-> notify_count[s], timed |-> timed]]
  /\ lock_fid' = [lock_fid EXCEPT ![s] = Nobody]
  /\ lock_pid' = [lock_pid EXCEPT ![s] = Nobody]
  /\ held'     = [held EXCEPT ![t][s] = 0]
  /\ SleepOn(t, s, "wait")
  /\ asleep' = (asleep \ Sleepers({s})) \cup {t}
  /\ UNCHANGED <<state, lock_count, notify_count, transfers, released, notified>>

\* Leave the wait without the lock: the structure stays with the user on
\* EINTR, on any other error the user drops it.
WaitFails(t, keep) ==
  /\ ReturnToUser(t)
  /\ wait'     = IF keep THEN wait ELSE [wait EXCEPT ![t] = NoWait]
  /\ notified' = IF keep THEN notified ELSE notified \ {t}
  /\ UNCHANGED <<locks, asleep, held>>

\* Mutant: the lock is taken once, whatever its old depth.
RelockOnce(t, s) ==
  IF lock_pid[s] # Nobody
  THEN /\ SleepOn(t, s, "relock")
       /\ asleep' = asleep \cup {t}
       /\ UNCHANGED <<locks, held, wait, notified>>
  ELSE /\ Take(s, t, 1)
       /\ ReturnToUser(t)
       /\ wait'     = [wait EXCEPT ![t] = NoWait]
       /\ notified' = notified \ {t}
       /\ UNCHANGED asleep

\* Take the lock again with its old depth, or sleep until it is free.  The
\* loop looks at lock_pid alone, not at the transfer slots.
Relock(t, s) ==
  IF lock_pid[s] # Nobody
  THEN /\ SleepOn(t, s, "relock")
       /\ asleep' = asleep \cup {t}
       /\ UNCHANGED <<locks, held, wait, notified>>
  ELSE /\ Take(s, t, wait[t].lock_count)
       /\ ReturnToUser(t)
       /\ wait'     = [wait EXCEPT ![t] = NoWait]
       /\ notified' = notified \ {t}
       /\ UNCHANGED asleep

\* Mutant: a wait that is called again sleeps first.
AwaitNext(t, s) ==
  /\ SleepOn(t, s, "wait")
  /\ asleep' = asleep \cup {t}
  /\ UNCHANGED <<locks, held, wait, notified>>

\* The test of the notification counter.
AwaitNotify(t, s) ==
  IF wait[t].notify_count = notify_count[s]
  THEN /\ SleepOn(t, s, "wait")
       /\ asleep' = asleep \cup {t}
       /\ UNCHANGED <<locks, held, wait, notified>>
  ELSE Relock(t, s)

\* fusion_skirmish_wait_ called again after EINTR with the kept structure.
WaitAgain(t) ==
  LET s == wait[t].id IN
  /\ InUser(t) /\ wait[t].lock_count > 0
  /\ \/ s \notin Live /\ WaitFails(t, FALSE)           \* EINVAL
     \/ s \in Live /\ lock_pid[s] # t /\ AwaitNotify(t, s)
  /\ UNCHANGED <<state, notify_count, transfers, released, ops>>

WaitResume(t) ==
  LET s       == wait[t].id
      timeout == wait[t].timed /\ t \in expired
  IN
  /\ pc[t] = "wait" /\ t \notin asleep
  /\ \/ t \in pending /\ WaitFails(t, TRUE)            \* EINTR
     \/ t \notin pending /\ s \notin Live /\ WaitFails(t, FALSE)
     \/ t \notin pending /\ s \in Live /\ timeout /\ Relock(t, s)
     \/ t \notin pending /\ s \in Live /\ ~timeout /\ AwaitNotify(t, s)
  /\ UNCHANGED <<state, notify_count, transfers, released, ops>>

RelockResume(t) ==
  LET s == wait[t].id IN
  /\ pc[t] = "relock" /\ t \notin asleep
  /\ \/ t \in pending /\ WaitFails(t, TRUE)
     \/ t \notin pending /\ s \notin Live /\ WaitFails(t, FALSE)
     \/ t \notin pending /\ s \in Live /\ Relock(t, s)
  /\ UNCHANGED <<state, notify_count, transfers, released, ops>>

Notify(t, s) ==
  /\ InUser(t) /\ s \in Live /\ notify_count[s] < MaxNotify
  /\ lock_pid[s] = t                                   \* else EIO
  /\ notify_count' = [notify_count EXCEPT ![s] = @ + 1]
  /\ Wake({s})
  /\ notified' = notified \cup {u \in Tasks : wait[u].id = s}
  /\ UNCHANGED <<state, locks, transfers, pc, obj, pending, expired, wait, released, ops, held>>

-----------------------------------------------------------------------------
(* Signals, timers, exit *)

Signal(t) ==
  /\ pc[t] \in {"prevail", "wait", "relock"} /\ t \notin pending
  /\ pending' = pending \cup {t}
  /\ asleep'  = asleep \ {t}
  /\ UNCHANGED <<state, locks, notify_count, transfers, pc, obj, expired, wait,
                 released, ops, history>>

\* schedule_timeout reaches 0; the relock loop waits without a timeout.
Expire(t) ==
  /\ pc[t] = "wait" /\ wait[t].timed /\ t \notin expired
  /\ expired' = expired \cup {t}
  /\ asleep'  = asleep \ {t}
  /\ UNCHANGED <<state, locks, notify_count, transfers, pc, obj, pending, wait,
                 released, ops, history>>

\* fusion_skirmish_dismiss_all and _from_pid: the locks L are freed, nested
\* transfers S2 dropped, transfers S1 replaced by what is nested in them.  The
\* serial stays behind: the code copies every field but this one.
Dropped(S1, S2) ==
  [s \in Skirmishes |->
     IF s \notin S1 THEN transfer[s]
     ELSE IF s \in S2 \/ transfer2[s].to = Nobody THEN NoTransfer
     ELSE [transfer2[s] EXCEPT !.serial = transfer[s].serial]]

Dropped2(S) == [s \in Skirmishes |-> IF s \in S THEN NoTransfer ELSE transfer2[s]]

DismissSets(L, S1, S2) ==
  /\ lock_fid'   = [s \in Skirmishes |-> IF s \in L THEN Nobody ELSE lock_fid[s]]
  /\ lock_pid'   = [s \in Skirmishes |-> IF s \in L THEN Nobody ELSE lock_pid[s]]
  /\ lock_count' = [s \in Skirmishes |-> IF s \in L THEN 0 ELSE lock_count[s]]
  /\ transfer'   = Dropped(S1, S2)
  /\ transfer2'  = Dropped2(S1 \cup S2)
  /\ Wake(L \cup S1 \cup S2)

DismissAllFromPid(t) ==
  DismissSets({s \in Live : lock_pid[s] = t},
              {s \in Live : transfer[s].from_pid = t},
              {s \in Live : transfer2[s].from_pid = t})

\* Mutant: the locks stay, the transfers go.
DismissTransfers(f) ==
  DismissSets({}, {s \in Live : transfer[s].from = f}, {s \in Live : transfer2[s].from = f})

DismissAll(f) ==
  DismissSets({s \in Live : lock_fid[s] = f},
              {s \in Live : transfer[s].from = f},
              {s \in Live : transfer2[s].from = f})

Alive(f) == {t \in Tasks : Owner[t] = f /\ pc[t] # "dead"}

\* A task exits.  The last one of a process closes its files, and fusion_flush
\* with PF_EXITING gives back what this very pid holds.
Exit(t) ==
  /\ InUser(t) /\ t \in Mortals
  /\ pc'   = [pc EXCEPT ![t] = "dead"]
  /\ wait' = [wait EXCEPT ![t] = NoWait]
  /\ notified' = notified \ {t}
  /\ IF Alive(Owner[t]) = {t}
     THEN /\ DismissAllFromPid(t)
          /\ held' = [held EXCEPT ![t] = [s \in Skirmishes |-> 0]]
     ELSE UNCHANGED <<locks, transfer, transfer2, asleep, held>>
  /\ UNCHANGED <<state, notify_count, dispatcher_pid, obj, pending, expired, released, ops>>

\* fusion_release, a later section of the lock than the flush: the skirmish
\* part of fusionee_destroy.
Release(f) ==
  /\ Alive(f) = {} /\ f \notin released
  /\ released' = released \cup {f}
  /\ DismissAll(f)
  /\ dispatcher_pid' = [dispatcher_pid EXCEPT ![f] = Nobody]
  /\ held' = [t \in Tasks |-> IF Owner[t] = f THEN [s \in Skirmishes |-> 0] ELSE held[t]]
  /\ UNCHANGED <<state, notify_count, pc, obj, pending, expired, wait, ops, notified>>

-----------------------------------------------------------------------------
Init ==
  /\ state          = [s \in Skirmishes |-> "unused"]
  /\ lock_fid       = [s \in Skirmishes |-> Nobody]
  /\ lock_pid       = [s \in Skirmishes |-> Nobody]
  /\ lock_count     = [s \in Skirmishes |-> 0]
  /\ notify_count   = [s \in Skirmishes |-> 0]
  /\ transfer       = [s \in Skirmishes |-> NoTransfer]
  /\ transfer2      = [s \in Skirmishes |-> NoTransfer]
  /\ dispatcher_pid = [f \in Fusionees |-> Nobody]
  /\ pc             = [t \in Tasks |-> "user"]
  /\ obj            = [t \in Tasks |-> Nobody]
  /\ asleep = {} /\ pending = {} /\ expired = {}
  /\ wait           = [t \in Tasks |-> NoWait]
  /\ released       = {}
  /\ ops            = MaxOps
  /\ held           = [t \in Tasks |-> [s \in Skirmishes |-> 0]]
  /\ notified       = {}

LockStep(t, s) ==
  \/ PrevailOwned(t, s) \/ PrevailFree(t, s) \/ PrevailBlock(t, s)
  \/ Swoop(t, s) \/ Dismiss(t, s) \/ Destroy(t, s)
  \/ WaitFresh(t, s, TRUE) \/ WaitFresh(t, s, FALSE) \/ Notify(t, s)

\* The scheduler lets a woken task go on.
Resume(t) == PrevailResume(t) \/ WaitResume(t) \/ RelockResume(t)

Next ==
  \/ \E t \in Tasks, s \in Skirmishes : LockStep(t, s)
  \/ \E t \in Tasks : New(t) \/ Resume(t) \/ WaitAgain(t) \/ Signal(t) \/ Expire(t) \/ Exit(t)
  \/ \E f \in Fusionees : Release(f)

Spec == Init /\ [][Next]_vars

\* Woken tasks run, timers run out, users give back what they hold, and the
\* kernel releases the file of a process that is dead.
Fairness ==
  /\ \A t \in Tasks : WF_vars(Resume(t)) /\ WF_vars(Expire(t)) /\ WF_vars(WaitAgain(t))
  /\ \A t \in Tasks, s \in Skirmishes : WF_vars(Dismiss(t, s))
  /\ \A f \in Fusionees : WF_vars(Release(f))

FairSpec == Spec /\ Fairness

-----------------------------------------------------------------------------
(* Properties *)

\* Every variable has the type of its C field.
TypeOK ==
  /\ state          \in [Skirmishes -> {"unused", "live", "destroyed"}]
  /\ lock_fid       \in [Skirmishes -> Fusionees \cup {Nobody}]
  /\ lock_pid       \in [Skirmishes -> Tasks \cup {Nobody, Returned}]
  /\ lock_count     \in [Skirmishes -> Nat]
  /\ notify_count   \in [Skirmishes -> Nat]
  /\ transfer       \in [Skirmishes -> Transfers]
  /\ transfer2      \in [Skirmishes -> Transfers]
  /\ dispatcher_pid \in [Fusionees -> Tasks \cup {Nobody}]
  /\ pc             \in [Tasks -> {"user", "prevail", "wait", "relock", "dead"}]
  /\ obj            \in [Tasks -> Skirmishes \cup {Nobody}]
  /\ asleep \subseteq Tasks /\ pending \subseteq Tasks /\ expired \subseteq Tasks
  /\ wait           \in [Tasks -> Waits]
  /\ released \subseteq Fusionees
  /\ ops            \in [Tasks -> Nat]
  /\ held           \in [Tasks -> [Skirmishes -> Nat]]
  /\ notified \subseteq Tasks

\* Mutual exclusion by return codes: the depth at which a task has been told it
\* holds a skirmish, through recursion, waits, resumed waits, timeouts, exits
\* and destruction, is the depth of the lock when the lock is its own and 0
\* otherwise.  So no two tasks ever hold a skirmish, and nobody's depth is lost.
HeldIsLock ==
  \A t \in Tasks, s \in Skirmishes :
    held[t][s] = IF lock_pid[s] = t THEN lock_count[s] ELSE 0

\* What a sleeping task waits for has not happened: a task asleep in prevail
\* would still have to wait, one asleep for the relock finds the lock taken,
\* and the entry it sleeps on is live.  Wake-ups are never missed although the
\* conditions are only read under the lock that the wait gives up.
NoLostWakeup ==
  \A t \in asleep :
    /\ obj[t] \in Live
    /\ pc[t] = "prevail" => MustWait(obj[t], t)
    /\ pc[t] = "relock"  => lock_pid[obj[t]] # Nobody

\* A notification reaches every task that was waiting when it was sent, also
\* when a signal interrupts the wait and the user calls again: no task that was
\* notified since its wait began sleeps for a notification.
NotifyReachesAll == \A t \in asleep : pc[t] = "wait" => t \notin notified

\* A lock is never left with a fusionee whose file was released, nor with a
\* destroyed entry: what a dead process held can be taken again.
NoOrphanedLock ==
  \A s \in Skirmishes :
    lock_pid[s] \in Tasks => s \in Live /\ Owner[lock_pid[s]] \notin released

\* A skirmish implements the abstract monitor.
MonitorDepth == [s \in Skirmishes |-> IF lock_pid[s] = Nobody THEN 0 ELSE lock_count[s]]
MonitorSaved == [t \in Tasks |-> [id |-> wait[t].id, depth |-> wait[t].lock_count,
                                 timed |-> wait[t].timed]]
Abstract == INSTANCE Monitor WITH Locks <- Skirmishes, owner <- lock_pid,
                                  depth <- MonitorDepth, saved <- MonitorSaved, due <- notified
ImplementsMonitor == Abstract!Spec

\* Only a thread that exits with a lock while its siblings keep the file open
\* leaves the lock taken, as nothing tells the module of it.
LeftLocked == \E t \in Tasks : pc[t] = "dead" /\ \E s \in Live : lock_pid[s] = t

\* A task that waits for a skirmish gets it, or an error, when every holder
\* gives it back or dies and acquisitions are bounded.
PrevailReturns ==
  <>[]~LeftLocked => \A t \in Tasks : pc[t] = "prevail" ~> pc[t] # "prevail"

\* A notified wait, and one with a timeout, ends: the waiter owns the lock again
\* or is told an error.  Each signal sends the waiter through user space and
\* back, so they must stop some day.
WaitReturns ==
  <>[](pending = {} /\ ~LeftLocked) =>
    \A t \in Tasks :
      wait[t].lock_count > 0 /\ (t \in notified \/ wait[t].timed) ~> wait[t].lock_count = 0

\* Nobody waits for ever, for the lock or for a notification that came.
LockersReturn == PrevailReturns /\ WaitReturns
=============================================================================
