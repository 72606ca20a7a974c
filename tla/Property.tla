------------------------------ MODULE Property ------------------------------
(***************************************************************************)
(* The property of linux-fusion (property.c): a lock with two levels.  A   *)
(* lease is held for a short time and is waited for without a limit; a     *)
(* purchase may be held for long, and who wants a purchased property waits *)
(* for a tenth of a second (lease) or a second (purchase) at most.  The    *)
(* master may hold up a purchaser: it kills the process.                   *)
(*                                                                         *)
(* Time is the age of a purchase in the steps the code tells apart, and    *)
(* timers that may run out at any moment.                                  *)
(***************************************************************************)
EXTENDS Naturals, FiniteSets

CONSTANTS
  Tasks,       \* kernel tasks (pids)
  Fusionees,   \* fusion ids
  Owner,       \* the fusionee whose file descriptor a task uses
  Master,      \* the fusionee with id 1
  Properties,  \* entry ids
  Nobody,      \* the value 0 of a pid or a fusion id
  MaxOps       \* bound: leases and purchases asked for by a task

ASSUME PropertyAssumption ==
  /\ Nobody \notin Tasks \cup Fusionees \cup Properties
  /\ Owner \in [Tasks -> Fusionees] /\ Master \in Fusionees
  /\ MaxOps \in Nat

VARIABLES
  state,      \* FusionPropertyState, or "destroyed" when the entry is gone
  fusion_id, lock_pid, count,
  age,        \* of purchase_stamp: 0 up to HZ/10, 1 up to HZ, 2 beyond
  pc,         \* where a task is: "user", "leased" or "purchased" for what it
              \* waits for, "dead"
  obj,        \* the property whose wait queue the task is on
  armed,      \* tasks whose local timeout has been set in this call
  timed,      \* tasks whose sleep passed it to schedule_timeout
  expired,    \* tasks whose timer has run out or that were sent a signal
  asleep,     \* tasks that schedule() has not let continue yet
  killed,     \* fusionees whose process was sent SIGKILL
  released,   \* fusionees whose file has been released
  ops,        \* bound: calls a task has left
  held        \* history: the depth a task has by its return codes

property == <<state, fusion_id, lock_pid, count, age>>
sleeping == <<pc, obj, armed, timed, expired>>
vars     == <<property, sleeping, asleep, killed, released, ops, held>>

Kinds == {"leased", "purchased"}
Live  == {p \in Properties : state[p] # "destroyed"}

\* A task that may enter the kernel: SIGKILL strikes in user space.
InUser(t) == pc[t] = "user" /\ Owner[t] \notin killed

Sleepers(p) == {t \in asleep : obj[t] = p}

\* Mutant: nobody is woken.
WakeNone(p) == UNCHANGED asleep

\* fusion_property_notify: everybody on the queue.
Wake(p) == asleep' = asleep \ Sleepers(p)

-----------------------------------------------------------------------------
(* Lease and purchase *)

ReturnToUser(t) ==
  /\ pc'  = [pc EXCEPT ![t] = "user"]
  /\ obj' = [obj EXCEPT ![t] = Nobody]
  /\ armed' = armed \ {t} /\ timed' = timed \ {t} /\ expired' = expired \ {t}

\* The call ends with an error.
Fail(t) == ReturnToUser(t) /\ UNCHANGED <<property, asleep, held>>

Sleep(t, p, kind) ==
  /\ pc'  = [pc EXCEPT ![t] = kind]
  /\ obj' = [obj EXCEPT ![t] = p]
  /\ asleep' = asleep \cup {t}
  /\ UNCHANGED <<property, expired, held>>

\* A lease leaves the stamp alone, which is read for purchases only.
Take(t, p, kind) ==
  /\ state'     = [state EXCEPT ![p] = kind]
  /\ fusion_id' = [fusion_id EXCEPT ![p] = Owner[t]]
  /\ lock_pid'  = [lock_pid EXCEPT ![p] = t]
  /\ count'     = [count EXCEPT ![p] = 1]
  /\ held'      = [held EXCEPT ![t][p] = 1]
  /\ IF kind = "purchased"
     THEN age' = [age EXCEPT ![p] = 0] /\ Wake(p)
     ELSE UNCHANGED <<age, asleep>>

Deepen(t, p) ==
  /\ count' = [count EXCEPT ![p] = @ + 1]
  /\ held'  = [held EXCEPT ![t][p] = @ + 1]
  /\ UNCHANGED <<state, fusion_id, lock_pid, age, asleep>>

\* The purchase is older than who asks for kind is ready to wait.
TooOld(p, kind) == age[p] >= IF kind = "leased" THEN 1 ELSE 2

\* Mutant: the timeout is not passed on.
SleepForEver(t, p, kind) ==
  /\ Sleep(t, p, kind)
  /\ armed' = armed \cup {t}
  /\ timed' = timed \ {t}

\* A sleep on a purchased property ends with the timeout of the call.
SleepTimed(t, p, kind) ==
  /\ Sleep(t, p, kind)
  /\ armed' = armed \cup {t}
  /\ timed' = timed \cup {t}

\* The loop of fusion_property_lease and of fusion_property_purchase.
Attempt(t, p, kind) ==
  \/ state[p] = "available" /\ Take(t, p, kind) /\ ReturnToUser(t)
  \/ state[p] = kind /\ lock_pid[p] = t /\ Deepen(t, p) /\ ReturnToUser(t)
  \/ state[p] \in Kinds \ {kind} /\ lock_pid[p] = t /\ Fail(t)      \* EIO
  \/ /\ state[p] = "leased" /\ lock_pid[p] # t
     /\ Sleep(t, p, kind) /\ timed' = timed \ {t} /\ UNCHANGED armed
  \/ /\ state[p] = "purchased" /\ lock_pid[p] # t
     /\ IF t \notin armed /\ TooOld(p, kind)
        THEN Fail(t)                                              \* EAGAIN
        ELSE SleepTimed(t, p, kind)

Ask(t, p, kind) ==
  /\ InUser(t) /\ p \in Live
  /\ ops[t] > 0 /\ ops' = [ops EXCEPT ![t] = @ - 1]
  /\ Attempt(t, p, kind)
  /\ UNCHANGED <<killed, released>>

\* fusion_entry_wait returns: EINTR, ETIMEDOUT and EIDRM end the call.
Resume(t) ==
  /\ pc[t] \in Kinds /\ t \notin asleep
  /\ IF Owner[t] \in killed \/ t \in expired \/ obj[t] \notin Live
     THEN Fail(t)
     ELSE Attempt(t, obj[t], pc[t])
  /\ UNCHANGED <<killed, released, ops>>

-----------------------------------------------------------------------------
(* The other operations *)

\* Mutant: the depth is not counted.
CedeWhole(t, p) ==
  /\ state'     = [state EXCEPT ![p] = "available"]
  /\ fusion_id' = [fusion_id EXCEPT ![p] = Nobody]
  /\ lock_pid'  = [lock_pid EXCEPT ![p] = Nobody]
  /\ Wake(p)

CedeOnce(t, p) ==
  IF count[p] = 1
  THEN /\ state'     = [state EXCEPT ![p] = "available"]
       /\ fusion_id' = [fusion_id EXCEPT ![p] = Nobody]
       /\ lock_pid'  = [lock_pid EXCEPT ![p] = Nobody]
       /\ Wake(p)
  ELSE UNCHANGED <<state, fusion_id, lock_pid, asleep>>

Cede(t, p) ==
  /\ InUser(t) /\ p \in Live
  /\ lock_pid[p] = t                                              \* else EIO
  /\ count' = [count EXCEPT ![p] = @ - 1]
  /\ held'  = [held EXCEPT ![t][p] = @ - 1]
  /\ CedeOnce(t, p)
  /\ UNCHANGED <<age, sleeping, killed, released, ops>>

\* fusionee_kill with SIGKILL and without waiting.
Kill(f) ==
  /\ killed' = killed \cup {f}
  /\ asleep' = {u \in asleep : Owner[u] # f}

Holdup(t, p) ==
  /\ InUser(t) /\ p \in Live
  /\ Owner[t] = Master                                            \* else EPERM
  /\ state[p] = "purchased" /\ fusion_id[p] # Owner[t]
  /\ Kill(fusion_id[p])
  /\ UNCHANGED <<property, sleeping, released, ops, held>>

\* The entry leaves the hash, its waiters are woken, its memory is freed.
Destroy(t, p) ==
  /\ InUser(t) /\ p \in Live
  /\ state'     = [state EXCEPT ![p] = "destroyed"]
  /\ fusion_id' = [fusion_id EXCEPT ![p] = Nobody]
  /\ lock_pid'  = [lock_pid EXCEPT ![p] = Nobody]
  /\ Wake(p)
  /\ held' = [u \in Tasks |-> [held[u] EXCEPT ![p] = 0]]
  /\ UNCHANGED <<count, age, sleeping, killed, released, ops>>

Expire(t) ==
  /\ pc[t] \in Kinds /\ t \in timed /\ t \notin expired
  /\ expired' = expired \cup {t}
  /\ asleep'  = asleep \ {t}
  /\ UNCHANGED <<property, pc, obj, armed, timed, killed, released, ops, held>>

\* A signal other than SIGKILL: the call ends like one whose timer has run out.
Signal(t) ==
  /\ pc[t] \in Kinds /\ t \notin expired
  /\ expired' = expired \cup {t}
  /\ asleep'  = asleep \ {t}
  /\ UNCHANGED <<property, pc, obj, armed, timed, killed, released, ops, held>>

\* A purchase gets older.
Tick(p) ==
  /\ state[p] = "purchased" /\ age[p] < 2
  /\ age' = [age EXCEPT ![p] = @ + 1]
  /\ UNCHANGED <<state, fusion_id, lock_pid, count, sleeping, asleep, killed, released, ops, held>>

\* A killed task dies when it leaves the kernel.
Exit(t) ==
  /\ pc[t] = "user" /\ Owner[t] \in killed
  /\ pc' = [pc EXCEPT ![t] = "dead"]
  /\ UNCHANGED <<property, obj, armed, timed, expired, asleep, killed, released, ops, held>>

\* Mutant: the purchases of the dead stay.
CedeLeases(f) ==
  LET P == {p \in Live : fusion_id[p] = f /\ state[p] = "leased"} IN
  /\ state'     = [p \in Properties |-> IF p \in P THEN "available" ELSE state[p]]
  /\ fusion_id' = [p \in Properties |-> IF p \in P THEN Nobody ELSE fusion_id[p]]
  /\ lock_pid'  = [p \in Properties |-> IF p \in P THEN Nobody ELSE lock_pid[p]]
  /\ asleep'    = {t \in asleep : obj[t] \notin P}

\* fusion_property_cede_all; the count stays behind.
CedeAll(f) ==
  LET P == {p \in Live : fusion_id[p] = f} IN
  /\ state'     = [p \in Properties |-> IF p \in P THEN "available" ELSE state[p]]
  /\ fusion_id' = [p \in Properties |-> IF p \in P THEN Nobody ELSE fusion_id[p]]
  /\ lock_pid'  = [p \in Properties |-> IF p \in P THEN Nobody ELSE lock_pid[p]]
  /\ asleep'    = {t \in asleep : obj[t] \notin P}

\* fusionee_destroy, when every task of a process is gone.
Release(f) ==
  /\ f \notin released
  /\ \A t \in Tasks : Owner[t] = f => pc[t] = "dead"
  /\ released' = released \cup {f}
  /\ CedeAll(f)
  /\ held' = [t \in Tasks |-> IF Owner[t] = f THEN [p \in Properties |-> 0] ELSE held[t]]
  /\ UNCHANGED <<count, age, sleeping, killed, ops>>

-----------------------------------------------------------------------------
Init ==
  /\ state     = [p \in Properties |-> "available"]
  /\ fusion_id = [p \in Properties |-> Nobody]
  /\ lock_pid  = [p \in Properties |-> Nobody]
  /\ count     = [p \in Properties |-> 0]
  /\ age       = [p \in Properties |-> 0]
  /\ pc        = [t \in Tasks |-> "user"]
  /\ obj       = [t \in Tasks |-> Nobody]
  /\ armed = {} /\ timed = {} /\ expired = {} /\ asleep = {}
  /\ killed = {} /\ released = {}
  /\ ops       = [t \in Tasks |-> MaxOps]
  /\ held      = [t \in Tasks |-> [p \in Properties |-> 0]]

Operation(t, p) ==
  (\E kind \in Kinds : Ask(t, p, kind)) \/ Cede(t, p) \/ Holdup(t, p) \/ Destroy(t, p)

Next ==
  \/ \E t \in Tasks, p \in Properties : Operation(t, p)
  \/ \E t \in Tasks : Resume(t) \/ Expire(t) \/ Signal(t) \/ Exit(t)
  \/ \E p \in Properties : Tick(p)
  \/ \E f \in Fusionees : Release(f)

Spec == Init /\ [][Next]_vars

\* Woken tasks run, timers run out, killed tasks die and are released.  Leases
\* are given back; purchases may be kept for ever.
Fairness ==
  /\ \A t \in Tasks : WF_vars(Resume(t)) /\ WF_vars(Expire(t)) /\ WF_vars(Exit(t))
  /\ \A t \in Tasks, p \in Properties : WF_vars(state[p] = "leased" /\ Cede(t, p))
  /\ \A f \in Fusionees : WF_vars(Release(f))

FairSpec == Spec /\ Fairness

-----------------------------------------------------------------------------
(* Properties *)

\* Every variable has the type of its C field.
TypeOK ==
  /\ state     \in [Properties -> Kinds \cup {"available", "destroyed"}]
  /\ fusion_id \in [Properties -> Fusionees \cup {Nobody}]
  /\ lock_pid  \in [Properties -> Tasks \cup {Nobody}]
  /\ count     \in [Properties -> Nat]
  /\ age       \in [Properties -> 0..2]
  /\ pc        \in [Tasks -> Kinds \cup {"user", "dead"}]
  /\ obj       \in [Tasks -> Properties \cup {Nobody}]
  /\ armed \subseteq Tasks /\ timed \subseteq Tasks
  /\ expired \subseteq Tasks /\ asleep \subseteq Tasks
  /\ killed \subseteq Fusionees /\ released \subseteq Fusionees
  /\ ops       \in [Tasks -> Nat]
  /\ held      \in [Tasks -> [Properties -> Nat]]

\* One owner at a time: the depth a task has by its return codes is the count of
\* the property when it owns it and 0 otherwise, whatever was leased, purchased,
\* ceded, held up, destroyed or left by a dead process in between.
HeldIsOwned ==
  \A t \in Tasks, p \in Properties :
    held[t][p] = IF lock_pid[p] = t THEN count[p] ELSE 0

\* Nobody waits for a property that can be had: a sleeper sees it owned by
\* another task.
NoLostWakeup == \A t \in asleep : obj[t] \in Live /\ lock_pid[obj[t]] \notin {Nobody, t}

\* A purchase never makes anybody wait without a limit: who sleeps without a
\* timer sleeps on a lease, although the state may change while it sleeps.
UntimedOnLease == \A t \in asleep : t \notin timed => state[obj[t]] = "leased"

\* Nothing is left with a fusionee that was released.
NoOrphan == \A p \in Properties : fusion_id[p] \notin released

\* Every lease and purchase that waits returns, though purchases may be kept for
\* ever.
AskReturns == \A t \in Tasks : pc[t] \in Kinds ~> pc[t] \notin Kinds
=============================================================================
