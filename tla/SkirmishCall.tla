---------------------------- MODULE SkirmishCall ----------------------------
(***************************************************************************)
(* Calls between fusionees (call.c) and the skirmishes they carry along.   *)
(*                                                                         *)
(* A task that executes a call sends a message to the owner of the call    *)
(* and sleeps until the owner returns a result.  Meanwhile the skirmishes  *)
(* it holds are transferred: the dispatcher of the callee may take them,   *)
(* the callee's return marks them, the caller reclaims them.               *)
(*                                                                         *)
(* Messages are read one at a time by the dispatcher of a fusionee; queue  *)
(* lengths, packets and one-way calls are left out: a queue that is full   *)
(* delays a caller before it has lent anything.  The skirmishes and calls  *)
(* exist from the start.                                                   *)
(***************************************************************************)
EXTENDS Skirmish, Sequences, SequencesExt

CONSTANTS
  Calls,        \* ids of call entries
  Callee,       \* the fusionee that owns a call
  Callers,      \* the tasks that execute a call
  Dispatchers,  \* the tasks that read messages, one of a fusionee
  Resumable,    \* subset of BOOLEAN: whether calls carry FCEF_RESUMABLE
  Waiters,      \* the tasks that use fusion_skirmish_wait_
  Swoopers,     \* the tasks that use fusion_skirmish_swoop
  Destroyers,   \* the tasks that destroy calls
  Misreturns,   \* the dispatchers whose result may be too long for the caller
  Signalled,    \* the tasks that receive signals
  MaxCalls      \* bound: calls a task executes

ASSUME CallsAssumption ==
  /\ Callee \in [Calls -> Fusionees] /\ Callers \in [Calls -> SUBSET Tasks]
  /\ Dispatchers \subseteq Tasks /\ Resumable \subseteq BOOLEAN
  /\ Waiters \subseteq Tasks /\ Swoopers \subseteq Tasks /\ Signalled \subseteq Tasks
  /\ Destroyers \subseteq Tasks /\ Misreturns \subseteq Tasks
  /\ MaxCalls \in Nat

VARIABLES
  calls,        \* the call entries that exist
  serial,       \* of a call: its serial counter
  executions,   \* the FusionCallExecutions on the lists of all calls
  inbox,        \* of a fusionee: call messages not read yet
  executing,    \* of a task: the call it waits for, kept by it over EINTR
  destroying,   \* of a task: the execution its fusion_call_destroy waits for
  serving,      \* of a dispatcher: the call it has read and not returned
  callsLeft,    \* bound: calls a task may still execute
  oops          \* the FUSION_ASSERT that failed and stopped the machine

callVars == <<calls, serial, executions, inbox, executing, destroying, serving, callsLeft>>
allVars  == <<vars, callVars, oops>>

NoExecution == [call |-> Nobody, serial |-> 0]
NoCall == [call |-> Nobody, serial |-> 0, resumable |-> FALSE]

\* The parts of the skirmish state a call leaves alone.
skirmishRest == <<state, notify_count, wait, released, ops, history>>

Id(e) == [call |-> e.call, serial |-> e.serial]

\* A user resumes an interrupted call before it does anything else.
NoneOpen(t) == executing[t] = NoCall

Executed(t) ==
  \E e \in executions : Id(e) = Id(executing[t]) /\ e.executed

\* The tasks asleep on execution->wait of the executions E.
WaitingFor(E) ==
  {u \in asleep : \/ pc[u] = "call" /\ Id(executing[u]) \in {Id(e) : e \in E}
                  \/ pc[u] = "destroy" /\ destroying[u] \in {Id(e) : e \in E}}

\* Assertion a of the code holds and A happens, or the task dies on it with
\* the global semaphore held.
Asserting(a, holds, A) ==
  IF holds THEN A /\ UNCHANGED oops
  ELSE oops' = a /\ UNCHANGED <<vars, callVars>>

SleepHere(t, where) ==
  /\ pc' = [pc EXCEPT ![t] = where]
  /\ UNCHANGED <<obj, pending, expired>>

-----------------------------------------------------------------------------
(* skirmish.c on behalf of a call *)

\* fusion_skirmish_transfer_all; a lock with both slots taken stays.
TransferAll(t, to, n) ==
  LET mine   == {s \in Live : lock_pid[s] = t}
      first  == {s \in mine : transfer[s].to = Nobody}
      second == {s \in mine \ first : transfer2[s].to = Nobody}
      lent   == first \cup second
      Slot(s) == [to |-> to, from |-> Owner[t], from_pid |-> t,
                  count |-> lock_count[s], serial |-> n]
  IN
  /\ transfer'   = [s \in Skirmishes |-> IF s \in first THEN Slot(s) ELSE transfer[s]]
  /\ transfer2'  = [s \in Skirmishes |-> IF s \in second THEN Slot(s) ELSE transfer2[s]]
  /\ lock_fid'   = [s \in Skirmishes |-> IF s \in lent THEN Nobody ELSE lock_fid[s]]
  /\ lock_pid'   = [s \in Skirmishes |-> IF s \in lent THEN Nobody ELSE lock_pid[s]]
  /\ lock_count' = [s \in Skirmishes |-> IF s \in lent THEN 0 ELSE lock_count[s]]

\* Those TransferAll wakes: it wakes the queue of every lock it lends.
WokenByTransfer(t) ==
  Sleepers({s \in Live : lock_pid[s] = t /\ (transfer[s].to = Nobody \/ transfer2[s].to = Nobody)})

\* What fusion_skirmish_reclaim_all takes back: by pid, whatever the serial.
Reclaimed(t) == {s \in Live : Innermost(s).to # Nobody /\ Innermost(s).from_pid = t}

\* Mutant: the depth is forgotten.
RelockOnceOnly(t, R) ==
  /\ lock_fid'   = [s \in Skirmishes |-> IF s \in R THEN Innermost(s).from ELSE lock_fid[s]]
  /\ lock_pid'   = [s \in Skirmishes |-> IF s \in R THEN t ELSE lock_pid[s]]
  /\ lock_count' = [s \in Skirmishes |-> IF s \in R THEN 1 ELSE lock_count[s]]

RelockLent(t, R) ==
  /\ lock_fid'   = [s \in Skirmishes |-> IF s \in R THEN Innermost(s).from ELSE lock_fid[s]]
  /\ lock_pid'   = [s \in Skirmishes |-> IF s \in R THEN t ELSE lock_pid[s]]
  /\ lock_count' = [s \in Skirmishes |-> IF s \in R THEN Innermost(s).count ELSE lock_count[s]]

\* Mutant: the outer slot is emptied in place of the inner one.
EmptyOuterSlot(R) ==
  /\ transfer' = [s \in Skirmishes |-> IF s \in R THEN NoTransfer ELSE transfer[s]]
  /\ UNCHANGED transfer2

EmptySlot(R) ==
  /\ transfer'  = [s \in Skirmishes |->
                     IF s \in R /\ transfer2[s].to = Nobody THEN NoTransfer ELSE transfer[s]]
  /\ transfer2' = [s \in Skirmishes |-> IF s \in R THEN NoTransfer ELSE transfer2[s]]

ReclaimAll(t) == RelockLent(t, Reclaimed(t)) /\ EmptySlot(Reclaimed(t))

Untouched(s) == lock_fid[s] = Nobody /\ lock_pid[s] = Nobody /\ lock_count[s] = 0

\* What fusion_skirmish_return_all marks as given back.
GivenBack(f, t, n) ==
  {s \in Live : Innermost(s).to = f /\ Innermost(s).from_pid = t /\ Innermost(s).serial = n}

-----------------------------------------------------------------------------
(* call.c *)

\* fusion_call_execute up to its first sleep.
Execute(t, c, resumable) ==
  LET n == serial[c] + 1
      f == Callee[c]
      message == [call |-> c, serial |-> n]
  IN
  /\ InUser(t) /\ NoneOpen(t) /\ c \in calls
  /\ callsLeft[t] > 0 /\ callsLeft' = [callsLeft EXCEPT ![t] = @ - 1]
  /\ serial'     = [serial EXCEPT ![c] = n]
  /\ executions' = executions \cup
       {[call |-> c, serial |-> n, pid |-> t, executed |-> FALSE, signalled |-> FALSE]}
  /\ inbox'      = [inbox EXCEPT ![f] = Append(@, message)]
  /\ executing'  = [executing EXCEPT ![t] = [call |-> c, serial |-> n, resumable |-> resumable]]
  /\ TransferAll(t, f, n)
  /\ SleepHere(t, "call")
  /\ asleep' = (asleep \ (WokenByTransfer(t) \cup {u \in asleep : pc[u] = "read" /\ Owner[u] = f}))
               \cup {t}
  /\ UNCHANGED <<skirmishRest, dispatcher_pid, calls, destroying, serving, oops>>

\* The result is there: the execution is removed and the locks reclaimed.
Finish(t) ==
  LET mine == {e \in executions : Id(e) = Id(executing[t])} IN
  Asserting("reclaim", \A s \in Reclaimed(t) : lock_pid[s] = Returned,
    /\ executions' = executions \ mine
    /\ asleep'     = asleep \ WaitingFor(mine)
    /\ executing'  = [executing EXCEPT ![t] = NoCall]
    /\ ReclaimAll(t)
    /\ ReturnToUser(t)
    /\ UNCHANGED <<skirmishRest, dispatcher_pid, calls, serial, inbox, destroying, serving,
                   callsLeft>>)

\* The loop of fusion_call_execute on execution->executed.
AwaitResult(t) ==
  \/ Executed(t) /\ Finish(t)
  \/ /\ ~Executed(t)
     /\ SleepHere(t, "call")
     /\ asleep' = asleep \cup {t}
     /\ UNCHANGED <<skirmishRest, locks, transfers, callVars, oops>>

\* EINTR: a resumable execution stays with the caller, any other one is left
\* to the callee.
CallInterrupted(t) ==
  /\ t \in pending
  /\ ReturnToUser(t)
  /\ IF executing[t].resumable
     THEN UNCHANGED <<executing, executions>>
     ELSE /\ executing'  = [executing EXCEPT ![t] = NoCall]
          /\ executions' = {IF Id(e) = Id(executing[t]) THEN [e EXCEPT !.signalled = TRUE] ELSE e : e \in executions}
  /\ UNCHANGED <<skirmishRest, locks, transfers, asleep, calls, serial, inbox, destroying,
                 serving, callsLeft, oops>>

CallResume(t) ==
  /\ pc[t] = "call" /\ t \notin asleep
  /\ CallInterrupted(t) \/ (t \notin pending /\ AwaitResult(t))

\* fusion_call_execute with the serial of an interrupted resumable call.
ExecuteAgain(t) ==
  LET listed == \E e \in executions : Id(e) = Id(executing[t]) IN
  /\ InUser(t) /\ ~NoneOpen(t)
  /\ \/ listed /\ AwaitResult(t)
     \/ /\ ~listed                                     \* EINVAL, EIDRM
        /\ executing' = [executing EXCEPT ![t] = NoCall]
        /\ UNCHANGED <<vars, calls, serial, executions, inbox, destroying, serving, callsLeft, oops>>

\* Mutant: the caller is not woken.
WakeNoCaller(E) == UNCHANGED asleep

\* fusion_core_wq_wake on execution->wait.
WakeCallers(E) == asleep' = asleep \ WaitingFor(E)

\* The execution a fusion_call_return or _return3 of t is for.
Found(t) == {e \in executions : Id(e) = serving[t] /\ ~e.executed}

\* The caller was interrupted, or its buffer is too small: the execution is
\* freed.  Or there is none: it was removed, or the call destroyed.
ReturnFails(t) ==
  /\ \A e \in Found(t) : e.signalled \/ t \in Misreturns
  /\ executions' = executions \ Found(t)
  /\ WakeCallers(Found(t))
  /\ UNCHANGED <<state, locks, notify_count, transfers, pc, obj, pending, expired, wait, released,
                 ops, history, oops>>

ReturnResult(t, e) ==
  LET back == GivenBack(Owner[t], e.pid, e.serial) IN
  /\ ~e.signalled
  /\ Asserting("return", \A s \in back : Untouched(s),
       /\ executions' = (executions \ {e}) \cup {[e EXCEPT !.executed = TRUE]}
       /\ lock_pid'   = [s \in Skirmishes |-> IF s \in back THEN Returned ELSE lock_pid[s]]
       /\ WakeCallers({e})
       /\ serving' = [serving EXCEPT ![t] = NoExecution]
       /\ UNCHANGED <<skirmishRest, lock_fid, lock_count, transfers, pc, obj, pending, expired,
                      calls, serial, inbox, executing, destroying, callsLeft>>)

\* fusion_call_return, from a handler that has given up what it locked.
Return(t) ==
  /\ InUser(t) /\ NoneOpen(t) /\ serving[t] # NoExecution
  /\ \A s \in Live : lock_pid[s] # t
  /\ \/ /\ ReturnFails(t)
        /\ serving' = [serving EXCEPT ![t] = NoExecution]
        /\ UNCHANGED <<calls, serial, inbox, executing, destroying, callsLeft>>
     \/ \E e \in Found(t) : ReturnResult(t, e)

\* The loop of fusion_call_destroy: sleep on the oldest execution, the one
\* with the lowest serial, or destroy the call when there is none.
AwaitExecutions(t, c) ==
  LET pend == {e \in executions : e.call = c}
      first == CHOOSE e \in pend : \A d \in pend : e.serial <= d.serial
  IN
  \/ /\ pend # {}
     /\ destroying' = [destroying EXCEPT ![t] = Id(first)]
     /\ SleepHere(t, "destroy")
     /\ asleep' = asleep \cup {t}
     /\ UNCHANGED calls
  \/ /\ pend = {}
     /\ calls' = calls \ {c}
     /\ destroying' = [destroying EXCEPT ![t] = NoExecution]
     /\ ReturnToUser(t)
     /\ UNCHANGED asleep

CallDestroy(t, c) ==
  /\ t \in Destroyers
  /\ InUser(t) /\ NoneOpen(t) /\ c \in calls
  /\ AwaitExecutions(t, c)
  /\ UNCHANGED <<skirmishRest, locks, transfers, serial, executions, inbox, executing, serving,
                 callsLeft, oops>>

DestroyResume(t) ==
  /\ pc[t] = "destroy" /\ t \notin asleep
  /\ \/ t \notin pending /\ destroying[t].call \in calls /\ AwaitExecutions(t, destroying[t].call)
     \/ /\ t \in pending \/ destroying[t].call \notin calls          \* EINTR, EINVAL
        /\ destroying' = [destroying EXCEPT ![t] = NoExecution]
        /\ ReturnToUser(t)
        /\ UNCHANGED <<asleep, calls>>
  /\ UNCHANGED <<skirmishRest, locks, transfers, serial, executions, inbox, executing, serving,
                 callsLeft, oops>>

-----------------------------------------------------------------------------
(* fusionee.c: reading messages, and the end of a fusionee *)

\* Mutant: the message stays in the queue.
ServeAgain(t, f) ==
  /\ serving' = [serving EXCEPT ![t] = Head(inbox[f])]
  /\ UNCHANGED inbox

\* The dispatcher gets the oldest message.
Serve(t, f) ==
  /\ serving' = [serving EXCEPT ![t] = Head(inbox[f])]
  /\ inbox'   = [inbox EXCEPT ![f] = Tail(@)]

\* fusionee_get_messages; the reader becomes the dispatcher before it sleeps.
Read(t) ==
  LET f == Owner[t] IN
  /\ t \in Dispatchers
  /\ (InUser(t) /\ NoneOpen(t)) \/ (pc[t] = "read" /\ t \notin asleep)
  /\ serving[t] = NoExecution
  /\ dispatcher_pid' = [dispatcher_pid EXCEPT ![f] = t]
  /\ IF t \in pending
     THEN ReturnToUser(t) /\ UNCHANGED <<asleep, inbox, serving>>
     ELSE IF inbox[f] = <<>>
     THEN SleepHere(t, "read") /\ asleep' = asleep \cup {t} /\ UNCHANGED <<inbox, serving>>
     ELSE Serve(t, f) /\ ReturnToUser(t) /\ UNCHANGED asleep
  /\ UNCHANGED <<skirmishRest, locks, transfer, transfer2, calls, serial, executions,
                 executing, destroying, callsLeft, oops>>

CallSignal(t) ==
  /\ pc[t] \in {"call", "read", "destroy"} /\ t \notin pending
  /\ pending' = pending \cup {t}
  /\ asleep'  = asleep \ {t}
  /\ UNCHANGED <<skirmishRest, locks, transfers, pc, obj, expired, callVars, oops>>

CallExit(t) ==
  /\ Exit(t)
  /\ executing' = [executing EXCEPT ![t] = NoCall]
  /\ serving'   = [serving EXCEPT ![t] = NoExecution]
  /\ UNCHANGED <<calls, serial, executions, inbox, destroying, callsLeft, oops>>

\* fusion_call_destroy_all: the executions leave their lists.
DestroyCalls(gone) ==
  /\ calls'      = calls \ gone
  /\ executions' = {e \in executions : e.call \notin gone}

\* fusionee_destroy: dismiss_all, return_all_from, call_destroy_all.  The
\* callers of its calls are woken and not told.
CallRelease(f) ==
  LET L   == {s \in Live : lock_fid[s] = f}
      S1  == {s \in Live : transfer[s].from = f}
      S2  == {s \in Live : transfer2[s].from = f}
      tr  == Dropped(S1, S2)
      tr2 == Dropped2(S1 \cup S2)
      back == {s \in Live : f = IF tr2[s].to # Nobody THEN tr2[s].to ELSE tr[s].to}
      gone == {c \in calls : Callee[c] = f}
      lost == {e \in executions : e.call \in gone}
  IN
  /\ Alive(f) = {} /\ f \notin released
  /\ Asserting("return_from", \A s \in back : s \in L \/ Untouched(s),
       /\ lock_fid'   = [s \in Skirmishes |-> IF s \in L THEN Nobody ELSE lock_fid[s]]
       /\ lock_pid'   = [s \in Skirmishes |-> IF s \in back THEN Returned
                                              ELSE IF s \in L THEN Nobody ELSE lock_pid[s]]
       /\ lock_count' = [s \in Skirmishes |-> IF s \in L THEN 0 ELSE lock_count[s]]
       /\ transfer' = tr /\ transfer2' = tr2
       /\ asleep'     = asleep \ (Sleepers(L \cup S1 \cup S2) \cup WaitingFor(lost))
       /\ released'   = released \cup {f}
       /\ dispatcher_pid' = [dispatcher_pid EXCEPT ![f] = Nobody]
       /\ held'       = [t \in Tasks |-> IF Owner[t] = f THEN [s \in Skirmishes |-> 0] ELSE held[t]]
       /\ DestroyCalls(gone)
       /\ inbox'      = [inbox EXCEPT ![f] = <<>>]
       /\ UNCHANGED <<state, notify_count, pc, obj, pending, expired, wait, ops, notified,
                      serial, executing, destroying, serving, callsLeft>>)

-----------------------------------------------------------------------------
CallInit ==
  /\ state          = [s \in Skirmishes |-> "live"]
  /\ lock_fid       = [s \in Skirmishes |-> Nobody]
  /\ lock_pid       = [s \in Skirmishes |-> Nobody]
  /\ lock_count     = [s \in Skirmishes |-> 0]
  /\ notify_count   = [s \in Skirmishes |-> 0]
  /\ transfer       = [s \in Skirmishes |-> NoTransfer]
  /\ transfer2      = [s \in Skirmishes |-> NoTransfer]
  /\ dispatcher_pid = [f \in Fusionees |-> Nobody]
  /\ pc             = [t \in Tasks |-> "user"]
  /\ obj            = [t \in Tasks |-> Nobody]
  /\ asleep = {} /\ pending = {} /\ expired = {}
  /\ wait           = [t \in Tasks |-> NoWait]
  /\ released       = {}
  /\ ops            = MaxOps
  /\ held           = [t \in Tasks |-> [s \in Skirmishes |-> 0]]
  /\ notified       = {}
  /\ calls          = Calls
  /\ serial         = [c \in Calls |-> 0]
  /\ executions     = {}
  /\ inbox          = [f \in Fusionees |-> <<>>]
  /\ executing      = [t \in Tasks |-> NoCall]
  /\ destroying     = [t \in Tasks |-> NoExecution]
  /\ serving        = [t \in Tasks |-> NoExecution]
  /\ callsLeft      = [t \in Tasks |-> MaxCalls]
  /\ oops           = "none"

\* The steps of skirmish.c that happen in the composition.  A dispatcher locks
\* in the handlers it runs.
SkirmishStep(t, s) ==
  /\ NoneOpen(t)
  /\ \/ /\ t \in Dispatchers => serving[t] # NoExecution
        /\ PrevailOwned(t, s) \/ PrevailFree(t, s) \/ PrevailBlock(t, s)
     \/ Dismiss(t, s)
     \/ t \in Swoopers /\ Swoop(t, s)
     \/ t \in Waiters /\ (WaitFresh(t, s, FALSE) \/ Notify(t, s))
  /\ UNCHANGED <<callVars, oops>>

SkirmishResume(t) == (Resume(t) \/ WaitAgain(t)) /\ UNCHANGED <<callVars, oops>>

\* A dispatcher does not read on with a lock it has taken in between.
ReadFree(t) == (\A s \in Live : lock_pid[s] # t) /\ Read(t)

\* Who destroys a call holds no lock that its callee might need.
CallStep(t) ==
  \/ \E c \in Calls, r \in Resumable : t \in Callers[c] /\ Execute(t, c, r)
  \/ \E c \in Calls : (\A s \in Live : lock_pid[s] # t) /\ CallDestroy(t, c)
  \/ CallResume(t) \/ ExecuteAgain(t) \/ DestroyResume(t) \/ Return(t) \/ ReadFree(t)

Disturb(t) ==
  \/ t \in Signalled /\ (CallSignal(t) \/ (Signal(t) /\ UNCHANGED <<callVars, oops>>))
  \/ CallExit(t)

CallNext ==
  /\ oops = "none"
  /\ \/ \E t \in Tasks, s \in Skirmishes : SkirmishStep(t, s)
     \/ \E t \in Tasks : SkirmishResume(t) \/ CallStep(t) \/ Disturb(t)
     \/ \E f \in Fusionees : CallRelease(f)

CallSpec == CallInit /\ [][CallNext]_allVars

\* Woken tasks run, dispatchers read and return, users dismiss what they hold
\* and resume what was interrupted, the files of dead processes are released.
CallFairness ==
  /\ \A t \in Tasks :
       /\ WF_allVars(SkirmishResume(t)) /\ WF_allVars(CallResume(t))
       /\ WF_allVars(DestroyResume(t)) /\ WF_allVars(ExecuteAgain(t)) /\ WF_allVars(Return(t))
       /\ WF_allVars(ReadFree(t))
  /\ \A t \in Tasks, s \in Skirmishes :
       WF_allVars(Dismiss(t, s) /\ UNCHANGED <<callVars, oops>>)
  /\ \A f \in Fusionees : WF_allVars(CallRelease(f))

CallFairSpec == CallSpec /\ CallFairness

-----------------------------------------------------------------------------
(* Properties *)

\* The slot in which the lock of a waiting caller is kept.
Lent(t, s) == {x \in {transfer[s], transfer2[s]} : x.to # Nobody /\ x.from_pid = t}

\* A task owns exactly what its return codes say: what it holds is locked by it,
\* or lent to the callee it waits for with the depth it had.  No lock is lost in
\* a call, taken by two, or given back with another depth.
LocksConserved ==
  \A t \in Tasks, s \in Skirmishes :
    IF lock_pid[s] = t
    THEN Lent(t, s) = {} /\ held[t][s] = lock_count[s]
    ELSE IF Lent(t, s) = {} THEN held[t][s] = 0
    ELSE executing[t] # NoCall /\ \A x \in Lent(t, s) : x.count = held[t][s]

\* Only the fusionee that serves the innermost call takes a lent lock, and one that
\* it gave back has a caller who can reclaim it.
LentToCallee ==
  \A s \in Skirmishes :
    /\ lock_pid[s] \in Tasks /\ Innermost(s).to # Nobody => Owner[lock_pid[s]] = Innermost(s).to
    /\ lock_pid[s] = Returned => Innermost(s).to # Nobody

\* The assertions of skirmish.c hold.
NoReclaimAssert    == oops # "reclaim"
NoReturnAssert     == oops # "return"
NoReturnFromAssert == oops # "return_from"
AssertionsHold     == oops = "none"

\* No sleeping task has what it waits for: a caller its result, a reader a
\* message, a locker the lock.
NoSleepOnEvent ==
  \A t \in asleep :
    CASE pc[t] = "call"    -> ~Executed(t)
      [] pc[t] = "destroy" -> destroying[t] \in {Id(e) : e \in executions}
      [] pc[t] = "read"    -> inbox[Owner[t]] = <<>>
      [] pc[t] = "prevail" -> MustWait(obj[t], t)
      [] pc[t] = "relock"  -> lock_pid[obj[t]] # Nobody
      [] pc[t] = "wait"    -> t \notin notified

\* A call is executed once: a message waits, is served or was answered, and the
\* execution of a waiting caller is known to exactly one of them.
ServedOnce ==
  \A e \in executions :
    Cardinality({i \in DOMAIN inbox[Callee[e.call]] : inbox[Callee[e.call]][i] = Id(e)})
    + Cardinality({t \in Tasks : serving[t] = Id(e)})
    <= IF e.executed THEN 0 ELSE 1

\* The execution of a caller was freed by the callee's death or misfit result:
\* nobody tells the caller, as the code admits (FIMXE).
Forgotten(t) == executing[t] # NoCall /\ Id(executing[t]) \notin {Id(e) : e \in executions}

\* Every call ends: the caller gets its result or an error, however often a
\* signal sends it through user space, unless its execution is forgotten.  A
\* failed assertion stops the machine.
CallEnds ==
  \A t \in Tasks : executing[t] # NoCall ~> executing[t] = NoCall \/ Forgotten(t) \/ oops # "none"

\* An execution that its caller left behind, by its death or by a signal that came
\* after the answer: nobody removes it.
Abandoned(c) ==
  \E e \in executions : e.call = c /\ (pc[e.pid] = "dead" \/ (e.executed /\ e.signalled))

\* Who destroys a call is not kept waiting for ever by executions of living callers.
DestroyEnds ==
  \A t \in Tasks :
    pc[t] = "destroy" ~> pc[t] # "destroy" \/ Abandoned(destroying[t].call) \/ oops # "none"
=============================================================================
