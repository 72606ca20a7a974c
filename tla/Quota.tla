------------------------------- MODULE Quota --------------------------------
(***************************************************************************)
(* Calls with quotas (call.c, the call part of fusiondev.c) in a world     *)
(* with reactors: a batch of one-way calls is cut where the caller's quota *)
(* is used up, sleeps, may be interrupted, and is continued where it was.  *)
(* The quota counts the messages that the owner of the call has not        *)
(* processed.  Calls that wait for a result are in SkirmishCall.           *)
(*                                                                         *)
(* A process makes its ioctls in one thread and reads its messages in      *)
(* another.                                                                *)
(***************************************************************************)
EXTENDS Reactor

CONSTANTS
  QuotaCalls,  \* ids of the calls that are executed in batches
  Limits,      \* limits of a quota
  BatchSize    \* messages of a batch

ASSUME QuotaAssumption ==
  /\ QuotaCalls \subseteq (1..MaxEntries) \ CallbackCalls
  /\ Limits \subseteq Nat /\ BatchSize \in Nat \ {0}

VARIABLES
  quotas,  \* of a call and a fusion id: count, limit and, history, the largest limit
  batch,   \* of a file: the call, and how many of its messages are FCEF_DONE
  got      \* history: the messages of its batch that were sent, in that order

quotaVars == <<quotas, batch, got>>
vars == <<worldVars, reactorVars, callbacks, quotaVars>>

QuotaCallback(c, i) == [kind |-> "quota", ctx |-> <<c, i>>]

\* The calls a process owns (call->fusionee): those it created.
OwnedBy(f) == {c \in DOMAIN entry["call"] : entry["call"][c].creator = id[f] /\ id[f] # 0}

Owner(c) == CHOOSE f \in members : c \in OwnedBy(f)

\* Who sleeps in quota->wait.
QuotaWaiters(c, i) == {f \in asleep : pc[f] = "quota" /\ batch[f].call = c /\ id[f] = i}

-----------------------------------------------------------------------------
CallNew(f) ==
  /\ Entered(f) /\ Spend
  /\ CreateEntry("call", f)
  /\ UNCHANGED <<device, process, waits, opens, callbacks, reactorVars, quotaVars>>

\* fusion_call_set_quota
SetQuota(f, c, i, limit) ==
  LET q == quotas[c]
      new == IF i \in DOMAIN q
             THEN [q[i] EXCEPT !.limit = limit, !.peak = IF limit > @ THEN limit ELSE @]
             ELSE [count |-> 0, limit |-> limit, peak |-> limit]
  IN
  /\ MayUse(f, "call", c, "quota") /\ Spend
  /\ quotas' = [quotas EXCEPT ![c] = [j \in DOMAIN q \cup {i} |-> IF j = i THEN new ELSE q[j]]]
  /\ asleep' = asleep \ QuotaWaiters(c, i)
  /\ UNCHANGED <<device, process, pc, pending, killing, target, timer, entries, opens, rights,
                 reactorVars, callbacks, batch, got>>

\* What is left of a message whose callback was removed.
NoCallback == [kind |-> "none", ctx |-> 0]

\* A queue without the callbacks of the quotas of a set of calls.
Unquoted(s, calls) ==
  [j \in DOMAIN s |-> IF s[j].kind = "quota" /\ s[j].ctx[1] \in calls THEN NoCallback ELSE s[j]]

\* Mutant: what is being processed keeps its callbacks.
RemovePending(calls) ==
  /\ inbox' = [f \in Files |-> Unquoted(inbox[f], calls)]
  /\ UNCHANGED prev

\* fusionee_remove_message_callbacks, for the quotas of a set of calls.
RemoveCallbacks(calls) ==
  /\ inbox' = [f \in Files |-> Unquoted(inbox[f], calls)]
  /\ prev'  = [f \in Files |-> Unquoted(prev[f], calls)]

FreeQuotas(calls) == quotas' = [c \in DOMAIN quotas |-> IF c \in calls THEN <<>> ELSE quotas[c]]

\* fusion_call_destroy and fusion_call_destruct; in a secure world only by the
\* owner.  The wait queue of a quota goes without a wake-up.
CallDestroy(f, c) ==
  /\ MayUse(f, "call", c, "destroy") /\ Spend
  /\ secure => c \in OwnedBy(f)                                    \* EIO
  /\ DestroyEntries(Only("call", c)) /\ FreeQuotas({c}) /\ RemoveCallbacks({c})
  /\ UNCHANGED <<device, process, waits, opens, reactorVars, batch, got>>

-----------------------------------------------------------------------------
(* Batches: FUSION_CALL_EXECUTE3 *)

\* How many messages the quota of a caller lets through.
Room(c, i, n) ==
  IF i \notin DOMAIN quotas[c] THEN n
  ELSE IF quotas[c][i].count >= quotas[c][i].limit THEN 0
  ELSE IF quotas[c][i].limit - quotas[c][i].count < n THEN quotas[c][i].limit - quotas[c][i].count ELSE n

\* Mutant: the messages that are done are sent again.
AllOfThem(done) == 1..BatchSize

\* The messages of a batch that are not FCEF_DONE.
NotDone(done) == (done + 1)..BatchSize

\* The loop over the messages of a batch: those that are FCEF_DONE are skipped,
\* as many as the quota allows are sent, and the first beyond sleeps.
ExecuteLoop(f, c, done, before) ==
  LET left == Cardinality(NotDone(done))
      n == Room(c, id[f], left)
  IN
  /\ batch' = [batch EXCEPT ![f] = [call |-> c, done |-> BatchSize - left + n]]
  /\ got' = [got EXCEPT ![f] = before \o [k \in 1..n |-> BatchSize - left + k]]
  /\ IF id[f] \in DOMAIN quotas[c]
     THEN /\ quotas' = [quotas EXCEPT ![c][id[f]].count = @ + n]
          /\ inbox' = [inbox EXCEPT ![Owner(c)] = @ \o [k \in 1..n |-> QuotaCallback(c, id[f])]]
     ELSE UNCHANGED <<quotas, inbox>>
  /\ IF n < left
     THEN SleepIn(f, "quota") /\ asleep' = asleep \cup {f}
     ELSE SleepIn(f, "user") /\ UNCHANGED asleep

NoBatch == [call |-> 0, done |-> 0]

\* A signal has cut the batch of a process.
Interrupted(f) == batch[f].call # 0 /\ batch[f].done < BatchSize

OnlyBatches ==
  UNCHANGED <<device, process, killing, target, timer, entries, opens, rights, reactorVars, prev>>

Execute(f, c) ==
  /\ MayUse(f, "call", c, "execute") /\ Spend
  /\ ExecuteLoop(f, c, 0, <<>>)
  /\ UNCHANGED pending /\ OnlyBatches

\* The lookup fails, or the permission check: the message gets FCEF_ERROR, the
\* rest is not sent.
ExecuteFails(f) ==
  /\ batch' = [batch EXCEPT ![f] = NoBatch]
  /\ SleepIn(f, "user")
  /\ UNCHANGED <<pending, asleep, quotas, got, inbox>>

\* After EINTR the process comes again with the same batch.
ExecuteAgain(f) ==
  LET c == batch[f].call IN
  /\ Entered(f) /\ Interrupted(f)
  /\ IF MayUse(f, "call", c, "execute")
     THEN ExecuteLoop(f, c, batch[f].done, got[f]) /\ UNCHANGED pending
     ELSE ExecuteFails(f)
  /\ UNCHANGED ops /\ OnlyBatches

\* What happens after the sleep on a quota.
ExecuteResume(f) ==
  LET c == batch[f].call IN
  /\ pc[f] = "quota" /\ f \notin asleep
  /\ IF f \in pending \cup killing
     THEN /\ SleepIn(f, "user") /\ pending' = pending \ {f}         \* EINTR
          /\ UNCHANGED <<asleep, batch, quotas, got, inbox>>
     ELSE IF Exists("call", c)
     THEN ExecuteLoop(f, c, batch[f].done, got[f]) /\ UNCHANGED pending
     ELSE ExecuteFails(f)
  /\ UNCHANGED ops /\ OnlyBatches

-----------------------------------------------------------------------------
(* Messages are read and processed *)

\* Mutant: nobody is woken.
WokenByNobody(s) == {}

\* Those whose quota gets room when the callbacks of a queue run.
WokenBy(s) == UNION {QuotaWaiters(s[i].ctx[1], s[i].ctx[2]) : i \in {j \in DOMAIN s : s[j].kind = "quota"}}

\* fusion_call_quota_message_callback, for the messages of a queue.
RunQuotaCallbacks(s) ==
  /\ quotas' = [c \in DOMAIN quotas |-> [i \in DOMAIN quotas[c] |->
                  [quotas[c][i] EXCEPT !.count = @ - CountIn(s, QuotaCallback(c, i))]]]
  /\ asleep' = asleep \ WokenBy(s)

\* fusionee_get_messages by the other thread: it reads some packets, and what
\* it read before has been processed.
Receive(f) ==
  /\ f \in members /\ id[f] # 0 /\ f \notin exiting \cup killing
  /\ prev[f] \o inbox[f] # <<>>
  /\ \E n \in 0..Len(inbox[f]) :
       /\ n = 0 => inbox[f] = <<>>
       /\ prev'  = [prev EXCEPT ![f] = SubSeq(inbox[f], 1, n)]
       /\ inbox' = [inbox EXCEPT ![f] = SubSeq(@, n + 1, Len(@))]
  /\ RunDispatchCallbacks(prev[f], Reactors) /\ RunQuotaCallbacks(prev[f])
  /\ UNCHANGED <<device, process, pc, pending, killing, target, timer, entries, opens, ops, rights,
                 reactor, batch, got>>

-----------------------------------------------------------------------------
(* The end of a fusionee, and of its world *)

\* fusiondev_deinit
EndOfWorld ==
  /\ DestroyEntries(AllEntries) /\ FreeQuotas(DOMAIN quotas)
  /\ reactor' = FreeReactors(DOMAIN reactor) /\ dispatches' = <<>>

\* What fusionee_destroy does to the objects: the calls of the process go,
\* then its nodes, then the callbacks of its messages run.  With the last one
\* all objects go.
Drop(f) ==
  LET left == Reactors \ LeftEmpty(id[f]) IN
  IF LastClose(f) THEN EndOfWorld
  ELSE /\ DestroyEntries([k \in Kinds |-> IF k = "call" THEN OwnedBy(f) ELSE LeftEmpty(id[f])])
       /\ FreeQuotas(OwnedBy(f)) /\ DetachAll(id[f])
       /\ RunDispatchCallbacks(prev[f] \o inbox[f], left)

ReleaseAll(f) ==
  /\ Release(f) /\ Drop(f)
  /\ inbox' = [inbox EXCEPT ![f] = <<>>] /\ prev' = [prev EXCEPT ![f] = <<>>]
  /\ batch' = [batch EXCEPT ![f] = NoBatch] /\ got' = [got EXCEPT ![f] = <<>>]

ReleaseAllResume(f) ==
  /\ ReleaseResume(f)
  /\ IF LastClose(f) THEN EndOfWorld ELSE UNCHANGED <<entries, rights, quotas, reactorVars>>
  /\ UNCHANGED <<callbacks, batch, got>>

-----------------------------------------------------------------------------
Init ==
  /\ WorldInit /\ ReactorInit
  /\ quotas = [c \in 1..MaxEntries |-> <<>>]
  /\ batch = [f \in Files |-> NoBatch] /\ got = [f \in Files |-> <<>>]

QuotaStep(f) ==
  \/ CallNew(f)
  \/ \E c \in QuotaCalls, i \in {id[g] : g \in members} \ {0}, limit \in Limits : SetQuota(f, c, i, limit)
  \/ \E c \in 1..MaxEntries : CallDestroy(f, c)
  \/ \E c \in QuotaCalls : Execute(f, c)
  \/ ExecuteAgain(f) \/ ExecuteResume(f) \/ Receive(f)
  \/ ReleaseAll(f) \/ ReleaseAllResume(f)

Permit(f) ==
  \E k \in Kinds, i \in 1..MaxEntries, g \in 0..MaxIds, R \in Grants : AddPermissions(f, k, i, g, R)

Alone(A) == A /\ UNCHANGED <<reactorVars, callbacks, quotaVars>>

Next ==
  \E f \in Files :
    \/ Alone(WorldStep(f) \/ Permit(f))
    \/ ReactorStep(f) /\ UNCHANGED quotaVars
    \/ QuotaStep(f)

Spec == Init /\ [][Next]_vars

\* The scheduler runs who is awake, who was killed dies and its files are
\* closed, a process reads its messages and comes again after EINTR, and a
\* master lets the others enter.
Fairness ==
  \A f \in Files :
    /\ WF_vars(Alone(EnterResume(f))) /\ WF_vars(Alone(KillResume(f)))
    /\ WF_vars(ExecuteResume(f)) /\ WF_vars(ExecuteAgain(f)) /\ WF_vars(ReleaseAllResume(f))
    /\ WF_vars(f \in killing /\ Alone(Exit(f))) /\ WF_vars(f \in exiting /\ ReleaseAll(f))
    /\ WF_vars(Receive(f)) /\ WF_vars(Alone(Unblock(f)))

FairSpec == Spec /\ Fairness

-----------------------------------------------------------------------------
(* Properties *)

\* A counter of messages is the number of those that are neither processed nor
\* lost with their reader, the context of each callback is there when it runs,
\* and no caller exceeds the quota it was given.
CallbacksCounted ==
  /\ \A d \in DOMAIN dispatches :
       /\ dispatches[d].reactor \in Reactors => dispatches[d].count = Outstanding(DispatchCallback(d))
       /\ dispatches[d].freed => Outstanding(DispatchCallback(d)) = 0
  /\ \A c \in 1..MaxEntries, i \in 1..MaxIds :
       IF i \in DOMAIN quotas[c]
       THEN /\ quotas[c][i].count = Outstanding(QuotaCallback(c, i))
            /\ quotas[c][i].count <= quotas[c][i].peak
       ELSE Outstanding(QuotaCallback(c, i)) = 0

\* Whatever quotas and signals do to a batch, its messages are sent in order,
\* and each of them once.
BatchOnce ==
  \A f \in Files :
    /\ \A n \in DOMAIN got[f] : got[f][n] = n /\ n <= BatchSize
    /\ batch[f].call # 0 => Len(got[f]) = batch[f].done

\* Who sleeps and should not sleep for ever: who enters when a master has come,
\* a killer, and a caller whose quota is not zero and whose call exists.
Overdue(f) ==
  \/ pc[f] = "enter" /\ f \notin orphans \cup late /\ last_id # 0
  \/ pc[f] = "kill"
  \/ /\ pc[f] = "quota" /\ Exists("call", batch[f].call)
     /\ quotas[batch[f].call][id[f]].limit # 0

\* Sleepers come back: when the master lets them enter, or with the end of the
\* world; when the victims are gone; when the owner has processed its messages.
SleepersReturn == \A f \in Files : Overdue(f) ~> ~Overdue(f)
=============================================================================
