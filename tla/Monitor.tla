------------------------------ MODULE Monitor ------------------------------
(***************************************************************************)
(* What a skirmish promises its users: a recursive lock with a condition.  *)
(* One step per call that takes effect; who sleeps, who is woken and how   *)
(* often a loop runs is not visible here.                                  *)
(***************************************************************************)
EXTENDS Naturals

CONSTANTS Tasks, Locks, Nobody

VARIABLES
  owner,   \* the task that owns a lock
  depth,   \* how often it entered it
  saved,   \* of a waiting task: the lock it gave up, its depth, its timeout
  due      \* the waiting tasks that were notified

vars == <<owner, depth, saved, due>>

NotWaiting == [id |-> Nobody, depth |-> 0, timed |-> FALSE]

Init ==
  /\ owner = [l \in Locks |-> Nobody]
  /\ depth = [l \in Locks |-> 0]
  /\ saved = [t \in Tasks |-> NotWaiting]
  /\ due   = {}

Set(l, t, n) ==
  /\ owner' = [owner EXCEPT ![l] = t]
  /\ depth' = [depth EXCEPT ![l] = n]

Enter(t, l) ==
  /\ owner[l] \in {Nobody, t}
  /\ Set(l, t, depth[l] + 1)
  /\ UNCHANGED <<saved, due>>

Leave(t, l) ==
  /\ owner[l] = t
  /\ Set(l, IF depth[l] = 1 THEN Nobody ELSE t, depth[l] - 1)
  /\ UNCHANGED <<saved, due>>

\* The whole depth is given up at once.
BeginWait(t, l, timed) ==
  /\ owner[l] = t /\ saved[t] = NotWaiting
  /\ Set(l, Nobody, 0)
  /\ saved' = [saved EXCEPT ![t] = [id |-> l, depth |-> depth[l], timed |-> timed]]
  /\ UNCHANGED due

Notify(t, l) ==
  /\ owner[l] = t
  /\ due' = due \cup {u \in Tasks : saved[u].id = l}
  /\ UNCHANGED <<owner, depth, saved>>

\* A wait ends with the lock only when it was notified or may time out, and
\* gives back the depth it took.
EndWait(t, l) ==
  /\ saved[t].id = l /\ (t \in due \/ saved[t].timed)
  /\ owner[l] = Nobody
  /\ Set(l, t, saved[t].depth)
  /\ saved' = [saved EXCEPT ![t] = NotWaiting]
  /\ due'   = due \ {t}

GiveUp(t) ==
  /\ saved' = [saved EXCEPT ![t] = NotWaiting]
  /\ due'   = due \ {t}

FailWait(t) == GiveUp(t) /\ UNCHANGED <<owner, depth>>

Free(L) ==
  /\ owner' = [l \in Locks |-> IF l \in L THEN Nobody ELSE owner[l]]
  /\ depth' = [l \in Locks |-> IF l \in L THEN 0 ELSE depth[l]]

\* The lock is destroyed, or its owners are gone.
Destroy(l) == Free({l}) /\ UNCHANGED <<saved, due>>

Exit(t) == GiveUp(t) /\ Free({l \in Locks : owner[l] = t})

Bury(T) == Free({l \in Locks : owner[l] \in T}) /\ UNCHANGED <<saved, due>>

Next ==
  \/ \E t \in Tasks, l \in Locks :
       \/ Enter(t, l) \/ Leave(t, l) \/ Notify(t, l) \/ EndWait(t, l)
       \/ BeginWait(t, l, TRUE) \/ BeginWait(t, l, FALSE)
  \/ \E t \in Tasks : FailWait(t) \/ Exit(t)
  \/ \E l \in Locks : Destroy(l)
  \/ \E T \in SUBSET Tasks : Bury(T)

Spec == Init /\ [][Next]_vars
=============================================================================
