-------------------------------- MODULE Ref --------------------------------
(***************************************************************************)
(* The reference of linux-fusion (ref.c): a global count, and a local      *)
(* count that is the sum of a count for each fusionee and of the local     *)
(* count of the reference it inherits from.  Who wants to destroy what is  *)
(* counted locks the reference at zero, or watches it: a call is then      *)
(* executed when the count falls to zero.                                  *)
(*                                                                         *)
(* A watch executes its call asynchronously here; the synchronous one,     *)
(* which sleeps in the middle of a change, is not modelled.                *)
(***************************************************************************)
EXTENDS Integers, Sequences, FiniteSetsExt, SequencesExt

CONSTANTS
  Tasks,       \* kernel tasks (pids)
  Fusionees,   \* fusion ids
  Owner,       \* the fusionee whose file descriptor a task uses
  Refs,        \* entry ids
  Forkers,     \* fusionees that fork the references of another
  Nobody,      \* the value 0 of a pid, a fusion id or a pointer
  MaxOps       \* bound: ups, throws, locks and forks each task asks for

ASSUME RefAssumption ==
  /\ Nobody \notin Tasks \cup Fusionees \cup Refs
  /\ Owner \in [Tasks -> Fusionees] /\ Forkers \subseteq Fusionees
  /\ IsFiniteSet(Fusionees) /\ IsFiniteSet(Refs)
  /\ MaxOps \in [Tasks -> Nat]

VARIABLES
  pid,        \* who created a reference, Nobody before
  live,       \* references that can be looked up
  global, local,
  refs,       \* LocalRef.refs of a reference and a fusionee
  locked, watched, inherited,
  throws,     \* the sequence of throws of a reference
  calls,      \* watch calls executed for a reference
  obj,        \* the reference a task waits for in fusion_ref_zero_lock
  asleep,     \* tasks that schedule() has not let continue yet
  signalled,  \* waiting tasks with a signal pending
  killed,     \* fusionees whose process is dying
  released,   \* fusionees whose file has been released
  ops,        \* bound: calls a task has left
  forked      \* history: references that forks added without counting them

entries == <<pid, live, forked>>
counts  == <<global, local, refs, calls>>
rest    == <<locked, watched, inherited, throws>>
tasks   == <<obj, signalled, killed, released>>
vars    == <<entries, counts, rest, tasks, asleep, ops>>

Throws == [fusion_id : Fusionees, catcher : Fusionees]

\* A task that may enter the kernel.
InUser(t) == obj[t] = Nobody /\ Owner[t] \notin killed

Spend(t) == ops[t] > 0 /\ ops' = [ops EXCEPT ![t] = @ - 1]

\* The sum of the values that g has on S.
SumOver(g, S) == MapThenSumSet(LAMBDA a : g[a], S)

\* The references r inherits from, and r.
Above ==
  LET above[r \in Refs] ==
        {r} \cup IF inherited[r] = Nobody THEN {} ELSE above[inherited[r]]
  IN  above

Total(r) == local[r] + global[r]

\* Mutant: a locked reference may be changed.
FreeLive(r) == r \in live

Free(r) == r \in live /\ locked[r] = Nobody

-----------------------------------------------------------------------------
(* Changes of the counts *)

\* Mutant: the heirs of a reference are not told.
NotifySelf(S, W) ==
  LET Z == {r \in S : local'[r] + global[r] = 0} IN
  /\ calls'  = [r \in Refs |-> calls[r] + IF r \in Z /\ watched[r] THEN 1 ELSE 0]
  /\ asleep' = {t \in asleep : obj[t] \notin W /\ ~(obj[t] \in Z /\ ~watched[obj[t]])}

\* notify_ref for every reference of S whose count is zero now; W is woken anyway.
Notify(S, W) ==
  LET Z == {r \in Refs : Above[r] \cap S # {} /\ local'[r] + global[r] = 0} IN
  /\ calls'  = [r \in Refs |-> calls[r] + IF r \in Z /\ watched[r] THEN 1 ELSE 0]
  /\ asleep' = {t \in asleep : obj[t] \notin W /\ ~(obj[t] \in Z /\ ~watched[obj[t]])}

\* propagate_local for every reference of S: its heirs change by as much.
Propagate(S, diff) ==
  local' = [r \in Refs |->
    IF Above[r] \cap S = {} THEN local[r]
    ELSE local[r] + SumOver(diff, Above[r] \cap S)]

\* add_local and propagate_local: fusionee f has n references more.
Change(r, f, n) ==
  /\ refs[r][f] + n >= 0                                          \* else EIO
  /\ refs' = [refs EXCEPT ![r][f] = @ + n]
  /\ Propagate({r}, [a \in Refs |-> n])
  /\ UNCHANGED global
  /\ Notify({r}, {})

Up(t, r) ==
  /\ InUser(t) /\ Free(r) /\ Spend(t)
  /\ Change(r, Owner[t], 1)
  /\ UNCHANGED <<entries, rest, tasks>>

Down(t, r) ==
  /\ InUser(t) /\ Free(r)
  /\ local[r] # 0                                                 \* else EIO
  /\ Change(r, Owner[t], -1)
  /\ UNCHANGED <<entries, rest, tasks, ops>>

UpGlobal(t, r) ==
  /\ InUser(t) /\ Free(r) /\ Spend(t)
  /\ global' = [global EXCEPT ![r] = @ + 1]
  /\ UNCHANGED <<entries, local, refs, calls, rest, tasks, asleep>>

\* notify_ref is called for the reference alone.
DownGlobal(t, r) ==
  /\ InUser(t) /\ Free(r)
  /\ global[r] # 0                                                \* else EIO
  /\ global' = [global EXCEPT ![r] = @ - 1]
  /\ UNCHANGED <<local, refs>>
  /\ IF (local[r] + global[r] = 0)'
     THEN IF watched[r]
          THEN calls' = [calls EXCEPT ![r] = @ + 1] /\ UNCHANGED asleep
          ELSE asleep' = {u \in asleep : obj[u] # r} /\ UNCHANGED calls
     ELSE UNCHANGED <<calls, asleep>>
  /\ UNCHANGED <<entries, rest, tasks, ops>>

\* A reference is handed to another fusionee, which catches it after its own up.
Throw(t, r, catcher) ==
  LET f == Owner[t] IN
  /\ InUser(t) /\ Free(r) /\ Spend(t)
  /\ refs[r][f] # 0                                               \* else EIO
  /\ Len(SelectSeq(throws[r], LAMBDA x : x.fusion_id = f)) # refs[r][f]
  /\ throws' = [throws EXCEPT ![r] = Append(@, [fusion_id |-> f, catcher |-> catcher])]
  /\ UNCHANGED <<entries, counts, locked, watched, inherited, tasks, asleep>>

\* The throw is gone although its thrower may have nothing left to give.
Catch(t, r) ==
  /\ InUser(t) /\ Free(r)
  /\ \E i \in 1..Len(throws[r]) :                                  \* else EACCES
       /\ throws[r][i].catcher = Owner[t]
       /\ \A j \in 1..(i - 1) : throws[r][j].catcher # Owner[t]
       /\ throws' = [throws EXCEPT ![r] = RemoveAt(@, i)]
       /\ LET thrower == throws[r][i].fusion_id IN
          IF refs[r][thrower] > 0
          THEN Change(r, thrower, -1)
          ELSE UNCHANGED <<counts, asleep>>                       \* EIO
  /\ UNCHANGED <<entries, locked, watched, inherited, tasks, ops>>

\* Inheritance makes a forest: nobody inherits from an heir.
Inherit(t, r, from) ==
  /\ InUser(t) /\ {r, from} \subseteq live /\ r \notin Above[from]
  /\ inherited[r] = Nobody                                        \* else EBUSY
  /\ Propagate({r}, [a \in Refs |-> local[from]])
  /\ UNCHANGED <<global, refs>>
  /\ Notify({r}, {})
  /\ inherited' = [inherited EXCEPT ![r] = from]
  /\ UNCHANGED <<entries, locked, watched, throws, tasks, ops>>

-----------------------------------------------------------------------------
(* Locking at zero and watching *)

Return(t) ==
  /\ obj' = [obj EXCEPT ![t] = Nobody] /\ signalled' = signalled \ {t}
  /\ UNCHANGED <<killed, released>>

\* The loop of fusion_ref_zero_lock.
Attempt(t, r) ==
  \/ locked[r] # Nobody /\ Return(t) /\ UNCHANGED <<locked, asleep>> \* EIO, EAGAIN
  \/ /\ locked[r] = Nobody /\ (global[r] # 0 \/ local[r] # 0)
     /\ obj' = [obj EXCEPT ![t] = r] /\ asleep' = asleep \cup {t}
     /\ UNCHANGED <<locked, signalled, killed, released>>
  \/ /\ locked[r] = Nobody /\ global[r] = 0 /\ local[r] = 0
     /\ locked' = [locked EXCEPT ![r] = Owner[t]]
     /\ Return(t) /\ UNCHANGED asleep

ZeroLock(t, r) ==
  /\ InUser(t) /\ r \in live /\ Spend(t)
  /\ Attempt(t, r)
  /\ UNCHANGED <<entries, counts, watched, inherited, throws>>

\* fusion_entry_wait returns: EINTR and EIDRM end the call.
Resume(t) ==
  /\ obj[t] # Nobody /\ t \notin asleep
  /\ IF Owner[t] \in killed \/ t \in signalled \/ obj[t] \notin live
     THEN Return(t) /\ UNCHANGED <<locked, asleep>>
     ELSE Attempt(t, obj[t])
  /\ UNCHANGED <<entries, counts, watched, inherited, throws, ops>>

ZeroTrylock(t, r) ==
  /\ InUser(t) /\ Free(r) /\ Spend(t)
  /\ global[r] = 0 /\ local[r] = 0                                \* else ETOOMANYREFS
  /\ locked' = [locked EXCEPT ![r] = Owner[t]]
  /\ UNCHANGED <<entries, counts, watched, inherited, throws, tasks, asleep>>

ZeroUnlock(t, r) ==
  /\ InUser(t) /\ r \in live /\ locked[r] = Owner[t]              \* else EIO
  /\ locked' = [locked EXCEPT ![r] = Nobody]
  /\ UNCHANGED <<entries, counts, watched, inherited, throws, tasks, asleep, ops>>

Watch(t, r) ==
  /\ InUser(t) /\ r \in live
  /\ pid[r] = t                                                   \* else EACCES
  /\ Total(r) # 0                                                 \* else EIO
  /\ ~watched[r]                                                  \* else EBUSY
  /\ watched' = [watched EXCEPT ![r] = TRUE]
  /\ asleep'  = {u \in asleep : obj[u] # r}
  /\ UNCHANGED <<entries, counts, locked, inherited, throws, tasks, ops>>

-----------------------------------------------------------------------------
(* Entries and processes *)

New(t, r) ==
  /\ InUser(t) /\ pid[r] = Nobody
  /\ pid' = [pid EXCEPT ![r] = t] /\ live' = live \cup {r}
  /\ UNCHANGED <<counts, rest, tasks, asleep, ops, forked>>

\* Mutant: the heirs keep what they inherited.
KeepHeirs(r) ==
  /\ inherited' = [h \in Refs |-> IF h = r \/ inherited[h] = r THEN Nobody ELSE inherited[h]]
  /\ UNCHANGED local
  /\ Notify({}, {r})

\* The waiters are woken, then drop_inheritors takes the local count of r from
\* its heirs and r leaves the list of its ancestor.
DropHeirs(r) ==
  LET Heirs == {h \in Refs : inherited[h] = r} IN
  /\ inherited' = [h \in Refs |-> IF h = r \/ h \in Heirs THEN Nobody ELSE inherited[h]]
  /\ Propagate(Heirs, [h \in Refs |-> -local[r]])
  /\ Notify(Heirs, {r})

Destroy(t, r) ==
  /\ InUser(t) /\ r \in live
  /\ live' = live \ {r}
  /\ DropHeirs(r)
  /\ UNCHANGED <<pid, forked, global, refs, locked, watched, throws, tasks, ops>>

\* fork_local increments the count of the parent, and of nobody else.
Fork(t, from) ==
  /\ InUser(t) /\ Owner[t] \in Forkers /\ from # Owner[t] /\ Spend(t)
  /\ LET R == {r \in live : refs[r][from] > 0} IN
     /\ refs'   = [r \in Refs |-> IF r \in R THEN [refs[r] EXCEPT ![from] = @ + 1] ELSE refs[r]]
     /\ forked' = [r \in Refs |-> forked[r] + IF r \in R THEN 1 ELSE 0]
  /\ UNCHANGED <<pid, live, global, local, calls, rest, tasks, asleep>>

Signal(t) ==
  /\ obj[t] # Nobody /\ t \notin signalled
  /\ signalled' = signalled \cup {t} /\ asleep' = asleep \ {t}
  /\ UNCHANGED <<entries, counts, rest, obj, killed, released, ops>>

\* A process is killed, or exits.
Kill(f) ==
  /\ f \notin killed
  /\ killed' = killed \cup {f} /\ asleep' = {t \in asleep : Owner[t] # f}
  /\ UNCHANGED <<entries, counts, rest, obj, signalled, released, ops>>

\* Mutant: the counts of the dead stay.
ClearLocks(f) ==
  LET Locked == {r \in live : locked[r] = f} IN
  /\ locked' = [r \in Refs |-> IF r \in Locked THEN Nobody ELSE locked[r]]
  /\ UNCHANGED <<refs, local>>
  /\ Notify({}, Locked)

\* clear_local of every reference.  The changes are all negative: what ends at
\* zero is notified once, by the last of them.
ClearLocal(f) ==
  LET Locked  == {r \in live : locked[r] = f}
      Counted == {r \in live : refs[r][f] > 0}
  IN  /\ locked' = [r \in Refs |-> IF r \in Locked THEN Nobody ELSE locked[r]]
      /\ refs'   = [r \in Refs |-> IF r \in live THEN [refs[r] EXCEPT ![f] = 0] ELSE refs[r]]
      /\ Propagate(Counted, [r \in Refs |-> -refs[r][f]])
      /\ Notify(Counted, Locked)

\* fusionee_destroy, when every task of the process has left the kernel.
Release(f) ==
  /\ f \in killed \ released
  /\ \A t \in Tasks : Owner[t] = f => obj[t] = Nobody
  /\ released' = released \cup {f}
  /\ ClearLocal(f)
  /\ UNCHANGED <<entries, global, watched, inherited, throws, obj, signalled, killed, ops>>

-----------------------------------------------------------------------------
Init ==
  /\ pid       = [r \in Refs |-> Nobody] /\ live = {}
  /\ global    = [r \in Refs |-> 0] /\ local = [r \in Refs |-> 0]
  /\ refs      = [r \in Refs |-> [f \in Fusionees |-> 0]]
  /\ locked    = [r \in Refs |-> Nobody]
  /\ watched   = [r \in Refs |-> FALSE]
  /\ inherited = [r \in Refs |-> Nobody]
  /\ throws    = [r \in Refs |-> <<>>]
  /\ calls     = [r \in Refs |-> 0]
  /\ obj       = [t \in Tasks |-> Nobody]
  /\ asleep = {} /\ signalled = {} /\ killed = {} /\ released = {}
  /\ ops       = MaxOps
  /\ forked    = [r \in Refs |-> 0]

Counting(t, r) ==
  Up(t, r) \/ Down(t, r) \/ UpGlobal(t, r) \/ DownGlobal(t, r) \/ Catch(t, r)
  \/ (\E f \in Fusionees : Throw(t, r, f)) \/ (\E from \in Refs : Inherit(t, r, from))

Zeroing(t, r) == ZeroLock(t, r) \/ ZeroTrylock(t, r) \/ ZeroUnlock(t, r) \/ Watch(t, r)

\* FUSION_ASSERT( ref->local >= 0 ) of propagate_local: the task that fails it
\* stops with the semaphore held, and so does the module.
NotNegative == \A r \in live : local[r] \in Nat

Step ==
  \/ \E t \in Tasks, r \in Refs : Counting(t, r) \/ Zeroing(t, r) \/ New(t, r) \/ Destroy(t, r)
  \/ \E t \in Tasks, f \in Fusionees : Fork(t, f)
  \/ \E t \in Tasks : Resume(t) \/ Signal(t)
  \/ \E f \in Fusionees : Kill(f) \/ Release(f)

Next == NotNegative /\ Step

Spec == Init /\ [][Next]_vars

-----------------------------------------------------------------------------
(* Properties *)

\* The types of the C fields, the local count excepted.
Typed ==
  /\ pid       \in [Refs -> Tasks \cup {Nobody}] /\ live \subseteq Refs
  /\ global    \in [Refs -> Nat]
  /\ refs      \in [Refs -> [Fusionees -> Nat]]
  /\ locked    \in [Refs -> Fusionees \cup {Nobody}]
  /\ watched   \in [Refs -> BOOLEAN]
  /\ inherited \in [Refs -> Refs \cup {Nobody}]
  /\ throws    \in [Refs -> Seq(Throws)]
  /\ calls     \in [Refs -> Nat]
  /\ obj       \in [Tasks -> Refs \cup {Nobody}]
  /\ asleep \subseteq Tasks /\ signalled \subseteq Tasks
  /\ killed \subseteq Fusionees /\ released \subseteq killed
  /\ ops       \in [Tasks -> Nat]
  /\ forked    \in [Refs -> Nat]

\* Every variable has the type of its C field.
TypeOK == Typed /\ local \in [Refs -> Int]

\* What the fusionees hold of a reference.
Held(r) == SumOver(refs[r], Fusionees)

\* The local count is the sum of its parts, through every order of ups, downs,
\* throws, inheritance, destruction and death; forks alone add to a part what the
\* sum does not know.
LocalIsSum ==
  \A r \in live :
    local[r] = Held(r) - forked[r] + IF inherited[r] = Nobody THEN 0 ELSE local[inherited[r]]

\* Nobody waits for the zero of a reference that is at zero, locked or destroyed,
\* unless the reference is watched.
NoSleepAtZero ==
  \A t \in asleep :
    LET r == obj[t] IN
    r \in live /\ (watched[r] \/ ((global[r] # 0 \/ local[r] # 0) /\ locked[r] = Nobody))

\* The same of watched references.
NoSleepAtWatched == \A t \in asleep : global[obj[t]] # 0 \/ local[obj[t]] # 0

\* While a reference is locked nobody has a reference of its own to it: what it
\* counts comes from the reference it inherits from, or from a fork.
LockedIsBare ==
  \A r \in live : locked[r] # Nobody => global[r] = 0 /\ (Held(r) = 0 \/ forked[r] > 0)

\* While a reference is locked it counts nothing.
LockedIsZero == \A r \in live : locked[r] # Nobody => Total(r) = 0

\* A released fusionee counts nothing and locks nothing.
NoOrphan == \A r \in live, f \in released : refs[r][f] = 0 /\ locked[r] # f

\* A watch call is executed in the step in which the count falls to zero, once,
\* and in no step that leaves the count above zero.
WatchFollowsZero ==
  [][\A r \in live \cap live' :
       /\ watched[r] /\ Total(r) # 0 /\ Total(r)' = 0 => calls'[r] = calls[r] + 1
       /\ calls'[r] # calls[r] => Total(r)' = 0 /\ calls'[r] = calls[r] + 1]_vars
=============================================================================
