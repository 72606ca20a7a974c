------------------------------ MODULE Reactor -------------------------------
(***************************************************************************)
(* Reactors (reactor.c) in a world: processes attach to the channels of a  *)
(* reactor, and a dispatch is sent to all who are attached.  Once all of   *)
(* them have processed it or are gone, a one-way call reports that.        *)
(*                                                                         *)
(* Of the messages only those with a callback are modelled, and of those   *)
(* the callback: what the queue does is in Messages.  No queue reaches the *)
(* eleven packets that slow down a sender.                                 *)
(***************************************************************************)
EXTENDS World, Integers, Sequences

CONSTANTS
  Channels,      \* channels of a reactor that are used
  CallbackCalls  \* ids of the calls that reactors execute, which have no quotas

ASSUME ReactorAssumption ==
  /\ Kinds = {"call", "reactor"}
  /\ Channels \subseteq 0..3 /\ CallbackCalls \subseteq 1..MaxEntries

VARIABLES
  reactor,     \* of an id: the nodes, whether it was destroyed, its callback
  dispatches,  \* every ReactorDispatch that was allocated, in that order
  inbox, prev  \* of a fusionee: the callbacks of its packets and prev_packets

reactorVars == <<reactor, dispatches>>
callbacks   == <<inbox, prev>>

Reactors   == DOMAIN entry["reactor"]
NewReactor == [nodes |-> <<>>, destroyed |-> FALSE, call |-> 0]

DispatchCallback(d) == [kind |-> "dispatch", ctx |-> d]

\* How many messages of a queue have a callback.
CountIn(s, cb) == Cardinality({i \in DOMAIN s : s[i] = cb})

\* What an ioctl needs that names an entry, which must exist.
MayUse(f, k, i, right) == Entered(f) /\ Exists(k, i) /\ Permitted(f, k, i, right)

OnlyReactors == UNCHANGED <<device, process, waits, ids, opens, callbacks, dispatches>>

\* The reactors of a set go, with what they hold.
FreeReactors(gone) == [r \in DOMAIN reactor |-> IF r \in gone THEN NewReactor ELSE reactor[r]]

-----------------------------------------------------------------------------
ReactorNew(f) ==
  /\ Entered(f) /\ Spend
  /\ CreateEntry("reactor", f)
  /\ UNCHANGED <<device, process, waits, opens, callbacks, reactorVars>>

\* The counts a node starts with, and the node after one more attach.
NoCounts == [c \in Channels |-> 0]

\* fusion_reactor_attach
Attach(f, r, c) ==
  LET nodes == reactor[r].nodes
      old == IF id[f] \in DOMAIN nodes THEN nodes[id[f]] ELSE NoCounts
  IN
  /\ MayUse(f, "reactor", r, "attach") /\ ~reactor[r].destroyed /\ Spend   \* EIDRM
  /\ reactor' = [reactor EXCEPT ![r].nodes = [i \in DOMAIN nodes \cup {id[f]} |->
                   IF i = id[f] THEN [old EXCEPT ![c] = @ + 1] ELSE nodes[i]]]
  /\ UNCHANGED <<entry, table, rights>> /\ OnlyReactors

Without(nodes, i) == [j \in DOMAIN nodes \ {i} |-> nodes[j]]

\* fusion_reactor_detach does not ask whether the channel was attached to.  The
\* node goes when no count is left, and the reactor when no node is left of it.
Detach(f, r, c) ==
  LET nodes == reactor[r].nodes
      counts == [nodes[id[f]] EXCEPT ![c] = @ - 1]
      empty == \A d \in Channels : counts[d] = 0
      left == IF empty THEN Without(nodes, id[f]) ELSE [nodes EXCEPT ![id[f]] = counts]
  IN
  /\ MayUse(f, "reactor", r, "detach") /\ id[f] \in DOMAIN nodes /\ Spend  \* EIO
  /\ IF reactor[r].destroyed /\ left = <<>>
     THEN reactor' = FreeReactors({r}) /\ DestroyEntries(Only("reactor", r))
     ELSE reactor' = [reactor EXCEPT ![r].nodes = left] /\ UNCHANGED <<entry, table, rights>>
  /\ OnlyReactors

\* fusion_reactor_set_dispatch_callback
SetCallback(f, r, call) ==
  /\ MayUse(f, "reactor", r, "callback") /\ ~reactor[r].destroyed /\ Spend
  /\ reactor' = [reactor EXCEPT ![r].call = call]
  /\ UNCHANGED <<entry, table, rights>> /\ OnlyReactors

\* fusion_reactor_destroy: the entry stays while somebody is attached.
ReactorDestroy(f, r) ==
  /\ MayUse(f, "reactor", r, "destroy") /\ ~reactor[r].destroyed /\ Spend
  /\ IF reactor[r].nodes = <<>>
     THEN reactor' = FreeReactors({r}) /\ DestroyEntries(Only("reactor", r))
     ELSE reactor' = [reactor EXCEPT ![r].destroyed = TRUE] /\ UNCHANGED <<entry, table, rights>>
  /\ OnlyReactors

\* fusion_reactor_fork_all by a process that was just forked, and is attached
\* to nothing yet.  (The fork of references is in Ref, of pools in SHMPool.)
Fork(f, from) ==
  /\ Entered(f) /\ Spend /\ \A r \in Reactors : id[f] \notin DOMAIN reactor[r].nodes
  /\ reactor' = [r \in DOMAIN reactor |->
       IF r \in Reactors /\ from \in DOMAIN reactor[r].nodes
       THEN [reactor[r] EXCEPT !.nodes = [i \in DOMAIN @ \cup {id[f]} |->
                                            IF i = id[f] THEN @[from] ELSE @[i]]]
       ELSE reactor[r]]
  /\ UNCHANGED <<entry, table, rights>> /\ OnlyReactors

-----------------------------------------------------------------------------
(* Dispatches *)

\* A message with a callback, to each of a set of fusion ids.
Send(cb, to) ==
  inbox' = [f \in Files |-> IF id[f] \in to /\ f \in members THEN Append(inbox[f], cb) ELSE inbox[f]]

\* Who gets a dispatch: not the sender, unless it wants that.
Recipients(r, c, sender) == {i \in DOMAIN reactor[r].nodes : i # sender /\ reactor[r].nodes[i][c] # 0}

\* fusion_reactor_dispatch, of a reactor with a callback.  If nobody is to get
\* it, the one-way call is made at once.  fired is a history.
Dispatch(f, r, c, self) ==
  LET to == Recipients(r, c, IF self THEN 0 ELSE id[f]) IN
  /\ MayUse(f, "reactor", r, "dispatch") /\ ~reactor[r].destroyed /\ Spend
  /\ reactor[r].call # 0
  /\ dispatches' = Append(dispatches,
       [reactor |-> r, call |-> reactor[r].call, count |-> Cardinality(to),
        freed |-> to = {}, fired |-> IF to = {} THEN 1 ELSE 0])
  /\ Send(DispatchCallback(Len(dispatches) + 1), to)
  /\ UNCHANGED <<device, process, waits, entries, opens, rights, reactor, prev>>

\* Mutant: the last recipient is the one that finds the count at zero.
ProcessedLate(d, n, listed) ==
  IF d.reactor \in listed
  THEN [d EXCEPT !.count = @ - n, !.freed = d.count < n, !.fired = IF d.count < n THEN @ + 1 ELSE @]
  ELSE d

\* fusion_reactor_dispatch_message_callback, n times, while the reactors of the
\* set listed are in the list of the world.  The one-way call is made when the
\* count reaches zero, unless the reactor is gone.
Processed(d, n, listed) ==
  LET last == d.count - n = 0 IN
  IF n = 0 THEN d
  ELSE IF d.reactor \in listed
  THEN [d EXCEPT !.count = @ - n, !.freed = last, !.fired = IF last THEN @ + 1 ELSE @]
  ELSE IF listed = {} THEN [d EXCEPT !.count = @ - n, !.freed = last]
  ELSE d

\* The callbacks of the messages of a queue run.
RunDispatchCallbacks(s, listed) ==
  dispatches' = [d \in DOMAIN dispatches |->
                   Processed(dispatches[d], CountIn(s, DispatchCallback(d)), listed)]

\* fusion_reactor_detach_all: the reactors that go with the nodes of an id.
LeftEmpty(i) ==
  {r \in Reactors : i \in DOMAIN reactor[r].nodes /\ reactor[r].destroyed
                    /\ Without(reactor[r].nodes, i) = <<>>}

DetachAll(i) ==
  reactor' = [r \in DOMAIN reactor |->
                IF r \in LeftEmpty(i) THEN NewReactor
                ELSE [reactor[r] EXCEPT !.nodes = Without(@, i)]]

-----------------------------------------------------------------------------
ReactorInit ==
  /\ reactor = [r \in 1..MaxEntries |-> NewReactor]
  /\ dispatches = <<>>
  /\ inbox = [f \in Files |-> <<>>] /\ prev = [f \in Files |-> <<>>]

ReactorStep(f) ==
  \/ ReactorNew(f)
  \/ \E r \in 1..MaxEntries, c \in Channels :
       \/ Attach(f, r, c) \/ Detach(f, r, c)
       \/ \E self \in BOOLEAN : Dispatch(f, r, c, self)
  \/ \E r \in 1..MaxEntries, call \in CallbackCalls : SetCallback(f, r, call)
  \/ \E r \in 1..MaxEntries : ReactorDestroy(f, r)
  \/ \E from \in 1..MaxIds : Fork(f, from)

-----------------------------------------------------------------------------
(* Properties *)

\* Where a callback is in the queues of the fusionees.
Places(q, cb) == UNION {{f} \X {i \in DOMAIN q[f] : q[f][i] = cb} : f \in Files}

\* The messages with a callback that are not processed yet.
Outstanding(cb) == Cardinality(Places(inbox, cb)) + Cardinality(Places(prev, cb))

\* The report of a dispatch comes once, and not before the last of those it was
\* sent to has processed it or died; it comes as long as the reactor exists.
FiredOnceAfterAll ==
  \A d \in DOMAIN dispatches :
    LET left == Outstanding(DispatchCallback(d)) IN
    /\ dispatches[d].fired <= 1
    /\ dispatches[d].fired = 1 => left = 0
    /\ left = 0 /\ dispatches[d].reactor \in Reactors => dispatches[d].fired = 1
=============================================================================
