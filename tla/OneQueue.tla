------------------------------ MODULE OneQueue ------------------------------
(***************************************************************************)
(* The queues of the One module (src/one: queue.c, app.c, the open and     *)
(* release of onedev.c): applications create queues, whose packets are     *)
(* kept in a target of the application, or virtual queues, which pass      *)
(* every packet on to the queues attached to them.  A dispatch to a full   *)
(* target sleeps, in the middle of the walk over a virtual queue.          *)
(*                                                                         *)
(* A list is a function from its elements to places, which order it.       *)
(*                                                                         *)
(* All is local and of one device.  Ids are allocated, never given by the  *)
(* user, and no queue outlives its application (flag 0x10000000).  A       *)
(* packet is one of a count.  Allocation and copying do not fail.          *)
(*                                                                         *)
(* Steps that free what a dispatch of another task stands on are left out, *)
(* as the code does not look (Still, StillRelease, the guard of Detach).   *)
(***************************************************************************)
EXTENDS Naturals, FiniteSets, FiniteSetsExt, Functions

CONSTANTS
  Apps,       \* open files of the device, each a OneApp
  Tasks,      \* their threads
  AppOf,      \* the application of a task
  Readers,    \* tasks that only receive, for every queue of their application
  Mortals,    \* applications that may close the device
  Signalled,  \* tasks that may get a signal
  Limit,      \* packets of a target beyond which a dispatch sleeps (100)
  Asks,       \* what other tasks receive: ids, room of the buffer (in packets), and
              \* timeout: "none", "timed", or "poll"
  Rooms,      \* the rooms of a reader's buffer
  MaxQueues   \* bound: queues that are created

Ids == 1..MaxQueues

ASSUME OneAssumption ==
  /\ AppOf \in [Tasks -> Apps] /\ Readers \subseteq Tasks
  /\ \A a \in Apps : \E r \in Readers : AppOf[r] = a
  /\ \A r \in Asks : r.ids \subseteq Ids /\ r.room \in Nat /\ r.timeout \in {"none", "timed", "poll"}
  /\ Limit \in Nat /\ Rooms \subseteq Nat \ {0} /\ MaxQueues \in Nat

VARIABLES
  apps,     \* the list of applications
  last_id,  \* the last id that one_core_new_id gave
  queue,    \* the list of queues: owner, virtual, destroyed, nodes
  queue_attach,  \* the number of attaches (dev->stat)
  data,     \* of the targets: packets, wake-up flags, and of an application its recv_data
  pc,       \* "user", or where a task sleeps: "dispatch", "receive"
  asleep,   \* tasks that sleep in a wait queue
  pending,  \* tasks with a signal pending
  at,       \* where a dispatch sleeps: the queue and the target
  recv,     \* the receive of a task, alone or after a dispatch
  ops,      \* bound: calls that are left
  got, owed \* history, of a dispatch: how often a target got the packet, and
            \* the targets that are attached since it began

waits   == <<pc, asleep, pending, at, recv>>
history == <<got, owed>>
lists   == <<last_id, queue, queue_attach>>
vars == <<apps, lists, data, waits, ops, history>>

Nowhere == [queue |-> 0, target |-> 0]
NoReceive == [ids |-> {}, room |-> 0, timeout |-> "none"]
NotGot == [x \in Ids |-> 0]

InUser(t) == pc[t] = "user" /\ AppOf[t] \in apps
Spend     == ops > 0 /\ ops' = ops - 1

Queues == DOMAIN queue

\* The targets a dispatch goes to: that of the queue itself, or those of its nodes.
Targets(q) == IF queue[q].virtual THEN DOMAIN queue[q].nodes ELSE {q}

\* Nodes are prepended: the latest is the first.
Before(q, x, y) == queue[q].virtual /\ queue[q].nodes[x].place > queue[q].nodes[y].place

\* A list without the elements of a set.
Without(list, gone) == [x \in DOMAIN list \ gone |-> list[x]]

\* Tasks asleep in wait_for_packets of an application, in wait_for_free.
Receivers(a) == {t \in asleep : pc[t] = "receive" /\ AppOf[t] = a}
Senders(a) ==
  {t \in asleep : pc[t] = "dispatch" /\ at[t].target \in Queues /\ queue[at[t].target].owner = a}

-----------------------------------------------------------------------------
(* Applications and queues *)

\* one_open, OneApp_New: the first finds a new device.
Open(a) ==
  /\ a \notin apps /\ Spend
  /\ apps' = apps \cup {a}
  /\ queue_attach' = IF apps = {} THEN 0 ELSE queue_attach
  /\ UNCHANGED <<last_id, queue, data, waits, history>>

\* one_queue_new
New(t, virtual) ==
  /\ InUser(t) /\ Spend /\ last_id < MaxQueues
  /\ last_id' = last_id + 1
  /\ queue' = [q \in Queues \cup {last_id + 1} |->
                 IF q \in Queues THEN queue[q]
                 ELSE [owner |-> AppOf[t], virtual |-> virtual, destroyed |-> FALSE, nodes |-> <<>>]]
  /\ UNCHANGED <<apps, queue_attach, data, waits, history>>

\* Mutant: the nodes of virtual queues stay.
GoneAlone(gone) ==
  /\ queue' = [q \in Queues \ gone |-> queue[q]]
  /\ data' = [packets |-> [x \in Ids |-> IF x \in gone THEN 0 ELSE data.packets[x]],
              wakeup |-> data.wakeup \ gone,
              recv_data |-> [a \in Apps |-> Without(data.recv_data[a], gone)]]
  /\ owed' = [t \in Tasks |-> owed[t] \ gone]

\* The destroyed queues that lose their last node with the targets of a set.
LeftEmpty(gone) ==
  {q \in Queues \ gone : queue[q].destroyed /\ DOMAIN queue[q].nodes \subseteq gone}

\* one_entry_destroy_locked, one_queue_destruct, one_queue_detach_all, and
\* OneAppTarget_Destroy, of the queues of a set.
Gone(gone) ==
  LET all == gone \cup LeftEmpty(gone) IN
  /\ queue' = [q \in Queues \ all |-> [queue[q] EXCEPT !.nodes = Without(@, gone)]]
  /\ data' = [packets |-> [x \in Ids |-> IF x \in all THEN 0 ELSE data.packets[x]],
              wakeup |-> data.wakeup \ all,
              recv_data |-> [a \in Apps |-> Without(data.recv_data[a], all)]]
  /\ owed' = [t \in Tasks |-> owed[t] \ gone]

\* A dispatch that stands on a target.  When the target is gone it is stranded: it
\* sleeps in a wait queue that is gone too, and a signal ends it.
Standing(t) == pc[t] = "dispatch" /\ at[t].target \in Queues

\* No dispatch stands on a queue, its target or a node that names it.
Still(q) == \A t \in Tasks : Standing(t) => q \notin {at[t].queue, at[t].target}

\* one_queue_destroy: the queue stays while it has nodes.
Destroy(t, q) ==
  /\ InUser(t) /\ Spend
  /\ q \in Queues /\ ~queue[q].destroyed
  /\ IF DOMAIN queue[q].nodes = {}
     THEN Still(q) /\ Gone({q})
     ELSE /\ queue' = [queue EXCEPT ![q].destroyed = TRUE]
          /\ UNCHANGED <<data, owed>>
  /\ UNCHANGED <<apps, last_id, queue_attach, waits, got>>

\* What goes when an application goes.
Own(a) == {q \in Queues : queue[q].owner = a}

\* The dispatches that stand on a queue that goes, or its target, sleep in the
\* wait queue of the application, which goes too: nobody wakes them any more.
StillRelease(gone) ==
  \A t \in Tasks :
    Standing(t) /\ {at[t].queue, at[t].target} \cap (gone \cup LeftEmpty(gone)) # {}
      => t \in asleep /\ at[t].target \in gone

\* one_release, OneApp_Destroy, one_queue_destroy_all: no ioctl of the file runs.
Release(a) ==
  /\ a \in apps /\ a \in Mortals
  /\ \A t \in Tasks : AppOf[t] = a => pc[t] = "user"
  /\ StillRelease(Own(a))
  /\ apps' = apps \ {a}
  /\ Gone(Own(a))
  /\ UNCHANGED <<last_id, queue_attach, waits, ops, got>>

-----------------------------------------------------------------------------
(* Attach and detach *)

\* one_queue_attach: of a queue with a target, to a virtual queue.
Attach(t, q, x) ==
  LET nodes == queue[q].nodes
      node == IF x \in DOMAIN nodes THEN [nodes[x] EXCEPT !.count = @ + 1]
              ELSE [count |-> 1, place |-> queue_attach + 1]
  IN
  /\ InUser(t) /\ Spend
  /\ q \in Queues /\ x \in Queues
  /\ queue[q].virtual /\ ~queue[x].virtual /\ ~queue[q].destroyed
  /\ queue' = [queue EXCEPT ![q].nodes = [y \in DOMAIN nodes \cup {x} |-> IF y = x THEN node ELSE nodes[y]]]
  /\ queue_attach' = queue_attach + 1
  /\ UNCHANGED <<apps, last_id, data, waits, history>>

\* The dispatches that are under way in a queue no longer owe it to a target.
NotOwed(q, x) == [t \in Tasks |-> IF at[t].queue = q THEN owed[t] \ {x} ELSE owed[t]]

\* one_queue_detach: the last node takes a destroyed queue with it.
Detach(t, q, x) ==
  LET nodes == queue[q].nodes
      left == Without(nodes, {x})
  IN
  /\ InUser(t) /\ Spend
  /\ q \in Queues /\ x \in DOMAIN nodes                          \* EIO
  /\ \/ /\ nodes[x].count > 1
        /\ queue' = [queue EXCEPT ![q].nodes[x].count = @ - 1]
        /\ UNCHANGED <<data, owed>>
     \/ /\ nodes[x].count = 1
        /\ \A s \in Tasks : at[s] # [queue |-> q, target |-> x]
        /\ IF queue[q].destroyed /\ DOMAIN left = {}
           THEN Gone({q})
           ELSE /\ queue' = [queue EXCEPT ![q].nodes = left]
                /\ owed' = NotOwed(q, x) /\ UNCHANGED data
  /\ UNCHANGED <<apps, last_id, queue_attach, waits, got>>

-----------------------------------------------------------------------------
(* Dispatch and receive *)

Full(x) == data.packets[x] > Limit

\* Of a set of targets of a queue, those before the first that is full.
Served(q, S) == {x \in S : \A y \in S : Full(y) => Before(q, x, y)}

FirstFull(q, S) == CHOOSE x \in S : Full(x) /\ \A y \in S \ {x} : Full(y) => Before(q, x, y)

\* The targets of a set get a packet, in the order of their nodes in q.  Those
\* that are not linked are appended to the receiving targets of their application.
Put(q, S) ==
  LET Fresh(a) == {x \in S : queue[x].owner = a} \ DOMAIN data.recv_data[a]
      Last(a) == IF data.recv_data[a] = <<>> THEN 0 ELSE Max(Range(data.recv_data[a]))
      Rank(a, x) == 1 + Cardinality({y \in Fresh(a) : Before(q, y, x)})
  IN
  [packets |-> [x \in Ids |-> data.packets[x] + (IF x \in S THEN 1 ELSE 0)],
   wakeup |-> data.wakeup,
   recv_data |-> [a \in Apps |-> [x \in DOMAIN data.recv_data[a] \cup Fresh(a) |->
                    IF x \in Fresh(a) THEN Last(a) + Rank(a, x) ELSE data.recv_data[a][x]]]]

\* The packets of the targets of a set that are linked before one.
Ahead(D, a, S, x) ==
  MapThenSumSet(LAMBDA y : D.packets[y], {y \in S : D.recv_data[a][y] < D.recv_data[a][x]})

\* The targets receive_from is called for: those before have been read out.
Visited(D, a, S, room) == {x \in S : Ahead(D, a, S, x) <= room}

\* The targets that are read to the end, as the buffer has room for that, and
\* then unlinked.
ReadOut(D, a, S, room) == {x \in S : Ahead(D, a, S, x) + D.packets[x] <= room}

\* How many packets are read of each.
Taken(D, a, S, room) ==
  [x \in S |->
     LET before == Ahead(D, a, S, x) IN
     IF before >= room THEN 0 ELSE IF D.packets[x] <= room - before THEN D.packets[x] ELSE room - before]

\* Mutant: a receiver that has made room wakes nobody.
NoSenders(out, a) == {}

\* Who is woken when some targets of an application have been read out.
Relieved(out, a) == IF out # {} THEN Senders(a) ELSE {}

\* The loop of OneApp_Receive, which returns or sleeps: it returns when packets
\* were read, one was too big for the buffer, or somebody asked for a wake-up.
\* D are the targets, awake those who were woken in this step before.
\* (A quantifier over a set of one value has TLC compute the value once.)
ReceiveLoop(t, D, awake, r) ==
  LET a == AppOf[t]
      S == DOMAIN D.recv_data[a] \cap r.ids
  IN
  \E visited \in {Visited(D, a, S, r.room)}, out \in {ReadOut(D, a, S, r.room)}, taken \in {Taken(D, a, S, r.room)} :
    LET stays == /\ r.timeout # "poll"
                 /\ \A x \in visited : x \in out /\ taken[x] = 0 /\ x \notin D.wakeup
    IN
    /\ data' = [packets |-> [x \in Ids |-> IF x \in S THEN D.packets[x] - taken[x] ELSE D.packets[x]],
                wakeup |-> D.wakeup \ visited,
                recv_data |-> [D.recv_data EXCEPT ![a] = Without(@, out)]]
    /\ asleep' = ((asleep \ awake) \ Relieved(out, a)) \cup (IF stays THEN {t} ELSE {})
    /\ pc' = [pc EXCEPT ![t] = IF stays THEN "receive" ELSE "user"]
    /\ recv' = [recv EXCEPT ![t] = IF stays THEN r ELSE NoReceive]

\* A dispatch to q has reached its last target: the receive follows, if any.
DispatchDone(t, D, awake, r) ==
  /\ at' = [at EXCEPT ![t] = Nowhere]
  /\ IF r = NoReceive
     THEN /\ data' = D /\ asleep' = asleep \ awake
          /\ pc' = [pc EXCEPT ![t] = "user"] /\ recv' = [recv EXCEPT ![t] = NoReceive]
     ELSE ReceiveLoop(t, D, awake, r)

\* It sleeps in wait_for_free of the application of a target.
DispatchSleeps(t, q, x, D, awake, r) ==
  /\ data' = D /\ asleep' = (asleep \ awake) \cup {t}
  /\ pc' = [pc EXCEPT ![t] = "dispatch"] /\ recv' = [recv EXCEPT ![t] = r]
  /\ at' = [at EXCEPT ![t] = [queue |-> q, target |-> x]]

\* The walk of a dispatch to q over a set of its targets.  count and due are the
\* histories of the dispatch.
DispatchLoop(t, q, S, r, count, due) ==
  \E P \in {Served(q, S)} : \E D \in {Put(q, P)} :
    LET awake == UNION {Receivers(queue[x].owner) : x \in P}
        reached == [x \in Ids |-> count[x] + (IF x \in P THEN 1 ELSE 0)]
    IN
    IF P = S
    THEN /\ DispatchDone(t, D, awake, r)
         /\ got' = [got EXCEPT ![t] = NotGot]
         /\ owed' = [owed EXCEPT ![t] = {x \in due : reached[x] # 1}]
    ELSE /\ DispatchSleeps(t, q, FirstFull(q, S), D, awake, r)
         /\ got' = [got EXCEPT ![t] = reached]
         /\ owed' = [owed EXCEPT ![t] = due]

\* one_queue_dispatch, and one_queue_dispatch_receive with one dispatch.
Dispatch(t, q, r) ==
  /\ InUser(t) /\ Spend
  /\ q \in Queues /\ ~queue[q].destroyed                          \* EIDRM
  /\ DispatchLoop(t, q, Targets(q), r, NotGot, Targets(q))
  /\ UNCHANGED <<apps, lists, pending>>

\* one_queue_receive
Receive(t, r) ==
  /\ InUser(t)
  /\ ReceiveLoop(t, data, {}, r)
  /\ UNCHANGED <<apps, lists, pending, at, history>>

\* The user is told EINTR or ETIMEDOUT.
Fails(t) ==
  /\ pc' = [pc EXCEPT ![t] = "user"] /\ recv' = [recv EXCEPT ![t] = NoReceive]
  /\ at' = [at EXCEPT ![t] = Nowhere]
  /\ got' = [got EXCEPT ![t] = NotGot] /\ owed' = [owed EXCEPT ![t] = {}]
  /\ asleep' = asleep \ {t} /\ pending' = pending \ {t}
  /\ UNCHANGED <<apps, lists, data, ops>>

Interrupted(t) == pc[t] # "user" /\ t \in pending /\ Fails(t)

TimesOut(t) == pc[t] = "receive" /\ recv[t].timeout = "timed" /\ Fails(t)

\* Mutant: the walk goes on with the node after the one it slept at.
RestBehind(q, x) == {y \in Targets(q) : Before(q, x, y)}

\* The targets that are left of a dispatch that slept at one of them.
Rest(q, x) == {x} \cup {y \in Targets(q) : Before(q, x, y)}

DispatchResume(t) ==
  /\ pc[t] = "dispatch" /\ t \notin asleep \cup pending
  /\ DispatchLoop(t, at[t].queue, Rest(at[t].queue, at[t].target), recv[t], got[t], owed[t])
  /\ UNCHANGED <<apps, lists, pending, ops>>

ReceiveResume(t) ==
  /\ pc[t] = "receive" /\ t \notin asleep \cup pending
  /\ ReceiveLoop(t, data, {}, recv[t])
  /\ UNCHANGED <<apps, lists, pending, at, ops, history>>

\* one_queue_wakeup, OneAppTarget_WakeUp, of one queue.
WakeUp(t, x) ==
  /\ InUser(t) /\ Spend
  /\ x \in Queues /\ ~queue[x].virtual
  /\ data' = [Put(x, {x}) EXCEPT !.packets = data.packets, !.wakeup = @ \cup {x}]
  /\ asleep' = asleep \ Receivers(queue[x].owner)
  /\ UNCHANGED <<apps, lists, pc, pending, at, recv, history>>

Signal(t) ==
  /\ t \in Signalled \ pending /\ pc[t] # "user"
  /\ pending' = pending \cup {t} /\ asleep' = asleep \ {t}
  /\ UNCHANGED <<apps, lists, data, pc, at, recv, ops, history>>

-----------------------------------------------------------------------------
Init ==
  /\ apps = Apps /\ last_id = 0 /\ queue = <<>> /\ queue_attach = 0
  /\ data = [packets |-> [x \in Ids |-> 0], wakeup |-> {}, recv_data |-> [a \in Apps |-> <<>>]]
  /\ pc = [t \in Tasks |-> "user"] /\ asleep = {} /\ pending = {}
  /\ at = [t \in Tasks |-> Nowhere] /\ recv = [t \in Tasks |-> NoReceive]
  /\ got = [t \in Tasks |-> NotGot] /\ owed = [t \in Tasks |-> {}]

\* Calls of tasks that do more than receive for every queue.
Work(t) ==
  \/ \E virtual \in BOOLEAN : New(t, virtual)
  \/ \E q \in Ids : Destroy(t, q) \/ WakeUp(t, q)
  \/ \E q \in Ids : Dispatch(t, q, NoReceive) \/ \E r \in Asks : Dispatch(t, q, r)
  \/ \E q, x \in Ids : Attach(t, q, x) \/ Detach(t, q, x)
  \/ \E r \in Asks : Spend /\ Receive(t, r)

ReadAll(t) ==
  \E room \in Rooms : Receive(t, [ids |-> Ids, room |-> room, timeout |-> "none"]) /\ UNCHANGED ops

\* What a task does when it was woken.
Resume(t) == DispatchResume(t) \/ ReceiveResume(t) \/ Interrupted(t)

Next ==
  \/ \E a \in Apps : Open(a) \/ Release(a)
  \/ \E t \in Tasks \ Readers : Work(t)
  \/ \E t \in Readers : ReadAll(t)
  \/ \E t \in Tasks : Resume(t) \/ TimesOut(t) \/ Signal(t)

Spec == Init /\ [][Next]_vars

\* The scheduler runs who is awake, and the readers read what there is.
Fairness ==
  /\ \A t \in Tasks : WF_vars(Resume(t))
  /\ \A t \in Readers : WF_vars(DOMAIN data.recv_data[AppOf[t]] # {} /\ ReadAll(t))

FairSpec == Spec /\ Fairness

-----------------------------------------------------------------------------
(* Properties *)

\* Whatever is destroyed, in whatever order, and whichever application dies: a
\* node names a queue that exists and has a target, the links of receiving
\* targets name queues of their application, no queue is without an application,
\* and a destroyed queue goes with its last node.
TargetsAlive ==
  /\ \A q \in Queues :
       /\ queue[q].owner \in apps
       /\ queue[q].destroyed => DOMAIN queue[q].nodes # {}
       /\ \A x \in DOMAIN queue[q].nodes : x \in Queues /\ ~queue[x].virtual
  /\ \A a \in Apps : \A x \in DOMAIN data.recv_data[a] : x \in Queues /\ queue[x].owner = a

\* A dispatch that returns without an error has put its packet once into every
\* target that was attached all the time, also when it slept in the middle of
\* the list while nodes came and went.
ReachesAll == \A t \in Tasks : pc[t] # "dispatch" => owed[t] = {}

\* Who sleeps and should return: a sender whose target exists, and a receiver
\* one of whose targets has packets.
Overdue(t) ==
  \/ Standing(t)
  \/ pc[t] = "receive" /\ \E x \in recv[t].ids \cap Queues : queue[x].owner = AppOf[t] /\ data.packets[x] # 0

\* Senders get through once the readers have made room, receivers get what was
\* sent to them.
Flows == \A t \in Tasks : Overdue(t) ~> ~Overdue(t)
=============================================================================
