# Verification of linux-fusion

linux-fusion is a kernel module for inter-process communication.  Processes
("fusionees") enter a world and share recursive locks, properties, reference
counts, broadcast lists, shared memory pools and calls.  A second, smaller module
(`src/one`) has queues between applications.  This directory holds TLA+ models of both, the TLC instances that check them,
and proofs of their main theorems.

Contents: [the system](#the-system), [how the code becomes actions](#how-the-code-becomes-actions),
[the modules](#the-modules), [the runs](#the-runs), [fairness](#fairness),
[proofs](#proofs), [what the models show about the code](#what-the-models-show-about-the-code),
[what is not modelled](#what-is-not-modelled), [plan](#plan).

## The system

Sources are under `src/linux/drivers/char/fusion/` unless a path says otherwise.

| part | source | state | operations | what makes it correct |
|---|---|---|---|---|
| single core | `single/fusioncore_impl.c` | one global semaphore, wait queues | lock, unlock, `wq_wait`, `wq_wake` | no wake-up between a test and its sleep is lost |
| entries | `entries.c` | id -> object, a wait queue in each | create, lookup, wait, notify, destroy, permissions | ids are unique, waiters of a destroyed object learn it |
| skirmish | `skirmish.c` | holder, depth, two transfer slots, notify counter | new, prevail, swoop, dismiss, wait, notify, destroy; transfer, return, reclaim for calls | exclusion, no lost wake-up, nothing stays with the dead |
| call | `call.c` | owner, serial, executions, quotas | new, execute, return, destroy | one result for one execution, every caller answered |
| fusionee | `fusionee.c` | id, dispatcher, packet queues | enter, fork, send, read, sync, wait for processing, kill, destroy | messages arrive in order, once, and their callbacks run once |
| fusiondev | `fusiondev.c` | worlds, open files | open, ioctl, flush, release | a dead process leaves nothing behind |
| property | `property.c` | state, holder, depth | lease, purchase, cede, hold up | one holder, purchases time out |
| ref | `ref.c` | global and local counts, lock, watch, inheritors, throws | up, down, catch, throw, lock at zero, watch, inherit | the local count is the sum of its parts, zero is notified |
| reactor | `reactor.c` | attached fusionees and their counts | attach, detach, dispatch, destroy | every attached fusionee gets the message, the dispatcher learns the last processing |
| shmpool | `shmpool.c` | address ranges, attached fusionees | new, attach, detach, dispatch, destroy | pools never overlap, who is attached knows the size |
| hash | `hash.c` | nodes in buckets, size, count | create, insert, lookup, replace, remove, resize | a table holds the pairs put into it, at every size |
| list, fifo | `list.c`, `fifo.c` | links between structures | | |
| one: queues | `src/one/queue.c`, `app.c` | queues, their nodes, targets and their packets, applications | new, attach, detach, dispatch, receive, wakeup, destroy | nodes name living queues, a dispatch reaches all, senders and receivers return |
| one: entries | `src/one/entries.c` | id -> queue | create, lookup, destroy | an id names one queue |
| one: device | `src/one/onedev.c` | open files | open, ioctl, release | an application that goes leaves nothing |
| one: packets, UDP | `src/one/packet.c`, `udp.c` | buffers; peers on other hosts | write, read; send, dispatch | |

How the parts interact: an ioctl of `fusiondev.c` takes the global semaphore and
calls one operation of one part.  A part finds its object through `entries.c` and
sleeps and wakes through it or through `fusionee.c`.  `call.c` sends messages
through `fusionee.c` and hands skirmishes over through `skirmish.c`.  `ref.c`
executes calls, `reactor.c` and `shmpool.c` send a message for each node of a
list, with a callback that runs when the message was processed.  When a file is
closed, `fusionee_destroy` visits all parts and takes back what the process had;
when the master's is, the world ends.  The one module has the same shape: an
ioctl of `onedev.c` under one semaphore, queues found by `entries.c`, sleeps in
`wait_for_packets` and `wait_for_free` of an application.

Everything in the fusion module runs under one semaphore, which is released
only while a task sleeps in `fusion_core_wq_wait`.  A handler is therefore a
sequence of atomic steps cut at its sleeps, and the hard behaviours are those
between the steps: another task takes what the sleeper waits for, a signal or a
timeout comes with the wake-up, the object is destroyed, the process dies.
Calls that a signal interrupts are resumed by the user from state kept in user
space (`FusionSkirmishWait`, the serial of a call), which adds steps that no
handler sees as a whole.

## How the code becomes actions

* An action is the code from the entry of an ioctl, or from a wake-up, to the
  next sleep or to the return.  A loop around a sleep gives two actions, the
  fresh call and its resumption, which share one operator for the loop body.
* A sleeping task has its place in `pc`, the object whose queue it is on in
  `obj`, and is in `asleep` until somebody wakes it.  `wq_wake` wakes everybody;
  `wq_wait` ends for a wake, a signal or a timer, and the task then needs the
  semaphore, so between the two every other step may come.
* `Signal` stands for a signal that makes `fusion_core_wq_wait` return early and
  the ioctl `-EINTR`; `Expire` for a timer.
* `Kill` (or `Exit`) is the death of a process, `Release` the closing of its
  file, when `fusionee_destroy` cleans up.  Other tasks run between the two.
* Entry ids are given out once each, as in `entries.c`, where ids only grow.
* `Nobody` is the value 0 of a pid, a fusion id or a pointer.
* `ops`, `opens`, `MaxOps`, `MaxNotify`, `MaxCalls`, `MaxIds`, `MaxEntries`,
  `MaxQueues` are bounds of the instances: how many calls are made, and how many
  ids there are.  The code has no such bound.  Releasing calls (dismiss,
  cede, down, detach) are free.
* History variables (`held`, `notified`, `told`, `copies`, `sent`, `rights`, `late`, `got`, ...) are never read by a
  guard.  They hold what user space was told, so that properties compare the
  kernel's fields with what its callers believe.

Operators marked "Mutant" are wrong versions of the definition that follows
them, as a plausible mistake in the code would make it.  Nothing uses them; for
each checked property `PROJECT.json` names one that breaks it, which shows that
the property and the bounds of its run have teeth.

## The modules

| module | models | proofs | TLC instance |
|---|---|---|---|
| `Monitor` | what a skirmish promises (abstract) | | through `Skirmish` |
| `Skirmish` | `skirmish.c` without transfers, timers and signals of its waits, process death | `Skirmish_proofs` | `MCSkirmish` |
| `SkirmishCall` | `Skirmish` composed with `call.c`, transfers, and the message reading of `fusionee.c` | `SkirmishCall_proofs` | `MCSkirmishCall` |
| `Property` | `property.c` | `Property_proofs` | `MCProperty` |
| `Ref` | `ref.c` | `Ref_proofs` | `MCRef` |
| `Messages` | the message queues of `fusionee.c` | `Messages_proofs` | `MCMessages` |
| `SHMPool` | `shmpool.c` | `SHMPool_proofs` | `MCSHMPool` |
| `Hash` | `hash.c`, as operators | first part of `Quota_proofs` | through `MCWorld` |
| `World` | the life of a world: `fusiondev.c`, the rest of `fusionee.c`, `entries.c` | | through `MCWorld` |
| `Reactor` | `World` with `reactor.c` | | through `MCWorld` |
| `Quota` | `Reactor` with the quotas and batches of `call.c` and `fusiondev.c` | `Quota_proofs` | `MCWorld` |
| `OneQueue` | `src/one`: queues, applications, open and release | `OneQueue_proofs` | `MCOne` |

### Skirmish and Monitor

State: the fields of `FusionSkirmish` as functions of the id, `wait` for the
`FusionSkirmishWait` that user space keeps.  `New`, `PrevailOwned`,
`PrevailFree`, `PrevailBlock` and `PrevailResume` are `fusion_skirmish_prevail`
(`skirmish.c:226-333`), split where its conditions split; `Swoop`, `Dismiss`,
`Destroy` and `Notify` are the functions of these names.  `fusion_skirmish_wait_`
is `WaitFresh` up to its sleep, `WaitResume` after it, `WaitAgain` when user
space calls again after `EINTR`, `WaitFails` for its error returns and
`RelockResume` for the loop that takes the lock back.  `DismissAllFromPid` and
`DismissAll` are what `flush` and `fusionee_destroy` do for a dead process.

`Monitor` is a lock with a condition and no queues: who owns it, how deep, who
waits with which depth saved and who is due to return.  `Skirmish` implements it
(`ImplementsMonitor`) with `owner <- lock_pid`, the saved depth from
`FusionSkirmishWait` and `due <- notified`.  The promise worth having is there:
a wait gives up all levels at once, and returns as owner of exactly these levels
and only after a notification or its timer, or with an error and nothing.

### SkirmishCall

Extends `Skirmish` with calls.  `Execute` (`call.c:267-385`) sends the message,
lends the locks of the caller (`TransferAll`) and sleeps; `CallResume` goes on
with the result, `CallInterrupted` returns `EINTR` and `ExecuteAgain` comes back
with the serial (`fusion_call_execute2`/`3`).  `Read` and `Serve` are the
dispatcher of the callee, `Return` is `fusion_call_return3` with
`fusion_skirmish_return_all`, `CallDestroy` and `DestroyResume` are
`fusion_call_destroy`, which waits for executions.  Locks cross a call with
`TransferAll`, `GivenBack` and `ReclaimAll`; a nested call uses the second slot.
`oops` records a `FUSION_ASSERT` of `skirmish.c` that fails: the task dies with
the semaphore held, so nothing happens after it.

Simplifications: every fusionee has at most one dispatcher, which takes lent
locks only while it serves the call they came with, gives locks up before it
returns, and returns every call it reads; a user resumes an interrupted call
before it makes another (`NoneOpen`).  Message queues are those of `Messages`
reduced to a sequence of calls; a slowed-down sender has lent nothing yet.

### Property

`Attempt` is one pass of the loop that `fusion_property_lease` and
`fusion_property_purchase` share; `Ask` is the call and `Resume` a pass after a
sleep.  `armed`/`timed` tell the local timeout that a call has set from the one
that a given sleep was passed, which is the point of `property.c:124-148`: the
timeout is decided anew after each wake-up.  `age` is the age of the purchase in
the classes the code compares.  `Holdup` lets the master kill a purchaser, whose
property is ceded by `CedeAll` on `Release`.

### Ref

`Change` is `add_local`, `Propagate` is `propagate_local` with its recursion
over the inheritors written as the set `Above` a reference, `Notify` is
`notify_ref`.  `Up`, `Down`, `Throw`, `Catch`, `ZeroLock`, `ZeroTrylock`,
`ZeroUnlock`, `Watch`, `Inherit`, `Destroy` and `Fork` are the operations,
`ClearLocal` what a dead fusionee loses.  Inheritance is a forest: the code refuses
a second `inherit` of a reference, and its users make no circle.

### Messages

A packet holds `PacketSize` messages where the code has 16 KB.  `Put` fills the last
packet, or closes it (`FlushLast`) and starts another.  `Attempt` is one
pass of `fusionee_send_message2`: throttled when the queue has more than `Limit`
packets (10 in the code), delivered otherwise.  `Receive`, `Poll` and
`ResumeReceive` are `fusionee_get_messages`: first the callbacks of what was read
before run, then the dispatcher waits until a packet is readable, then it reads
what fits.  `Read` puts what has callbacks after what another task of the process
has read while the dispatcher slept.  `Sync` waits until both queues are empty and the dispatcher waits
for more.  `fusionee_wait_processing` has no caller and is left out.

### SHMPool

Addresses are numbers of bytes.  `New` reserves what `End` computes, a page
behind the pool and then up to 64 KB; `TrailFree` is the search for the highest
`next_base` when a pool goes.  `IntMax` stands for 2^31 - 1, the width in which
`PAGE_ALIGN(max_size)` is computed (`shmpool.c:128`).  `nodes` is the list of
attachments, the latest first.  `Walk` is the loop of `fusion_shmpool_dispatch`
from a node on: each message is sent, or the loop sleeps in the queue of a
fusionee, whose list position `Position` finds again.  Whether a queue is full
is a free choice (`Messages` models it); the master as a sender is never slowed
down.  `Attach` and `Fork` come at any time, also while a dispatch sleeps, and put
their node in front of the list.  Who attaches is told the size by the call itself;
a child is not, which `copies` records: who was attached by a fork since the last
dispatch of a pool began.

### Hash, World, Reactor and Quota

Four layers, each of which extends the one before; `Quota` closes the
specification, and `MCWorld` is its instance.

`Hash` is `hash.c` as operators on a record: size, number of nodes, and the nodes
of each bucket.  A bucket is a set, as the order of a chain only decides how long
a lookup takes.  `HashInsert` may grow the table first (`ShouldResize`,
`HashResize`), and the table is used through the operators only.

`World` is a device: `Open`, `Enter` with its sleep until the master has unblocked
the lounge, `Unblock`, `FusioneeKill` with its three ways to wait, `Exit` and
`Release` with the master's wait for those it kills, and `EndOfWorld`, after which
the next open makes a new one.  Entries of each kind have a list, a hash table
and permissions (`CheckPermissions`, `Permitted`).  A file is used by one process
with one ioctl thread and, in `Quota`, one thread that reads messages; before it
enters it makes no other call.  Killing is SIGKILL, the signal of `FUSION_KILL`.
The id of the master is read from the fusionee just freed
(`fusionee.c:1044-1046`); the model takes it as still there.  `AddPermissions` takes any
fusion id, as `entries.c:357-393` does: one that somebody has, 0 for everybody, one
whose process is gone, or one that nobody has had yet.  Of who opens the device when the
master of its world leaves, `late` keeps those who came while it waited in its release,
and `orphans` those who came after its end.

`Reactor` keeps the nodes of a reactor as counts per fusion id and channel.  A
`Dispatch` with a callback call sends a message to each node; when the last
recipient has processed it or has gone, the call is executed (`Processed`).  Of
the queues of `Messages` only the callbacks are kept, in `inbox` and `prev`, what
was read and is being processed.  A process that has a node of its own does not
`Fork`: the code would give it a second.

`Quota` adds `fusion_call_set_quota` and the batches of `FUSION_CALL_EXECUTE3`: a
batch stops where the quota of its caller is used up, sleeps, and marks what was
sent (`FCEF_DONE`), so that the ioctl repeated after a signal goes on with the
rest.  Each message carries a callback that gives the quota its room back.  When a
call goes, the callbacks with its quotas are taken out of all queues and the messages
stay (`Unquoted`, `NoCallback`, `fusionee.c:827-865`).  A reactor that goes leaves the
callbacks of its dispatches in the queues (`reactor.c:90-95`): they run when their
messages are processed, and find no reactor (`Processed`).  Calls that reactors execute
have no quotas.

### OneQueue

A queue keeps packets in a target of its application, or is virtual and has
nodes, each with the target of another queue.  A list is a function from its
elements to numbers that order them.  `DispatchLoop` is the walk of
`one_queue_dispatch` over the nodes: `Put` serves those before the first full one,
where the walk sleeps in `wait_for_free` of the target's application;
`DispatchResume` goes on with that node.  `ReceiveLoop` is `OneApp_Receive`, over the
receiving targets that the caller named, as far as its buffer has room.
`Attach`, `Detach`, `Destroy`, `WakeUp`, `Open` and `Release` are the functions and file
operations; `Gone` is what goes with a queue, through `one_queue_detach_all` and the
destroyed queues that lose their last node with it.

Assumptions: one device and local queues (`one_core_is_local` of the single core is
always true); ids are allocated (`queue_id` 0) and no queue outlives its
application (flag `0x10000000`); packets are a count and the room of a buffer is a
number of packets; a batch has at most one dispatch before its receive; readers
ask for the queues of all ids, each named once (a receive that names an id twice may
unlink a target twice from the receiving ones, `app.c:326-350`).  Steps that free what a standing dispatcher is
about to use are left out (`Still`, `StillRelease`, the guard of `Detach`), as the code
does not look (`queue.c:424-436`).

## The runs

Every run is a `.cfg` of the MC module of its name.  `CHECK_DEADLOCK FALSE`
everywhere: users that have made their bounded number of calls stop, and a
blocked lock whose holder keeps it is no error.  Progress is stated by the
liveness properties instead.

| run | cfg | question | bounds, and why they are enough |
|---|---|---|---|
| `skirmish` | `MCSkirmish` | Is the lock exclusive, is no wake-up or notification lost, is nothing left with the dead, does it implement `Monitor`, and does everybody get it in the end? | 1 skirmish, 3 tasks in 2 processes (so that two threads of one process compete); `DeepOps` lets one task wait with depth 2, resume and compete with both others; everybody may die |
| `calls` | `MCCalls` | Do locks keep owner and depth through nested calls? | client, two dispatchers, 2 skirmishes, nesting 2 (both slots), 2 calls per task, signals to the client and to the nested caller; no deaths, no waits |
| `calls_deaths` | `MCCallsDeaths` | With deaths, signals, a destroyer, failing returns, waits and swoops: does anybody sleep on what has happened, is a message served twice, do calls and destroyers return? | 1 skirmish, 1 call, the client and the dispatcher mortal and signalled, a third task that destroys the call and wants the lock: one call is enough, as an execution waits for no other |
| `property` | `MCProperty` | One owner, limited waits, nothing left behind | master and a process of two threads, 2 asks per task: the smallest in which a lease turns into a purchase under a sleeping waiter |
| `ref` | `MCRef` | Is the count the sum of its parts, is zero told? | 2 references (one may inherit from the other), 2 processes, 3 counting calls, one fork |
| `messages` | `MCMessages` | Are messages read once and in order, callbacks run once and in time, syncs right, and does everybody return? | 2 processes that send to each other, 4 sends or syncs, 2 messages to a packet, senders slowed down from the second packet on, both mortal |
| `shmpool` | `MCSHMPool` | Are pools disjoint, space reused, attached processes informed? | 3 ids, room for two small pools or one large one, sizes of exactly 64 KB with the page behind and one byte more, 6 calls of three processes |
| `world` | `MCWorld` | Do lists and tables agree, is every right granted by somebody, does nobody outlive the master, are callbacks counted and run once, batches sent once, and does everybody return? | 3 files, of which 2 mortal and 1 signalled; either a fresh device with 3 opens, which reaches an end and a second world, or a running world with a call, a quota of 1, a reactor and 2 calls, or 1 call and 1 open; limits 0 and 2, batches of 2; tables of 3 buckets with primes 2, 3, 5, so that the second entry of a kind resizes them |
| `one` | `MCOne` | Do nodes name living queues, does a dispatch reach all, do senders and receivers return? | 2 applications with a reader and a worker each, 3 queues, full after one packet, buffers of one packet, 3 calls; from a fresh device or from one with a virtual queue over both applications, also destroyed and with a full target; one application closes and opens again, one worker gets signals |
| `call_wait_relock` | `CallWaitRelock` | violation, see below | |
| `ref_fork` | `RefFork` | violation, see below | |
| `shmpool_wrap` | `SHMPoolWrap` | violation, see below; `IntMax` is 131071, so that TLC's integers hold the space | |

The instances of `world` and `one` also start in states that their specification
reaches from `Init` in more calls than the bounds allow: a world that runs, and
applications with queues.  Where the budgets (`opens`, `ops`) are used up, only
woken tasks, readers and deaths go on.

Type invariants are part of the proofs, and no run spends time on them.  The
properties:

* `HeldIsLock`, `LocksConserved`, `HeldIsOwned`: what return codes told a task is
  what the fields say, through recursion, waits, interrupts, lending and death.
* `NoLostWakeup`, `NoSleepOnEvent`, `NoSleepAtZero`: nobody sleeps on a condition that has come true.
* `NotifyReachesAll`: also a waiter that a signal sent through user space.
* `NoOrphanedLock`, `NoOrphan`: nothing is left with a released process.
* `LentToCallee`, `AssertionsHold`: a lent lock is taken by its
  callee alone, and the code's own assertions hold.
* `ServedOnce`: a call is in a queue, being served or answered, once.
* `UntimedOnLease`: nobody sleeps without a limit on a purchase.
* `LocalIsSum`, `LockedIsBare`, `WatchFollowsZero`: the local count is the sum of
  what fusionees hold, throws and inheritance; a lock at zero keeps others from
  counting; the call of a watch is executed exactly in the steps in which the
  reference falls to zero.
* `ReadInOrder`, `CallbackOnceProcessed`, `SyncIsIdle`: each message is read once and
  in order, its callback runs once and after it was processed, and a sync that
  returns has left nothing.
* `Disjoint`: a page lies between any two pools; `Informed`: who has attached to a
  pool that nobody dispatches has heard of its size, however the list of nodes changed
  while the dispatch slept; a child that a fork has attached hears of the dispatches
  that begin after the fork.
* `TablesAgree`: the list and the hash table of a kind hold the same entries.
  `RightsAreGranted`: what a process is permitted, it created or was given itself, or
  it was given to everybody, or ahead to the id with which the process then entered; an
  id that came back, of a process or of an entry, would bring rights along.
* `NoSurvivor`: when the master is gone, who opened the device before it began to leave
  was killed or exits, whether it had entered or not.  Who opened while the master waited
  for that may be left only when a signal ended the wait, who opened later always.
* `CallbacksCounted`: a dispatch and a quota count the messages outstanding for them,
  whoever died or was destroyed.  `FiredOnceAfterAll`: the call of a dispatch is
  executed once, after all its recipients.
* `BatchOnce`: cut by quotas and signals and repeated, a batch is sent once and in
  order.
* `TargetsAlive`, `ReachesAll`: nodes and links name queues that exist; a dispatch that
  returns without an error has put its packet once into every target that was
  attached all the time, also when it slept half-way while nodes came and went.
* Liveness: `LockersReturn` (every prevail and every notified or timed wait),
  `CallEnds`, `DestroyEnds`, `AskReturns`, `QueueReturns`, `CallbackRuns`, `SleepersReturn`
  (who sleeps to enter, to see others die, or on a quota), `Flows` (senders and
  receivers of queues).

## Fairness

All fairness is weak, on steps that nothing but the scheduler or a timer
decides, and on what every user of these locks is obliged to do:

* a task that was woken runs (`Resume`, `CallResume`, `DestroyResume`,
  `SkirmishResume`): the kernel's scheduler;
* a timer runs out (`Expire`), the file of a dead process is closed (`Release`,
  `Exit`, `CallRelease`): the kernel;
* a user whose call was interrupted makes it again (`WaitAgain`,
  `ExecuteAgain`), as libfusion does in a loop around each ioctl;
* who holds a skirmish or a lease gives it back (`Dismiss`, `Cede` of leases).
  Purchases may be kept for ever, and `AskReturns` holds all the same;
* who was killed dies, closes its file and so releases what it had (`Exit`,
  `Release`), and in `World` the master unblocks those who wait to enter: nothing else
  lets them in;
* a dispatcher reads and returns the calls it read (`Read`, `Return`,
  `Receive`).  In `OneQueue` a reader reads while one of its targets is linked.  In `Messages` it also blocks for messages in the end: a
  dispatcher that only polls never lets a sync return.

Signals are not fair.  `LockersReturn` assumes that they stop, as each sends the
waiter through user space.  Acquisitions are bounded by `MaxOps`; with unbounded
ones a woken locker can be overtaken for ever, as the code has no queue order.
`QueueReturns` excepts senders whose recipient dies (see below).  `CallEnds` and
`DestroyEnds` except what the code leaves asleep: executions freed by the death of the
owner or a failing return, answers that an interrupted or dead caller abandoned.
`SleepersReturn` excepts those who opened after the master had left, or during a wait of
its release that a signal ended (no master unblocks them or kills them), a quota whose limit is 0, and a call that is destroyed.  `Flows`
excepts a sender whose target went with its application.

## Proofs

The theorems hold for every number of tasks, fusionees and objects and without
bounds on the depth of locks and counts.  Assumptions are the `ASSUME`s of the
modules: ids, pids and fusion ids differ from 0, every task has a fusionee,
bounds are numbers.

* `Skirmish_proofs`: `TypeCorrect`, `Exclusion` (`HeldIsLock`), `NoOrphans`
  (`NoOrphanedLock`), `WakeUps` (`NoLostWakeup`), `Notifications`
  (`NotifyReachesAll`), `MonitorImplemented` (`ImplementsMonitor`).  `HeldIsLock` is
  not inductive: one needs that the fields of a lock agree (`LockShape`), that what a task keeps inside a wait fits to the
  entry it sleeps on (`WaitShape`), and that a released fusionee runs no more
  (`ReleasedDead`).  For the wake-ups, `Counted` says how the counter in
  `FusionSkirmishWait` compares to that of the entry for each waiter: it is the
  reason why a wait that is resumed after a signal still sees a notification.
  `MonitorImplemented` maps every action to one of the Monitor or to a stutter.  It
  needs all of these and `MonitorInv`: a waiter whose counter is behind was notified, who
  takes the lock back was notified or timed out (`Earned`), and without calls no lock is
  marked as given back (`NeverReturned`).
* `SkirmishCall_proofs`: `CallsServedOnce` (`ServedOnce`) and `NobodySleepsOnEvent`
  (`NoSleepOnEvent`) hold for every `CallSpec`.  `MsgInv`: a message is in the queue of
  its callee, or served by one task of it, and never when its execution has a result.
  `SleepInv` says of each place where a task may sleep which event it still lacks, and
  `WaitInv` carries the counter argument of `Skirmish` over to calls.
  `LentLocksConserved` (`LocksConserved`), `LentToTheCallee` (`LentToCallee`) and
  `LendingNeverAsserts` (`AssertionsHold`) assume `Undisturbed`: nobody dies, waits on a
  skirmish or returns too much, interrupted callers call again, who reads messages does not
  swoop, and a process has one dispatcher.  These are the conditions under which the code
  keeps its promise: TLC finds the violations when one of the first five is
  lifted in `MCCalls` (see below), and `MCCalls` meets them all.  Destroyers, signals at any time
  and swoops of others are allowed.  `KeptInv` is the invariant: an execution
  belongs to the caller that waits for it (`CallerInv`); a filled slot belongs to
  such a call, the second to one nested in the first (`SlotInv`); a lock is marked as
  given back exactly from the result to the reclaim, and is otherwise free or taken by the
  dispatcher of the innermost callee (`TakenInv`); and what a task holds is the depth
  of the lock or of the slot that keeps it (`HeldInv`).
* `Property_proofs`: `TypeCorrect`, `Exclusion`, `WakeUps`, `Timers`
  (`UntimedOnLease`), `NoOrphans`, from one invariant; `Shape` says that owner,
  owning fusionee, count and state agree.  `UntimedOnLease` needs `NoLostWakeup`:
  a lease becomes a purchase only through a free property, which wakes everybody.
* `Ref_proofs`: `TypeCorrect` (of `Typed`, the type invariant without the bound
  that is a sum), `WakeUps` (`NoSleepAtZero`), `NoOrphans`, `WatchCalls`
  (`WatchFollowsZero`).  These hold for every `diff` that is propagated.
  `CountsAreSums` (`LocalIsSum`), `AllTyped` (`TypeOK`) and `LockedAreBare` (`LockedIsBare`)
  hold for every finite number of references and fusionees (both are counted in ints).
  `HeirInv` adds that inheritance is a forest, by a rank that falls towards the roots
  (`ForestInv`), and that the local count of a reference is its sum (`SumInv`).  The
  recursion of `propagate_local` is the least set `Above` a reference, about which `AboveIs`
  proves the recursive equation; laws of sums are proved by induction over finite
  sets, with the set of those for which the law holds in place of an operator.
  `LockedIsBare` follows from the sum at the step that locks: a sum of numbers is 0 only
  where all are.
* `SHMPool_proofs`: `PoolsDisjoint`, `PoolsFit`, `SpaceReclaimed`, `TypeCorrect`
  under `NoWrap` (no size overflows an int when it is aligned), and `NoOrphans`.
  `Disjoint` needs `Layout`: pools lie below `addr_base`, each ends a page before
  its `next_base`, and of two pools one begins at or after the `next_base` of the
  other; with `Reclaimed`, the free address is then above all that is left.
  `Fits`, `Reclaimed` and `NoOrphan` are proved and in no run; they hold in the
  instance of `MCSHMPool.cfg` as well.
  `Walking` says that who sleeps in a dispatch waits for a fusionee that is on
  the list of an existing pool, so that the walk finds its place again.
  `SizesKnown` (`Informed`) needs no `NoWrap`.  `PoolInformed` says that one dispatch of a
  pool stands at a time, with its size, and has told all that come `Before` its place in
  the list, however the list changed while it slept, but for the copies that a fork has
  put there.
* `Messages_proofs`: `MessagesInOrder` (`ReadInOrder`), `CallbacksOnce`
  (`CallbackOnceProcessed`) and `SyncsWhenIdle` (`SyncIsIdle`), for any number of processes
  and tasks, packets of any size, any limit.  Lemmas on flattened sequences carry
  the packets over to messages.  `Ordered` numbers the messages of each queue;
  `OncePlaced` says of the callback of a context that it is nowhere, at one place of
  one queue, or in the hands of one sender, and that it ran only in the first case.
  `SyncsWhenIdle` assumes `OneDispatcher`, that one task reads the messages of a
  process, as in `MCMessages`.  With two, a sync returns while the other still processes
  what it read, as the flag is per process: TLC shows it when two tasks of `f1`
  dispatch.  `WaitInv` then says that who waits to receive works on nothing.
* `Quota_proofs`, hash tables: `CreateHolds`, `InsertHolds`, `ReplaceHolds`, `RemoveHolds`,
  `RemoveAllHolds`, `ResizeHolds` and `LookupFinds`.  `Holds(h, P)` is the abstraction: the table
  is the one, for some size, that holds the set of pairs P, each in its bucket, and
  counts them.  Every operation maps a table that holds P to one that holds what
  it should, for all sizes and primes, and a lookup finds the value of a key or
  nothing.
* `Quota_proofs`, worlds: `TablesCorrect` (`TablesAgree`), `RightsCorrect` (`RightsAreGranted`) and
  `NobodySurvives` (`NoSurvivor`), for every number of files, kinds, rights and
  entries, through all actions of `World`, `Reactor` and `Quota`.  `WorldInv` carries
  them: `refs` counts the open files, ids are unique and at most `last_id`, members are
  open, a file that releases is the master and no member.  `TablesInv` uses the theorems
  on `Hash`; `RightsInv` needs that an id is never given twice in a world, and says of each
  id that comes later which rights were given to it ahead.  `NoSurvivor` is inductive with
  `WorldInv`: a release that ends without a signal has nobody left to kill, so that it
  forgets the latecomers.
  `CountersAreExact` (`CallbacksCounted`), `DispatchReportsOnce` (`FiredOnceAfterAll`) and
  `BatchSentOnce` (`BatchOnce`) need `FullInv`.  `CountInv`: every callback in a queue is
  that of a dispatch or of a quota that exists, in a queue of its recipient
  (`QueueInv`); only members have queues, nodes and calls (`NodesInv`, `OwnerInv`,
  `Present`); and the count of a quota, and of a dispatch whose reactor exists, is the
  number of places of its callback (`DispatchInv`, `QuotaInv`).  `BatchInv`: what
  a batch has sent is a prefix of it, as long as its marks say.
* `OneQueue_proofs`: `TargetsStayAlive` (`TargetsAlive`) and `DispatchReachesAll`
  (`ReachesAll`), for every number of applications, tasks and queues and every limit.
  `ReachesAll` is not inductive: `Halfway` says that what a sleeping dispatch owes, it has
  put exactly into the targets before the one it stands on, which needs that places
  order the nodes (`NodesInv`) and that there is a first full target (`FirstFullIsFirst`,
  from the well-foundedness of the naturals).  `Stranded` says that a dispatch
  whose target is gone is only woken by a signal, and so never goes on.

Every invariant and every safety property of the passing runs is a theorem.  Only
model-checked are the liveness properties (`LockersReturn`, `CallEnds`, `DestroyEnds`, `AskReturns`, `QueueReturns`,
`CallbackRuns`, `SleepersReturn`, `Flows`), as fairness and ENABLED are out of reach of
TLAPS, and the properties of the runs that find a violation, which do not hold.

## What the models show about the code

Checked by a run that finds the violation:

* `call_wait_relock`: `fusion_skirmish_wait_` takes the lock back when `lock_pid`
  is 0 (`skirmish.c:563`) and does not look at transfers as prevail does.  A
  waiter takes a lock that is lent, and `FUSION_ASSERT(skirmish->lock_count == 0)`
  (`skirmish.c:838`) fails in the callee's return.
* `ref_fork`: `fork_local` counts the reference for the parent
  (`ref.c:591`), not for the child and not in the sum; when the parent leaves,
  `FUSION_ASSERT( ref->local >= 0)` (`ref.c:646`) fails.
* `shmpool_wrap`: a pool whose size lies in the last page below 2^31 is aligned to
  a negative number (`shmpool.c:128`) and the next pool overlaps it.

Found on the way; each can be seen by changing an instance as said:

* `SkirmishCall` with the constants of `CallWaitRelock.cfg`, one operation per task,
  `Waiters = {}` and
  - `Mortals = {t2}`, `NoReturnFromAssert`: the callee dies between its return and
    the reclaim, `lock_pid` is -1 and the assertion of `skirmish.c:881` wants 0;
  - `Swoopers = {t2}`, `NoReclaimAssert`: a swoop reads `lock_fid`, 0 between return
    and reclaim (`skirmish.c:348`);
  - `Mortals = {t1}`, `Signalled = {t1}`, `LentToCallee`: an interrupted caller
    dies after the callee returned and the lock stays at -1;
  - `Mortals = {t2}` under `CallFairSpec`, `CallEnds`: when the owner of a call dies
    its callers are woken without a result and sleep again (`call.c:1055`);
  - `Misreturns = {t2}` under `CallFairSpec`, `CallEnds`: a result that is too long
    frees the execution and leaves the caller asleep (`call.c:919`);
  - `Destroyers = {t2}` under `CallFairSpec`, `DestroyEnds`: a dispatcher that
    destroys the call it serves waits for itself.
  In `MCCallsDeaths`, without its exceptions, `DestroyEnds` also fails for an answered
  execution whose caller died, or was interrupted in a call it cannot resume: it keeps
  `fusion_call_destroy` waiting for ever (`call.c:1029`), and a lock that was lent and
  returned with it is never reclaimed.
* `Ref` with `MCRef.cfg`: `NoSleepAtWatched` fails, as `notify_ref` executes the
  call of a watched reference instead of waking who waits in `zero_lock`
  (`ref.c:618`; `fusion.tmpl:705` gives them `EACCES` only when the watch came
  first), and
  `LockedIsZero` fails, as a locked reference may inherit a count
  (`fusion.tmpl:697` says counts are not modifiable).
* `SHMPool` with `MCSHMPool.cfg` and `AllInformed`, which says what `fusion.tmpl:1241`
  does: a dispatch "will send a message to all attached fusionees".
  - `Signalled = {}`, `Mortals = {}`: a fork puts the node of the child in front of
    the list (`shmpool.c:413`).  When a dispatch sleeps at that time in a full queue
    (`shmpool.c:300`), it goes on behind this node and never tells the child;
  - `Forkers = {}`: a signal ends a throttled message of a dispatch and the error is
    ignored (`shmpool.c:300`).

  It holds with all three empty.
* `World`: rights may be granted to a fusion id that nobody has had yet
  (`entries.c:357-393`), and who enters with it has them: `RightsAreGranted` without its
  third case fails in `MCWorld`.  A signal ends the wait of a master in its release
  (`fusionee.c:980`), and who opened the device during this wait is not killed:
  `NoSurvivor` without `late` fails.
* `Messages`: a recipient that dies wakes nobody who waits in its queue, which is
  the exception in `QueueReturns`.  Two dispatchers other than the master that
  both send from their handlers may be slowed down by each other for ever; in
  `MCMessages` one process is the master, which is never slowed down.
* `Quota`: `fusion_reactor_detach` counts a channel down that was not attached to
  (`reactor.c:225`), so counts get negative and a later attach leaves the node deaf.
  A destroyed call frees the quota on whose wait queue a caller sleeps
  (`call.c:146`), which is the exception of `SleepersReturn`.
* `OneQueue`: a sender whose target goes with the release of its application is
  never woken (`Stranded`), nor is a receiver whose queue is destroyed.  A dispatch that a
  signal interrupts half-way has served the first targets, so that a user who
  repeats it sends the packet twice.  One receiver takes the flag of `WakeUp`, others
  that it woke sleep again.

## What is not modelled

* Memory allocation failures, failing copies from and to user space (undone at
  once, under the semaphore), `/proc`, statistics, `mmap` and the shared root areas,
  poll of an empty world.
* Reads of freed memory: where the code may use an object after it was freed
  (`fusion_call_destroy` after its sleep, a sender in the queue of a dead
  fusionee, a dispatch whose node was detached), the model either looks the object
  up again or, in `SHMPool`, lets the destroy, the detach or the release wait (`Still`,
  `Quiet`; a fork frees nothing and does not wait).  `receive_from` reads the header of a
  packet that it has just freed (`src/one/app.c:276-279`), whose size `OneQueue` does not
  model.
* The end of a world in more than one step: `fusiondev_deinit` drops the semaphore
  before it frees the objects (`fusiondev.c:258`), so that an open in between would get
  a world that is being freed.
* A reactor whose dispatch is slowed down: no queue of `Quota` gets the eleven packets.
  Interrupted there, the count of the dispatch includes a message that was not sent
  (`reactor.c:329`).
* Counters that wrap after 2^32 steps (`notify_count`, serials), and pids above 16
  bits, which collide with the core index (`fusioncore_impl.c:69`).
* Protocol errors of users: a fork by a process that has attached already, two
  dispatches of a pool without the users' lock, destroying a skirmish one holds,
  a dispatcher that sends or syncs on itself before its first read.  A second enter
  gives the file another id (`fusionee.c:507`): its rights and objects stay with the
  first, and a master that does it is master no more and kills nobody when it leaves.
* A thread that dies while its process lives keeps its property: `property.c` has
  no hook for it, so the model has no such step.
* The synchronous watch of references: its call sleeps inside the walk over the
  inheritors (`ref.c:637`), whose links its handler may free.
* 32-bit builds share one address space between worlds
  (`FUSION_SHM_PER_WORLD_SPACE`, `shmpool.h:21`); `SHMPool` is one world.
* Of `src/one`: the UDP transport and everything remote, which nothing of the single
  core calls; ids given by the user (`queue.c:191-212` creates a second entry with the
  id, though `one.h` says that this fails); queues that outlive their application
  (flag `0x10000000`), whose target points to the freed one; failing allocations.
  `one_queue_destroy_all` may hold the next queue in hand when a nested detach frees it
  (`queue.c:655`, `687`); the model destroys all.
* Containers of links (`list.c`, `fifo.c`): the models use sets, sequences and functions.
  Public headers, tests and build files.

## Plan

Done, in this order: `Skirmish` with `Monitor`, `SkirmishCall`, `Property`, `Ref`,
`Messages`, `SHMPool`, `Hash`, `World` with `Reactor` and `Quota`, `OneQueue`, and the proofs
named above: each invariant, each action property and the refinement of `Monitor`.

Left:

1. Proofs: `SkirmishCall` with several dispatchers in a process, and which of
   its locks are conserved when somebody dies; that the table of `Hash` has no longer chains
   than its size allows.
2. `Ref`: the synchronous watch and `set_sync`, composed with `SkirmishCall`.
3. `Reactor` on the packets of `Messages`, so that a dispatch may be slowed down.
4. The end of a world in two steps.
5. `OneQueue`: ids given by the user, and queues that outlive their application.
