------------------------------ MODULE Messages ------------------------------
(***************************************************************************)
(* The message queues of fusionees (fusionee.c).  A fusionee's dispatcher  *)
(* reads packets of messages; when it comes back for more, what it read    *)
(* before has been processed and the callbacks of those messages run.      *)
(* Senders are slowed down when a queue gets long, and a task can wait     *)
(* until the dispatcher of its process has processed everything.           *)
(*                                                                         *)
(* A packet takes PacketSize messages here, in place of 16 KB.  Messages   *)
(* are numbered for each recipient.                                        *)
(***************************************************************************)
EXTENDS Naturals, FiniteSets, SequencesExt

CONSTANTS
  Tasks,       \* kernel tasks (pids)
  Fusionees,   \* fusion ids
  Owner,       \* the fusionee whose file descriptor a task uses
  Dispatchers, \* the task that reads the messages of each fusionee
  Senders,     \* tasks that send and sync
  Master,      \* the fusionee with id 1, with which the world ends
  Mortals,     \* fusionees that may be killed
  Contexts,    \* the contexts of callbacks, one for each
  Nobody,      \* the value 0 of a pid or a fusion id
  PacketSize,  \* messages that fit into a packet
  Limit,       \* packets beyond which senders wait (10 in the code)
  MaxOps       \* bound: messages and syncs of each sender

ASSUME MessagesAssumption ==
  /\ Nobody \notin Tasks \cup Fusionees \cup Contexts
  /\ Owner \in [Tasks -> Fusionees]
  /\ Dispatchers \subseteq Tasks /\ Senders \subseteq Tasks
  /\ PacketSize \in Nat \ {0} /\ Limit \in Nat \ {0} /\ MaxOps \in [Tasks -> Nat]

VARIABLES
  live,           \* fusionees in the list of the world
  packets, prev,  \* the packets to read, those read last that have callbacks
  waiting, dispatcher_pid,
  pc,             \* where a task is: "user", "receive", "send", "sync"
  obj,            \* the fusionee whose queue it waits for
  arg,            \* the message it sends
  asleep,         \* tasks that schedule() has not let continue yet
  killed,         \* fusionees whose process is dying
  ops,            \* bound: calls a sender has left
  sent, got,      \* history: how many messages were put and read
  processing,     \* history: what was read and is still worked on
  ran             \* history: how often the callback of a context ran

queues  == <<packets, prev, sent, got, processing, ran>>
readers == <<waiting, dispatcher_pid>>
tasks   == <<pc, obj, arg>>
vars    == <<live, queues, readers, tasks, asleep, killed, ops>>

InUser(t) == pc[t] = "user" /\ Owner[t] \notin killed

Spend(t) == ops[t] > 0 /\ ops' = [ops EXCEPT ![t] = @ - 1]

NoMessage == [n |-> 0, cb |-> Nobody, flush |-> FALSE]

HasCallback(m) == m.cb # Nobody

\* The messages of a sequence of packets.
Content(q) == FlattenSeq([i \in 1..Len(q) |-> q[i].msgs])

\* Where the callback of a context is in a sequence of messages, and how often.
At(c, s)    == {i \in 1..Len(s) : s[i].cb = c}
Times(c, s) == Cardinality(At(c, s))

-----------------------------------------------------------------------------
(* Queues *)

\* Mutant: a full packet is filled again.
PutOver(q, m) ==
  IF q # <<>> THEN Front(q) \o <<[msgs |-> Append(Tail(Last(q).msgs), m), flush |-> Last(q).flush \/ m.flush]>>
  ELSE Append(q, [msgs |-> <<m>>, flush |-> m.flush])

\* The last packet is closed: it may be read now.
FlushLast(q) == Front(q) \o <<[msgs |-> Last(q).msgs, flush |-> TRUE]>>

\* Fusionee_GetPacket and Packet_Write: a message goes into the last packet, or
\* closes it and starts another.
Put(q, m) ==
  IF q # <<>> /\ Len(Last(q).msgs) < PacketSize
  THEN Front(q) \o <<[msgs |-> Append(Last(q).msgs, m), flush |-> Last(q).flush \/ m.flush]>>
  ELSE LET closed == IF q = <<>> THEN q ELSE FlushLast(q)
       IN  Append(closed, [msgs |-> <<m>>, flush |-> m.flush])

\* Mutant: the last packet read stays.
RemainingOne(q, k) == SubSeq(q, k, Len(q))

\* A queue of which k packets were read.
Remaining(q, k) == SubSeq(q, k + 1, Len(q))

Readable(q) == q # <<>> /\ q[1].flush

\* The numbers of packets that one read may return, as far as the buffer goes.
ReadSizes(q) == {k \in 1..Len(q) : \A i \in 1..k : q[i].flush}

\* Mutant: the packets read are forgotten with their callbacks.
KeptNone(q) == <<>>

\* What is left of a packet until its callbacks have run.
KeptOf(p) == IF \E j \in 1..Len(p.msgs) : HasCallback(p.msgs[j]) THEN <<p>> ELSE <<>>
Kept(q)   == FlattenSeq([i \in 1..Len(q) |-> KeptOf(q[i])])

\* Mutant: senders that were slowed down are forgotten.
WaitersSyncs(f) == {t \in asleep : pc[t] = "sync" /\ obj[t] = f}

\* Who sleeps in wait_receive and in wait_process.
Receivers(f) == {t \in asleep : pc[t] = "receive" /\ obj[t] = f}
Waiters(f)   == {t \in asleep : pc[t] \in {"send", "sync"} /\ obj[t] = f}

Sleep(t, where, f, m) ==
  /\ pc'  = [pc EXCEPT ![t] = where]
  /\ obj' = [obj EXCEPT ![t] = f]
  /\ arg' = [arg EXCEPT ![t] = m]

Return(t) ==
  /\ pc'  = [pc EXCEPT ![t] = "user"]
  /\ obj' = [obj EXCEPT ![t] = Nobody]
  /\ arg' = [arg EXCEPT ![t] = NoMessage]

-----------------------------------------------------------------------------
(* Sending *)

\* Only the dispatcher itself and the master are never slowed down.
Throttled(t, f) ==
  Len(packets[f]) > Limit /\ Owner[t] # Master /\ dispatcher_pid[f] # t

Deliver(f, m) ==
  /\ packets' = [packets EXCEPT ![f] = Put(@, [m EXCEPT !.n = sent[f] + 1])]
  /\ sent'    = [sent EXCEPT ![f] = @ + 1]
  /\ asleep'  = IF Readable(packets'[f]) THEN asleep \ Receivers(f) ELSE asleep
  /\ UNCHANGED <<prev, got, processing, ran>>

Attempt(t, f, m) ==
  IF Throttled(t, f)
  THEN Sleep(t, "send", f, m) /\ asleep' = asleep \cup {t} /\ UNCHANGED queues
  ELSE Return(t) /\ Deliver(f, m)

\* fusionee_send_message, or fusionee_send_message2 that may leave the packet
\* open for more.
Send(t, f, cb, flush) ==
  /\ InUser(t) /\ f \in live /\ Spend(t)
  /\ Attempt(t, f, [n |-> 0, cb |-> cb, flush |-> flush])
  /\ UNCHANGED <<live, readers, killed>>

ResumeSend(t) ==
  /\ pc[t] = "send" /\ t \notin asleep
  /\ IF Owner[t] \in killed
     THEN Return(t) /\ UNCHANGED <<queues, asleep>>                \* EINTR
     ELSE Attempt(t, obj[t], arg[t])
  /\ UNCHANGED <<live, readers, killed, ops>>

-----------------------------------------------------------------------------
(* Receiving *)

\* flush_packets: the callbacks of q run.
Run(q) == ran' = [c \in Contexts |-> ran[c] + Times(c, Content(q))]

\* Packets are read, some may remain; what has callbacks is kept, after what
\* another dispatcher read meanwhile.
Read(f, k, kept, work) ==
  LET read == SubSeq(packets[f], 1, k) IN
  /\ packets'    = [packets EXCEPT ![f] = Remaining(@, k)]
  /\ prev'       = [prev EXCEPT ![f] = kept \o Kept(read)]
  /\ got'        = [got EXCEPT ![f] = @ + Len(Content(read))]
  /\ processing' = [processing EXCEPT ![f] = work \o Content(read)]
  /\ UNCHANGED sent

\* Whether it found packets or sleeps, the dispatcher has processed what it
\* read before, and says so to who waits for it.
Receive(t) ==
  LET f == Owner[t] IN
  /\ InUser(t) /\ t \in Dispatchers /\ f \in live
  /\ dispatcher_pid' = [dispatcher_pid EXCEPT ![f] = t]
  /\ Run(prev[f])
  /\ IF Readable(packets[f])
     THEN /\ \E k \in ReadSizes(packets[f]) : Read(f, k, <<>>, <<>>)
          /\ asleep' = asleep \ Waiters(f)
          /\ UNCHANGED <<waiting, tasks>>
     ELSE /\ waiting' = [waiting EXCEPT ![f] = TRUE]
          /\ prev' = [prev EXCEPT ![f] = <<>>]
          /\ processing' = [processing EXCEPT ![f] = <<>>]
          /\ Sleep(t, "receive", f, NoMessage) /\ asleep' = (asleep \ Waiters(f)) \cup {t}
          /\ UNCHANGED <<packets, sent, got>>
  /\ UNCHANGED <<live, killed, ops>>

\* A read that does not block.
Poll(t) ==
  LET f == Owner[t] IN
  /\ InUser(t) /\ t \in Dispatchers /\ f \in live /\ ~Readable(packets[f])
  /\ dispatcher_pid' = [dispatcher_pid EXCEPT ![f] = t]
  /\ Run(prev[f])
  /\ prev' = [prev EXCEPT ![f] = <<>>]
  /\ processing' = [processing EXCEPT ![f] = <<>>]
  /\ asleep' = asleep \ Waiters(f)
  /\ UNCHANGED <<live, packets, sent, got, waiting, tasks, killed, ops>>

ResumeReceive(t) ==
  LET f == obj[t] IN
  /\ pc[t] = "receive" /\ t \notin asleep
  /\ IF Owner[t] \in killed
     THEN /\ waiting' = [waiting EXCEPT ![f] = FALSE]
          /\ Return(t) /\ UNCHANGED <<queues, asleep>>             \* EINTR
     ELSE IF Readable(packets[f])
     THEN /\ waiting' = [waiting EXCEPT ![f] = FALSE]
          /\ Return(t) /\ UNCHANGED <<ran, asleep>>
          /\ \E k \in ReadSizes(packets[f]) : Read(f, k, prev[f], processing[f])
     ELSE /\ waiting' = [waiting EXCEPT ![f] = TRUE]
          /\ asleep' = asleep \cup {t} /\ UNCHANGED <<queues, tasks>>
  /\ UNCHANGED <<live, dispatcher_pid, killed, ops>>

-----------------------------------------------------------------------------
(* Waiting for the dispatcher *)

\* Mutant: the dispatcher need not wait for more.
IdleQueue(f) == packets[f] = <<>> /\ prev[f] = <<>>

Idle(f) == packets[f] = <<>> /\ prev[f] = <<>> /\ waiting[f]

\* The loop of fusionee_sync: an open packet is closed.
Synced(t, f) ==
  IF Idle(f)
  THEN Return(t) /\ UNCHANGED <<queues, asleep>>
  ELSE LET q == packets[f] IN
       /\ packets' = IF q = <<>> THEN packets ELSE [packets EXCEPT ![f] = FlushLast(q)]
       /\ asleep'  = (IF q # <<>> /\ ~Last(q).flush THEN asleep \ Receivers(f) ELSE asleep) \cup {t}
       /\ Sleep(t, "sync", f, NoMessage)
       /\ UNCHANGED <<prev, sent, got, processing, ran>>

Sync(t) ==
  /\ InUser(t) /\ Owner[t] \in live /\ Spend(t)
  /\ Synced(t, Owner[t])
  /\ UNCHANGED <<live, readers, killed>>

ResumeSync(t) ==
  /\ pc[t] = "sync" /\ t \notin asleep
  /\ IF Owner[t] \in killed
     THEN Return(t) /\ UNCHANGED <<queues, asleep>>                \* EINTR
     ELSE Synced(t, obj[t])
  /\ UNCHANGED <<live, readers, killed, ops>>

-----------------------------------------------------------------------------
(* Death *)

Die(fs) ==
  /\ killed' = killed \cup fs
  /\ asleep' = {t \in asleep : Owner[t] \notin fs}

Kill(f) ==
  /\ f \in Mortals \ killed
  /\ Die({f})
  /\ UNCHANGED <<live, queues, readers, tasks, ops>>

\* fusionee_destroy: the callbacks of everything run and the others are told, or
\* killed.  Nobody is woken who waits for the dispatcher.
Release(f) ==
  /\ f \in killed \cap live
  /\ \A t \in Tasks : Owner[t] = f => pc[t] = "user"
  /\ live' = live \ {f}
  /\ Run(prev[f] \o packets[f])
  /\ LET told  == IF f = Master THEN {} ELSE live'
         leave == [n |-> 0, cb |-> Nobody, flush |-> TRUE]
     IN  /\ packets' = [g \in Fusionees |-> IF g = f THEN <<>>
                                           ELSE IF g \in told
                                           THEN Put(packets[g], [leave EXCEPT !.n = sent[g] + 1])
                                           ELSE packets[g]]
         /\ sent'    = [g \in Fusionees |-> sent[g] + IF g \in told THEN 1 ELSE 0]
         /\ IF f = Master THEN Die(live')
            ELSE asleep' = asleep \ UNION {Receivers(g) : g \in told} /\ UNCHANGED killed
  /\ prev' = [prev EXCEPT ![f] = <<>>]
  /\ processing' = [processing EXCEPT ![f] = <<>>]
  /\ UNCHANGED <<got, readers, tasks, ops>>

-----------------------------------------------------------------------------
Init ==
  /\ live       = Fusionees
  /\ packets    = [f \in Fusionees |-> <<>>] /\ prev = [f \in Fusionees |-> <<>>]
  /\ waiting    = [f \in Fusionees |-> FALSE]
  /\ dispatcher_pid = [f \in Fusionees |-> Nobody]
  /\ pc         = [t \in Tasks |-> "user"]
  /\ obj        = [t \in Tasks |-> Nobody] /\ arg = [t \in Tasks |-> NoMessage]
  /\ asleep = {} /\ killed = {}
  /\ ops        = MaxOps
  /\ sent       = [f \in Fusionees |-> 0] /\ got = [f \in Fusionees |-> 0]
  /\ processing = [f \in Fusionees |-> <<>>]
  /\ ran        = [c \in Contexts |-> 0]

\* Where a callback waits: at its place in the packets of a fusionee, in a
\* sender's hands.
InQueues(c) == UNION {{f} \X At(c, Content(prev[f] \o packets[f])) : f \in Fusionees}
InHand(c)   == {t \in Tasks : pc[t] = "send" /\ arg[t].cb = c}

\* A context that no message has had.
Unused(c) == InQueues(c) = {} /\ InHand(c) = {} /\ ran[c] = 0

\* A message is sent with the callback of an unused context, or without one.  A
\* dispatcher sends when it handles messages; it cannot wait for itself to sync.
Sending(t) ==
  /\ t \in Dispatchers => dispatcher_pid[Owner[t]] = t
  /\ \E f \in Fusionees, flush \in BOOLEAN :
       \/ Send(t, f, Nobody, flush)
       \/ \E c \in Contexts : Unused(c) /\ Send(t, f, c, flush)

Resume(t) == ResumeSend(t) \/ ResumeReceive(t) \/ ResumeSync(t)

Next ==
  \/ \E t \in Senders : Sending(t) \/ (t \notin Dispatchers /\ Sync(t))
  \/ \E t \in Tasks : Receive(t) \/ Poll(t) \/ Resume(t)
  \/ \E f \in Fusionees : Kill(f) \/ Release(f)

Spec == Init /\ [][Next]_vars

\* Dispatchers come back for more, woken tasks run, the dead are released.
Fairness ==
  /\ \A t \in Dispatchers : WF_vars(Receive(t))
  /\ \A t \in Tasks : WF_vars(Resume(t))
  /\ \A f \in Fusionees : WF_vars(Release(f))

FairSpec == Spec /\ Fairness

-----------------------------------------------------------------------------
(* Properties *)

\* Every message is read once, in the order of sending: what is in the queue
\* follows what was read and ends with what was sent last.
ReadInOrder ==
  \A f \in live :
    /\ Len(Content(packets[f])) = sent[f] - got[f]
    /\ \A i \in 1..Len(Content(packets[f])) : Content(packets[f])[i].n = got[f] + i

\* A callback is pending or has run, never both nor twice; and it does not run
\* before its message has been processed: that of what is being processed is
\* pending.
CallbackOnceProcessed ==
  \A c \in Contexts :
    /\ Cardinality(InQueues(c)) + Cardinality(InHand(c)) + ran[c] <= 1
    /\ \A f \in live : Times(c, processing[f]) = Times(c, Content(prev[f]))

\* A sync returns when everything sent before has been processed.
SyncIsIdle ==
  [][\A t \in Tasks :
       pc[t] = "sync" /\ pc'[t] = "user" /\ Owner[t] \notin killed
         => got[Owner[t]] = sent[Owner[t]] /\ processing[Owner[t]] = <<>>]_vars

\* A sender is not slowed down for ever and a sync returns, unless the fusionee
\* in whose queue they wait dies: nobody wakes them then.
QueueReturns ==
  \A t \in Tasks : pc[t] \in {"send", "sync"} ~> pc[t] = "user" \/ obj[t] \in killed

\* The callback of a message that the dispatcher can read, or that it read,
\* runs, whether the message is processed or its recipient dies.
Closed(f) == SelectSeq(packets[f], LAMBDA p : p.flush)

CallbackRuns ==
  \A c \in Contexts :
    (\E f \in Fusionees : Times(c, Content(prev[f] \o Closed(f))) > 0) ~> ran[c] > 0
=============================================================================
