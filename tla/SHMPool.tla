------------------------------ MODULE SHMPool ------------------------------
(***************************************************************************)
(* Shared memory pools (shmpool.c).  A pool gets a range of addresses that *)
(* is the same in every process of a world.  Fusionees attach to it and    *)
(* are told when one of them changes its size.  A dispatch that is slowed  *)
(* down by a full queue of messages sleeps in the middle of its list.      *)
(*                                                                         *)
(* Every fusionee has one thread that uses pools.  Addresses are bytes.    *)
(***************************************************************************)
EXTENDS Integers, Sequences

CONSTANTS
  Fusionees, Pools,   \* fusion ids, ids of pools (never used twice)
  Master,             \* the fusionee that is never slowed down
  Nobody,             \* no fusionee, no pool
  MaxSizes, Sizes,    \* max_size of new pools, sizes of dispatches
  ShmBase, ShmSize,   \* the address space of the world
  IntMax,             \* the largest int (2^31 - 1 in the code)
  Forkers,            \* fusionees that begin as a copy of another
  Mortals, Signalled, \* fusionees that may be killed, and get signals
  MaxOps              \* bound: calls of each fusionee

Page    == 4096
Granule == 65536
Lowest  == ShmBase + 8 * Granule                               \* 0x80000

\* The address space starts at a multiple of 64 KB.
ASSUME SHMPoolAssumption ==
  /\ Nobody \notin Fusionees \cup Pools /\ Master \in Fusionees
  /\ IntMax \in Nat /\ MaxSizes \subseteq 1..IntMax /\ Sizes \subseteq Nat \ {0}
  /\ ShmBase \in Nat /\ ShmBase % Granule = 0 /\ ShmSize \in Nat
  /\ MaxOps \in [Fusionees -> Nat]

VARIABLES
  alive, used,         \* pools that exist, ids given so far
  addr_base,           \* the first address that is free for a new pool
  base, max_size, next_base, size,
  nodes,               \* who is attached, how often, the latest first
  obj, at, val,        \* the pool that a thread dispatches, in whose queue it
                       \* waits, with which size
  live, killed,        \* fusionees in the list of the world, dying ones
  ops,                 \* bound: calls left
  told,                \* history: the size that a fusionee heard of last
  cut,                 \* history: pools whose last dispatch was interrupted
  copies               \* history: who was attached by a fork since the last
                       \* dispatch of a pool began

space == <<alive, used, addr_base, base, max_size, next_base>>
calls == <<obj, at, val>>
world == <<live, killed>>
vars  == <<space, size, nodes, calls, world, ops, told, cut, copies>>

InUser(f) == f \in live \ killed /\ obj[f] = Nobody

Spend(f) == ops[f] > 0 /\ ops' = [ops EXCEPT ![f] = @ - 1]

Sleep(f, p, g, s) ==
  obj' = [obj EXCEPT ![f] = p] /\ at' = [at EXCEPT ![f] = g] /\ val' = [val EXCEPT ![f] = s]

Return(f) == Sleep(f, Nobody, Nobody, 0)

\* Nobody dispatches p; nobody who does waits in the queue of f.
Quiet(p) == \A f \in Fusionees : obj[f] # p
Still(f) == \A g \in Fusionees : at[g] # f

-----------------------------------------------------------------------------
(* Addresses *)

Up(n, unit) == ((n + unit - 1) \div unit) * unit

\* PAGE_ALIGN of an int has the width of an int.
PageAlign(m) == IF Up(m, Page) <= IntMax THEN Up(m, Page) ELSE Up(m, Page) - 2 * (IntMax + 1)

\* The end of a pool at b: a page lies between the pools.
End(b, m) == Up(b + PageAlign(m) + Page, Granule)

\* Mutant: all is free that follows this pool.
AllFree(p)  == addr_base' = base[p]

\* What follows the highest pool that is left is free.
TrailFree(p) ==
  LET ends == {Lowest} \cup {next_base[q] : q \in alive \ {p}} IN
  \E b \in ends : (\A n \in ends : n <= b) /\ addr_base' = b

New(f, p, m) ==
  /\ InUser(f) /\ Spend(f) /\ p \in Pools \ used
  /\ addr_base + m < ShmBase + ShmSize                            \* ENOSPC
  /\ alive' = alive \cup {p} /\ used' = used \cup {p}
  /\ base'      = [base EXCEPT ![p] = addr_base]
  /\ max_size'  = [max_size EXCEPT ![p] = m]
  /\ addr_base' = End(addr_base, m)
  /\ next_base' = [next_base EXCEPT ![p] = addr_base']
  /\ size'      = [size EXCEPT ![p] = 0] /\ nodes' = [nodes EXCEPT ![p] = <<>>]
  /\ UNCHANGED <<calls, world, told, cut, copies>>

Remove(p) ==
  /\ alive' = alive \ {p} /\ nodes' = [nodes EXCEPT ![p] = <<>>]
  /\ TrailFree(p)
  /\ UNCHANGED <<used, base, max_size, next_base, size>>

Destroy(f, p) ==
  /\ InUser(f) /\ Spend(f) /\ p \in alive /\ Quiet(p)
  /\ Remove(p)
  /\ UNCHANGED <<calls, world, told, cut, copies>>

-----------------------------------------------------------------------------
(* Attaching *)

Attached(p, f) == \E i \in 1..Len(nodes[p]) : nodes[p][i].fusion_id = f

\* get_node: the node of f, of which there is one.
Node(q, f) == CHOOSE i \in 1..Len(q) : q[i].fusion_id = f

Drop(q, i) == SubSeq(q, 1, i - 1) \o SubSeq(q, i + 1, Len(q))

\* remove_node.
Without(p, f) == IF Attached(p, f) THEN Drop(nodes[p], Node(nodes[p], f)) ELSE nodes[p]

\* The nodes of p when f attaches, detaches, and starts as a copy of g.
More(p, f) ==
  IF Attached(p, f)
  THEN [nodes[p] EXCEPT ![Node(nodes[p], f)].count = @ + 1]
  ELSE <<[fusion_id |-> f, count |-> 1]>> \o nodes[p]

Less(p, f) ==
  LET i == Node(nodes[p], f) IN
  IF nodes[p][i].count = 1 THEN Drop(nodes[p], i) ELSE [nodes[p] EXCEPT ![i].count = @ - 1]

Copied(p, f, g) ==
  IF Attached(p, g)
  THEN <<[fusion_id |-> f, count |-> nodes[p][Node(nodes[p], g)].count]>> \o nodes[p]
  ELSE nodes[p]

Attach(f, p) ==
  /\ InUser(f) /\ Spend(f) /\ p \in alive
  /\ nodes' = [nodes EXCEPT ![p] = More(p, f)]
  /\ told'   = [told EXCEPT ![p][f] = size[p]]
  /\ copies' = [copies EXCEPT ![p] = @ \ {f}]
  /\ UNCHANGED <<space, size, calls, world, cut>>

Detach(f, p) ==
  /\ InUser(f) /\ Spend(f) /\ p \in alive /\ Attached(p, f) /\ Still(f)
  /\ nodes' = [nodes EXCEPT ![p] = Less(p, f)]
  /\ UNCHANGED <<space, size, calls, world, told, cut, copies>>

\* fusion_shmpool_fork_all: f starts with the attachments of g, also while a
\* dispatch sleeps.  What g was sent is the most that its copy can know: messages
\* that g has not read yet stay with g.
Fork(f, g) ==
  /\ InUser(f) /\ Spend(f) /\ f \in Forkers /\ g \in live \ {f}
  /\ \A p \in Pools : ~Attached(p, f)
  /\ nodes'  = [p \in Pools |-> Copied(p, f, g)]
  /\ told'   = [p \in Pools |-> [told[p] EXCEPT ![f] = told[p][g]]]
  /\ copies' = [p \in Pools |-> copies[p] \cup IF Attached(p, g) THEN {f} ELSE {}]
  /\ UNCHANGED <<space, size, calls, world, cut>>

-----------------------------------------------------------------------------
(* Dispatching *)

\* Mutant: the first node is left out.
OthersNext(f, p, i, k) == {nodes[p][j].fusion_id : j \in i + 1..k} \ {f}

\* The fusionees of the nodes from i to k, without the sender.
Others(f, p, i, k) == {nodes[p][j].fusion_id : j \in i..k} \ {f}

Tell(p, fs, s) == told' = [told EXCEPT ![p] = [g \in Fusionees |-> IF g \in fs THEN s ELSE @[g]]]

\* Messages go to the nodes from i on.  All are sent, or the queue of one is full.
Walk(f, p, s, i) ==
  LET last == Len(nodes[p]) IN
  /\ \/ Tell(p, Others(f, p, i, last) \cup {f}, s) /\ Return(f)
     \/ \E k \in i..last :
          /\ nodes[p][k].fusion_id # f /\ f # Master
          /\ Tell(p, Others(f, p, i, k - 1) \cup {f}, s)
          /\ Sleep(f, p, nodes[p][k].fusion_id, s)

Dispatch(f, p, s) ==
  /\ InUser(f) /\ Spend(f) /\ p \in alive /\ Quiet(p)
  /\ size' = [size EXCEPT ![p] = s]
  /\ Walk(f, p, s, 1)
  /\ cut' = cut \ {p} /\ copies' = [copies EXCEPT ![p] = {}]
  /\ UNCHANGED <<space, nodes, world>>

\* The place of f in the list it walks.
Position(f) == Node(nodes[obj[f]], at[f])

Resume(f) ==
  /\ obj[f] # Nobody /\ f \notin killed
  /\ Walk(f, obj[f], val[f], Position(f))
  /\ UNCHANGED <<space, size, nodes, world, ops, cut, copies>>

\* A signal: the message to this fusionee is given up, and those to others whose
\* queues are full.
Interrupt(f) ==
  LET p == obj[f]
      rest == Others(f, p, Position(f) + 1, Len(nodes[p])) IN
  /\ obj[f] # Nobody /\ f \in killed \cup Signalled
  /\ \E fs \in SUBSET rest : Tell(p, fs, val[f])
  /\ Return(f) /\ cut' = cut \cup {p}
  /\ UNCHANGED <<space, size, nodes, world, ops, copies>>

-----------------------------------------------------------------------------
(* Death *)

Kill(f) ==
  /\ f \in (Mortals \cap live) \ killed
  /\ killed' = killed \cup {f}
  /\ UNCHANGED <<space, size, nodes, calls, live, ops, told, cut, copies>>

\* fusionee_destroy, fusion_shmpool_detach_all.
Release(f) ==
  /\ f \in killed \cap live /\ obj[f] = Nobody /\ Still(f)
  /\ live'  = live \ {f}
  /\ nodes' = [p \in Pools |-> Without(p, f)]
  /\ UNCHANGED <<space, size, calls, killed, ops, told, cut, copies>>

-----------------------------------------------------------------------------
Init ==
  /\ alive = {} /\ used = {} /\ addr_base = Lowest
  /\ base = [p \in Pools |-> 0] /\ max_size = [p \in Pools |-> 0]
  /\ next_base = [p \in Pools |-> 0] /\ size = [p \in Pools |-> 0]
  /\ nodes = [p \in Pools |-> <<>>]
  /\ obj = [f \in Fusionees |-> Nobody]
  /\ at = [f \in Fusionees |-> Nobody] /\ val = [f \in Fusionees |-> 0]
  /\ live = Fusionees /\ killed = {}
  /\ ops = MaxOps
  /\ told = [p \in Pools |-> [f \in Fusionees |-> 0]] /\ cut = {}
  /\ copies = [p \in Pools |-> {}]

Next ==
  \E f \in Fusionees :
    \/ \E p \in Pools, m \in MaxSizes : New(f, p, m)
    \/ \E p \in Pools : Destroy(f, p) \/ Attach(f, p) \/ Detach(f, p)
    \/ \E p \in Pools, s \in Sizes : Dispatch(f, p, s)
    \/ \E g \in Fusionees : Fork(f, g)
    \/ Resume(f) \/ Interrupt(f) \/ Kill(f) \/ Release(f)

Spec == Init /\ [][Next]_vars

\* No pool is as large as an int can say.
NoWrap == \A m \in MaxSizes : Up(m, Page) <= IntMax

-----------------------------------------------------------------------------
(* Properties *)

\* Every variable has the type of its C field; a fusionee has one node of a pool.
SpaceOK ==
  /\ alive \subseteq used /\ used \subseteq Pools
  /\ addr_base \in Nat
  /\ base \in [Pools -> Nat] /\ max_size \in [Pools -> Nat]
  /\ next_base \in [Pools -> Nat] /\ size \in [Pools -> Nat]

NodesOK ==
  /\ live \subseteq Fusionees /\ killed \subseteq Fusionees
  /\ nodes \in [Pools -> Seq([fusion_id : Fusionees, count : Nat \ {0}])]
  /\ \A p \in Pools : \A i, j \in 1..Len(nodes[p]) :
       nodes[p][i].fusion_id = nodes[p][j].fusion_id => i = j

CallsOK ==
  /\ obj \in [Fusionees -> Pools \cup {Nobody}]
  /\ at \in [Fusionees -> Fusionees \cup {Nobody}] /\ val \in [Fusionees -> Nat]
  /\ ops \in [Fusionees -> Nat]
  /\ told \in [Pools -> [Fusionees -> Nat]] /\ cut \subseteq Pools
  /\ copies \in [Pools -> SUBSET Fusionees]

TypeOK == SpaceOK /\ NodesOK /\ CallsOK

\* Pools never overlap, whatever was created and destroyed: at least a page lies
\* between them.
Disjoint ==
  \A p, q \in alive : p # q =>
    \/ base[p] + max_size[p] + Page <= base[q]
    \/ base[q] + max_size[q] + Page <= base[p]

\* They start at multiples of 64 KB in the address space of the world.
Fits ==
  \A p \in alive :
    /\ base[p] % Granule = 0
    /\ Lowest <= base[p] /\ base[p] + max_size[p] < ShmBase + ShmSize

\* The address space behind the last pool is free again.
Reclaimed ==
  \/ addr_base = Lowest
  \/ \E p \in alive : addr_base = next_base[p]

\* A fusionee that was released is attached to nothing.
NoOrphan == \A p \in Pools, f \in Fusionees : Attached(p, f) => f \in live

\* Who has attached to a pool has heard of its size last, when nobody dispatches it,
\* unless the dispatch was interrupted: also who attached, or stood in the list, while
\* others attached, detached, forked and died around a dispatch that slept
\* (shmpool.c:288-301).  A copy made by a fork has heard of it after the first dispatch
\* that begins after the fork.
Informed ==
  \A p \in alive : Quiet(p) /\ p \notin cut =>
    \A f \in Fusionees : Attached(p, f) => told[p][f] = size[p] \/ f \in copies[p]

\* Whoever is attached was sent the size that was dispatched last, as fusion.tmpl:1241
\* says of a dispatch.
AllInformed ==
  \A p \in alive : Quiet(p) =>
    \A f \in Fusionees : Attached(p, f) => told[p][f] = size[p]
=============================================================================
