------------------------------- MODULE World --------------------------------
(***************************************************************************)
(* A world of the fusion device (fusiondev.c, the life of a fusionee in    *)
(* fusionee.c, the tables of entries.c): processes open the device, enter  *)
(* the world, create objects, grant rights to them, are killed and leave.  *)
(* The first who enters is the master, with which the world ends.          *)
(*                                                                         *)
(* Every file is used by one process with one thread.  The end of a world  *)
(* is one step: between its last release and the end of fusiondev_deinit,  *)
(* which drops the global semaphore, nobody opens the device.              *)
(***************************************************************************)
EXTENDS Hash

CONSTANTS
  Files,      \* struct files of the device, each a Fusionee
  Kinds,      \* the kinds of entries, each with a table
  TableSize,  \* the size a table is created with (17)
  Rights,     \* what may be done to an entry: the ioctls of its kind but _NEW
  Grants,     \* sets of rights that are granted at a time
  Mortals,    \* files whose process may exit, or close the device
  Signalled,  \* files whose process receives signals
  MaxIds,     \* bound: fusion ids of a world
  MaxEntries  \* bound: entries of a kind

Master == 1   \* FUSION_ID_MASTER

ASSUME WorldAssumption ==
  /\ TableSize \in Nat \ {0} /\ MaxIds \in Nat /\ MaxEntries \in Nat
  /\ Grants \subseteq SUBSET Rights /\ Mortals \subseteq Files /\ Signalled \subseteq Files

VARIABLES
  refs, last_id, enter_ok, secure,  \* of the FusionDev
  members,      \* its list of fusionees
  id,           \* the fusion id of a file, 0 before it enters
  force_slave,  \* files opened with O_APPEND
  pc,           \* "closed", "user", or the ioctl or release its process sleeps in
  asleep,       \* files whose process sleeps in a wait queue
  pending,      \* files whose process has a signal pending
  killing,      \* files whose process was sent SIGKILL
  exiting,      \* files whose process has given up its mm and will close the file
  target, timer,\* of FUSION_KILL: whom it kills, and how long it waits for that
  ids, entry, table,   \* of a kind: last id, the list of entries, the hash
  opens, ops,   \* bounds: opens and other calls that are left
  rights,       \* history: <<kind, id, holder, right>> that were given
  orphans,      \* history: files opened after the master of the world had gone
  late          \* history: files opened while the master waits in its release,
                \* or left over from a wait that a signal ended

device  == <<refs, last_id, enter_ok, secure, members>>
process == <<id, force_slave, exiting, orphans, late>>
waits   == <<pc, asleep, pending, killing, target, timer>>
entries == <<ids, entry, table>>
worldVars == <<device, process, waits, entries, opens, ops, rights>>

InUser(f)  == pc[f] = "user" /\ f \notin exiting \cup killing
Entered(f) == InUser(f) /\ id[f] # 0
Spend      == ops > 0 /\ ops' = ops - 1

Living == {f \in Files : pc[f] # "closed" /\ f \notin exiting}

\* The master is a member, or it leaves and waits for the others.
MasterPresent == \E f \in Files : id[f] = Master /\ pc[f] # "closed"

\* It is a member.
MasterStays == \E f \in Files : id[f] = Master /\ pc[f] \notin {"closed", "release"}

\* Who holds a right: a process, or a fusion id that nobody has had yet.
Process(f) == <<"process", f>>
Future(g)  == <<"id", g>>

SleepIn(f, where) == pc' = [pc EXCEPT ![f] = where]

-----------------------------------------------------------------------------
(* The device: open and release *)

\* memset and fusiondev_init: a new FusionDev with empty tables.
NewDevice ==
  /\ last_id' = 0 /\ enter_ok' = FALSE /\ secure' = FALSE
  /\ ids'   = [k \in Kinds |-> 0]
  /\ entry' = [k \in Kinds |-> <<>>]
  /\ table' = [k \in Kinds |-> HashCreate(TableSize)]

\* fusionee_new.
NewFusionee(f, append) ==
  /\ members' = members \cup {f}
  /\ id' = [id EXCEPT ![f] = 0]
  /\ force_slave' = IF append THEN force_slave \cup {f} ELSE force_slave \ {f}
  /\ IF last_id # 0 /\ refs # 0 /\ ~MasterStays
     THEN IF MasterPresent THEN late' = late \cup {f} /\ orphans' = orphans \ {f}
                           ELSE orphans' = orphans \cup {f} /\ late' = late \ {f}
     ELSE orphans' = orphans \ {f} /\ late' = late \ {f}

\* Who opens exclusively finds an entered world busy.
Open(f, excl, append) ==
  /\ pc[f] = "closed" /\ opens > 0
  /\ ~(refs # 0 /\ excl /\ last_id # 0)                            \* EBUSY
  /\ opens' = opens - 1 /\ refs' = refs + 1
  /\ IF refs = 0 THEN NewDevice ELSE UNCHANGED <<last_id, enter_ok, secure, entries>>
  /\ NewFusionee(f, append)
  /\ pc' = [pc EXCEPT ![f] = "user"]
  /\ rights' = {r \in rights : r[3] # Process(f)}
  /\ UNCHANGED <<exiting, asleep, pending, killing, target, timer, ops>>

-----------------------------------------------------------------------------
(* The lounge: enter, unblock, kill *)

MustWaitToEnter(f) == (last_id # 0 \/ f \in force_slave) /\ ~enter_ok

\* Mutant: the id of a process that is gone is used again.
FreeId == CHOOSE i \in 1..(last_id + 1) :
            (\A f \in members : id[f] # i) /\ \A j \in 1..(i - 1) : \E f \in members : id[f] = j

\* The id of who enters next.
NextId == last_id + 1

\* The end of fusionee_enter: the first one decides whether the world is
\* secure.  Who brings another version of the API is refused (ENOPROTOOPT).
Enter(f) ==
  /\ last_id < MaxIds
  /\ last_id' = NextId
  /\ id' = [id EXCEPT ![f] = NextId]
  /\ IF last_id = 0 THEN secure' \in BOOLEAN ELSE UNCHANGED secure
  /\ pc' = [pc EXCEPT ![f] = "user"]
  /\ UNCHANGED asleep

EnterLoop(f) ==
  IF MustWaitToEnter(f)
  THEN SleepIn(f, "enter") /\ asleep' = asleep \cup {f} /\ UNCHANGED <<last_id, id, secure>>
  ELSE Enter(f)

\* A process enters once.  The code does not look: a second enter would give the file
\* another id (fusionee.c:507).
FusioneeEnter(f) ==
  /\ InUser(f) /\ id[f] = 0
  /\ EnterLoop(f)
  /\ UNCHANGED <<refs, enter_ok, members, force_slave, exiting, orphans, late, pending, killing, target, timer,
                 entries, opens, ops, rights>>

EnterResume(f) ==
  /\ pc[f] = "enter" /\ f \notin asleep
  /\ IF f \in pending \cup killing
     THEN /\ SleepIn(f, "user") /\ pending' = pending \ {f}         \* EINTR
          /\ UNCHANGED <<last_id, id, secure, asleep>>
     ELSE EnterLoop(f) /\ UNCHANGED pending
  /\ UNCHANGED <<refs, enter_ok, members, force_slave, exiting, orphans, late, killing, target, timer,
                 entries, opens, ops, rights>>

\* Who sleeps in enter_wait.
EnterWaiters == {f \in asleep : pc[f] = "enter"}

\* FUSION_UNBLOCK
Unblock(f) ==
  /\ Entered(f) /\ id[f] = Master /\ ~enter_ok
  /\ enter_ok' = TRUE
  /\ asleep' = asleep \ EnterWaiters
  /\ UNCHANGED <<refs, last_id, secure, members, process, pc, pending, killing, target, timer, entries,
                 opens, ops, rights>>

\* Mutant: those who have not entered yet are spared.
EnteredVictims(f, t) == {g \in members \ {f} : g \in Living /\ id[g] # 0 /\ t \in {0, id[g]}}

\* The processes to kill: of one id or, with 0, of all others.
Victims(f, t) == {g \in members \ {f} : g \in Living /\ t \in {0, id[g]}}

\* What the loop of fusionee_kill does: all are sent SIGKILL, again and again,
\* until none is left or the caller does not want to wait.
Shoot(V) == killing' = killing \cup V

KillDone(f, t, wait) == Victims(f, t) = {} \/ wait = "no" \/ wait = "over"

\* A round of the loop that ends asleep.
KillRound(f, t, where) ==
  /\ Shoot(Victims(f, t))
  /\ SleepIn(f, where)
  /\ asleep' = (asleep \ Victims(f, t)) \cup {f}

FusioneeKill(f, t, wait) ==
  /\ Entered(f) /\ id[f] = Master /\ Spend
  /\ IF KillDone(f, t, wait)
     THEN /\ Shoot(Victims(f, t)) /\ asleep' = asleep \ Victims(f, t)
          /\ UNCHANGED <<pc, target, timer>>
     ELSE /\ KillRound(f, t, "kill")
          /\ target' = [target EXCEPT ![f] = t] /\ timer' = [timer EXCEPT ![f] = wait]
  /\ UNCHANGED <<device, process, pending, entries, opens, rights>>

\* The end of FUSION_KILL.
KillReturns(f) ==
  /\ SleepIn(f, "user")
  /\ target' = [target EXCEPT ![f] = 0] /\ timer' = [timer EXCEPT ![f] = "no"]

KillResume(f) ==
  /\ pc[f] = "kill" /\ f \notin asleep
  /\ \/ /\ f \in pending \cup killing                              \* EINTR
        /\ KillReturns(f) /\ pending' = pending \ {f} /\ UNCHANGED <<asleep, killing>>
     \/ /\ f \notin pending \cup killing /\ KillDone(f, target[f], timer[f])   \* 0, ETIMEDOUT
        /\ KillReturns(f) /\ Shoot(Victims(f, target[f]))
        /\ asleep' = asleep \ Victims(f, target[f]) /\ UNCHANGED pending
     \/ /\ f \notin pending \cup killing /\ ~KillDone(f, target[f], timer[f])
        /\ KillRound(f, target[f], "kill") /\ UNCHANGED <<pending, target, timer>>
  /\ UNCHANGED <<device, process, entries, opens, ops, rights>>

\* The timeout of FUSION_KILL runs out.
KillTimeout(f) ==
  /\ pc[f] = "kill" /\ f \in asleep /\ timer[f] = "timed"
  /\ timer' = [timer EXCEPT ![f] = "over"] /\ asleep' = asleep \ {f}
  /\ UNCHANGED <<device, process, pc, pending, killing, target, entries, opens, ops, rights>>

-----------------------------------------------------------------------------
(* Processes *)

\* A signal, with a handler.
Signal(f) ==
  /\ f \in Signalled \ pending /\ pc[f] \notin {"closed", "user"}
  /\ pending' = pending \cup {f} /\ asleep' = asleep \ {f}
  /\ UNCHANGED <<device, process, pc, killing, target, timer, entries, opens, ops, rights>>

\* exit_mm: from now on no fusionee_kill finds the process by its mm.
Exit(f) ==
  /\ pc[f] = "user" /\ f \notin exiting /\ f \in Mortals \cup killing
  /\ exiting' = exiting \cup {f}
  /\ UNCHANGED <<device, id, force_slave, orphans, late, waits, entries, opens, ops, rights>>

\* The killers that the end of a fusionee wakes.
Killers == {g \in asleep : pc[g] \in {"kill", "release"}}

\* The last lines of fusion_release.
Close(f, latecomers) ==
  /\ pc' = [pc EXCEPT ![f] = "closed"]
  /\ refs' = refs - 1
  /\ id' = [id EXCEPT ![f] = 0]
  /\ exiting' = exiting \ {f} /\ force_slave' = force_slave \ {f}
  /\ orphans' = orphans \ {f} /\ late' = latecomers \ {f}
  /\ pending' = pending \ {f}

\* fusion_release and fusionee_destroy, without what the composition does to
\* the objects: a master kills all others and waits for that.
Release(f) ==
  /\ pc[f] = "user" /\ (f \in exiting \/ (f \in Mortals /\ f \notin killing))
  /\ members' = members \ {f}
  /\ IF id[f] = Master /\ Victims(f, 0) # {}
     THEN /\ Shoot(Victims(f, 0))
          /\ SleepIn(f, "release")
          /\ asleep' = ((asleep \ Killers) \ Victims(f, 0)) \cup {f}
          /\ UNCHANGED <<refs, id, force_slave, exiting, orphans, late, pending>>
     ELSE Close(f, late) /\ killing' = killing \ {f} /\ asleep' = asleep \ Killers
  /\ UNCHANGED <<last_id, enter_ok, secure, target, timer, opens, ops>>

\* The wait in the release of a master: without a signal it ends when nobody is left
\* to kill.
ReleaseResume(f) ==
  /\ pc[f] = "release" /\ f \notin asleep
  /\ IF f \in pending \/ Victims(f, 0) = {}
     THEN Close(f, IF f \in pending THEN late ELSE {}) /\ killing' = killing \ {f} /\ UNCHANGED asleep
     ELSE /\ KillRound(f, 0, "release")
          /\ UNCHANGED <<refs, id, force_slave, exiting, orphans, late, pending>>
  /\ UNCHANGED <<last_id, enter_ok, secure, members, target, timer, opens, ops>>

\* The device is closed for the last time in this step: fusiondev_deinit.
LastClose(f) == refs = 1 /\ pc'[f] = "closed"

-----------------------------------------------------------------------------
(* Entries *)

Exists(k, i) == HashLookup(table[k], i) # NULL

\* fusion_entry_create
CreateEntry(k, f) ==
  LET i == ids[k] + 1 IN
  /\ i <= MaxEntries
  /\ ids'   = [ids EXCEPT ![k] = i]
  /\ entry' = [entry EXCEPT ![k] = [j \in DOMAIN @ \cup {i} |->
                 IF j = i THEN [creator |-> id[f], permissions |-> {}] ELSE @[j]]]
  /\ table' = [table EXCEPT ![k] = HashInsert(@, i, i)]
  /\ rights' = rights \cup {<<k, i, Process(f), r>> : r \in Rights}

\* fusion_entry_destroy_locked, of the entries gone[k] of every kind.
DestroyEntries(gone) ==
  /\ entry' = [k \in Kinds |-> [j \in DOMAIN entry[k] \ gone[k] |-> entry[k][j]]]
  /\ table' = [k \in Kinds |-> HashRemoveAll(table[k], gone[k])]
  /\ rights' = {r \in rights : r[2] \notin gone[r[1]]}
  /\ UNCHANGED ids

\* One entry of a kind, and none of another.
Only(k, i) == [j \in Kinds |-> IF j = k THEN {i} ELSE {}]

NoEntries == [j \in Kinds |-> {}]
AllEntries == [j \in Kinds |-> DOMAIN entry[j]]

\* fusion_entry_add_permissions by f for the fusion id g, or for everybody: g may
\* be an id that nobody has had yet, or whose process is gone.
AddPermissions(f, k, i, g, R) ==
  LET present == {h \in Files : id[h] # 0 /\ (g = 0 \/ id[h] = g)}
      given   == {Process(h) : h \in present} \cup IF g > last_id THEN {Future(g)} ELSE {} IN
  /\ Entered(f) /\ Spend
  /\ Exists(k, i) /\ (id[f] = Master \/ id[f] = entry[k][i].creator)
  /\ entry' = [entry EXCEPT ![k][i].permissions = @ \cup {<<g, r>> : r \in R}]
  /\ rights' = rights \cup {<<k, i, h, r>> : h \in given, r \in R}
  /\ UNCHANGED <<device, process, waits, ids, table, opens>>

\* fusion_entry_check_permissions
CheckPermissions(k, i, fid, r) ==
  /\ Exists(k, i)
  /\ \/ entry[k][i].creator = fid
     \/ \E p \in entry[k][i].permissions : p[1] \in {0, fid} /\ p[2] = r

\* check_permission, as fusion_ioctl calls it.
Permitted(f, k, i, r) ==
  ~secure \/ id[f] = Master \/ CheckPermissions(k, i, id[f], r)

-----------------------------------------------------------------------------
\* No world yet.
WorldInit ==
  /\ refs = 0 /\ last_id = 0 /\ enter_ok = FALSE /\ secure = FALSE /\ members = {}
  /\ id = [f \in Files |-> 0] /\ force_slave = {}
  /\ pc = [f \in Files |-> "closed"]
  /\ asleep = {} /\ pending = {} /\ killing = {} /\ exiting = {}
  /\ target = [f \in Files |-> 0] /\ timer = [f \in Files |-> "no"]
  /\ ids = [k \in Kinds |-> 0] /\ entry = [k \in Kinds |-> <<>>]
  /\ table = [k \in Kinds |-> HashCreate(TableSize)]
  /\ rights = {} /\ orphans = {} /\ late = {}

\* The steps of a file that leave the objects alone.
WorldStep(f) ==
  \/ \E excl, append \in BOOLEAN : Open(f, excl, append)
  \/ FusioneeEnter(f) \/ EnterResume(f) \/ Unblock(f)
  \/ \E t \in {0} \cup {id[g] : g \in members}, wait \in {"no", "yes", "timed"} : FusioneeKill(f, t, wait)
  \/ KillResume(f) \/ KillTimeout(f) \/ Signal(f) \/ Exit(f)

-----------------------------------------------------------------------------
(* Properties *)

\* The lookup finds the entries of the list and no others, whatever was created
\* and destroyed before.
TablesAgree ==
  \A k \in Kinds, i \in 1..MaxEntries : HashLookup(table[k], i) = IF i \in DOMAIN entry[k] THEN i ELSE NULL

\* A right that check_permission grants was given to this very process for this
\* very entry: it is not inherited with an id, from a process or an entry that
\* is gone.  What is granted to everybody holds for who comes later, and what is
\* granted ahead, to an id that nobody has had, for who enters with it
\* (entries.c:357-393 takes any id).
RightsAreGranted ==
  \A f \in members, k \in Kinds, r \in Rights : \A i \in DOMAIN entry[k] :
    id[f] # 0 /\ secure /\ id[f] # Master /\ CheckPermissions(k, i, id[f], r)
      => \/ <<k, i, Process(f), r>> \in rights
         \/ <<0, r>> \in entry[k][i].permissions
         \/ <<k, i, Future(id[f]), r>> \in rights

\* When the master leaves, every process of its world has been told to die or is
\* about to close the device, however far it had got, but for who opened the device
\* after the master had begun to leave: who opened while it waited for the others
\* lives on only when a signal ended that wait (fusionee.c:980), who opened after its
\* end always.
NoSurvivor ==
  last_id # 0 /\ refs # 0 /\ ~MasterStays => members \subseteq killing \cup exiting \cup orphans \cup late
=============================================================================
