------------------------------ MODULE MCWorld -------------------------------
EXTENDS Quota, SequencesExt

CONSTANTS m, s, u, FreshBudgets, RunningBudgets,  \* pairs of opens and other calls
          Members  \* the files of a world that runs

AllRights == {"attach", "detach", "dispatch", "destroy", "callback", "execute", "quota"}
SomeGrants == {{"attach", "execute"}}
TwoMembers == <<m, s>>
ThreeOpens == {<<3, 0>>}
TwoCallsOrBoth == {<<0, 2>>, <<1, 1>>}

\* A device nobody has opened.
FreshWorld == Init /\ \E b \in FreshBudgets : opens = b[1] /\ ops = b[2]

\* A world that runs: the master has made call 1, the second process call 2 and a
\* reactor, with call 1 as callback.  Both are attached to the reactor, which
\* everybody may use, and the master has a quota of one at call 2.
RunningWorld ==
  LET Fid(f) == IF \E n \in DOMAIN Members : Members[n] = f
                THEN CHOOSE n \in DOMAIN Members : Members[n] = f ELSE 0
      Usual == {"attach", "detach", "dispatch"}
      By(n, R) == [creator |-> n, permissions |-> {<<0, r>> : r \in R}]
      Hashed(keys) == FoldSet(LAMBDA k, h : HashInsert(h, k, k), HashCreate(TableSize), keys)
      All == Range(Members)
  IN
  /\ refs = Len(Members) /\ last_id = Len(Members) /\ enter_ok = TRUE /\ secure \in BOOLEAN
  /\ members = All /\ id = [f \in Files |-> Fid(f)]
  /\ pc = [f \in Files |-> IF f \in All THEN "user" ELSE "closed"]
  /\ force_slave = {} /\ exiting = {} /\ orphans = {} /\ late = {}
  /\ asleep = {} /\ pending = {} /\ killing = {}
  /\ target = [f \in Files |-> 0] /\ timer = [f \in Files |-> "no"]
  /\ ids = [call |-> 2, reactor |-> 1]
  /\ entry = [call |-> <<By(1, {}), By(2, {"execute"})>>, reactor |-> <<By(2, Usual)>>]
  /\ table = [call |-> Hashed({1, 2}), reactor |-> Hashed({1})]
  /\ rights = {<<t[1], t[2], Process(t[3]), r>> : t \in {<<"call", 1, Members[1]>>, <<"call", 2, Members[2]>>, <<"reactor", 1, Members[2]>>}, r \in Rights}
  /\ reactor = [r \in 1..MaxEntries |->
                  IF r = 1 THEN [nodes |-> [i \in 1..Len(Members) |-> [c \in Channels |-> IF c = 0 THEN 1 ELSE 0]],
                                 destroyed |-> FALSE, call |-> 1]
                  ELSE NewReactor]
  /\ dispatches = <<>>
  /\ inbox = [f \in Files |-> <<>>] /\ prev = [f \in Files |-> <<>>]
  /\ quotas = [c \in 1..MaxEntries |-> IF c = 2 THEN (1 :> [count |-> 0, limit |-> 1, peak |-> 1]) ELSE <<>>]
  /\ batch = [f \in Files |-> NoBatch] /\ got = [f \in Files |-> <<>>]
  /\ \E b \in RunningBudgets : opens = b[1] /\ ops = b[2]

MCSpec == (FreshWorld \/ RunningWorld) /\ [][Next]_vars /\ Fairness
=============================================================================
