-------------------------------- MODULE MCOne --------------------------------
EXTENDS OneQueue, TLC

CONSTANTS appA, appB, ra, wa, rb, wb, FreshCalls, RunningCalls

TheAppOf == ra :> appA @@ wa :> appA @@ rb :> appB @@ wb :> appB

SomeAsks == {[ids |-> {1}, room |-> 1, timeout |-> "timed"], [ids |-> {1, 2}, room |-> 0, timeout |-> "poll"]}

\* Both applications have a queue, which is attached to the virtual queue 3: that
\* is of the one or the other, and may have been destroyed; queue 1 may be full.
Running(owner, destroyed, full) ==
  LET Plain(o) == [owner |-> o, virtual |-> FALSE, destroyed |-> FALSE, nodes |-> <<>>]
      Nodes == <<[count |-> 1, place |-> 1], [count |-> 1, place |-> 2]>>
  IN
  /\ apps = Apps /\ last_id = 3 /\ queue_attach = 2
  /\ queue = <<Plain(appA), Plain(appB), [owner |-> owner, virtual |-> TRUE, destroyed |-> destroyed, nodes |-> Nodes]>>
  /\ data = [packets |-> [x \in Ids |-> IF x = 1 /\ full THEN Limit + 1 ELSE 0], wakeup |-> {},
             recv_data |-> [c \in Apps |-> IF c = appA /\ full THEN 1 :> 1 ELSE <<>>]]
  /\ pc = [t \in Tasks |-> "user"] /\ asleep = {} /\ pending = {}
  /\ at = [t \in Tasks |-> Nowhere] /\ recv = [t \in Tasks |-> NoReceive]
  /\ got = [t \in Tasks |-> NotGot] /\ owed = [t \in Tasks |-> {}]
  /\ ops = RunningCalls

MCInit ==
  \/ Init /\ ops = FreshCalls
  \/ Running(appA, FALSE, FALSE) \/ Running(appB, FALSE, TRUE) \/ Running(appB, TRUE, TRUE)

MCSpec == MCInit /\ [][Next]_vars /\ Fairness
=============================================================================
