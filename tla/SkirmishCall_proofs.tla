------------------------ MODULE SkirmishCall_proofs ------------------------
(* Theorems about SkirmishCall, for every set of tasks, calls and skirmishes: *)
(* a call is served once, nobody sleeps on what has happened, and the locks a *)
(* caller lends come back to it.                                              *)
EXTENDS SkirmishCall, SequenceTheorems, FiniteSetTheorems, WellFoundedInduction, TLAPS

(* Messages and executions *)

Ids == [call : Calls, serial : Nat \ {0}]

Executions ==
  [call : Calls, serial : Nat \ {0}, pid : Tasks, executed : BOOLEAN, signalled : BOOLEAN]

\* A message of a call that has been executed.
Known(m) == m \in Ids /\ m.serial <= serial[m.call]

LEMMA IdFacts ==
  ASSUME NEW e \in Executions
  PROVE  Id(e) \in Ids /\ Id(e).call = e.call /\ Id(e).serial = e.serial
BY DEF Id, Ids, Executions

\* A signal says nothing else of an execution.
LEMMA SignalledFacts ==
  ASSUME NEW e \in Executions
  PROVE  LET d == [e EXCEPT !.signalled = TRUE]
         IN  /\ d \in Executions /\ Id(d) = Id(e) /\ d.executed = e.executed
             /\ d.pid = e.pid
BY DEF Id, Executions

LEMMA ExecutedFacts ==
  ASSUME NEW e \in Executions
  PROVE  LET d == [e EXCEPT !.executed = TRUE]
         IN  /\ d \in Executions /\ Id(d) = Id(e) /\ d.executed = TRUE
             /\ d.pid = e.pid /\ d.signalled = e.signalled
BY DEF Id, Executions

LEMMA NoExecutionFacts == NoExecution \notin Ids /\ Id(NoCall) = NoExecution
BY DEF NoExecution, NoCall, Ids, Id

Queued(m) == \E f \in Fusionees : \E i \in 1..Len(inbox[f]) : inbox[f][i] = m

Served(m) == \E t \in Tasks : serving[t] = m

Messages == 
  /\ serial \in [Calls -> Nat]
  /\ executions \subseteq Executions /\ \A e \in executions : Known(Id(e))

\* The queue of a fusionee holds messages of its own calls, each once.
Queues ==
  /\ inbox \in [Fusionees -> Seq(Ids)]
  /\ \A f \in Fusionees : \A i \in 1..Len(inbox[f]) :
       /\ Known(inbox[f][i]) /\ Callee[inbox[f][i].call] = f
       /\ \A j \in 1..Len(inbox[f]) : inbox[f][i] = inbox[f][j] => i = j

\* A message that is served is in no queue, and nobody else serves it.
Serving ==
  /\ serving \in [Tasks -> Ids \cup {NoExecution}]
  /\ \A t \in Tasks : serving[t] # NoExecution =>
       /\ Known(serving[t]) /\ Callee[serving[t].call] = Owner[t] /\ ~Queued(serving[t])
       /\ \A u \in Tasks : serving[u] = serving[t] => u = t

\* An execution with a result is waited for by no message.
Answered == \A e \in executions : e.executed => ~Queued(Id(e)) /\ ~Served(Id(e))

MsgInv == Messages /\ Queues /\ Serving /\ Answered

LEMMA MsgInit == CallInit => MsgInv
<1> SUFFICES ASSUME CallInit PROVE MsgInv
  OBVIOUS
<1>1. Messages BY DEF CallInit, Messages
<1>2. Queues BY DEF CallInit, Queues
<1>3. Serving BY DEF CallInit, Serving
<1>4. Answered BY DEF CallInit, Answered
<1> QED BY <1>1, <1>2, <1>3, <1>4 DEF MsgInv

\* Executions, queues and what is served only shrink.
LEMMA MsgShrink ==
  ASSUME MsgInv, UNCHANGED serial, executions' \subseteq Executions,
         \A e \in executions' : \E d \in executions : Id(d) = Id(e) /\ d.executed = e.executed,
         inbox' \in [Fusionees -> Seq(Ids)], \A f \in Fusionees : inbox'[f] \in {inbox[f], <<>>},
         serving' \in [Tasks -> Ids \cup {NoExecution}],
         \A t \in Tasks : serving'[t] \in {serving[t], NoExecution}
  PROVE  MsgInv'
<1>1. \A m : Known(m)' <=> Known(m) BY DEF Known
<1>2. \A m : Queued(m)' => Queued(m)
  <2> SUFFICES ASSUME NEW m, Queued(m)' PROVE Queued(m)
    OBVIOUS
  <2>1. PICK f \in Fusionees : \E i \in 1..Len(inbox'[f]) : inbox'[f][i] = m BY DEF Queued
  <2>2. inbox'[f] = inbox[f] BY <2>1
  <2> QED BY <2>1, <2>2 DEF Queued
<1>3. Messages'
  <2>1. \A e \in executions' : Known(Id(e)) BY DEF MsgInv, Messages
  <2> QED BY <1>1, <2>1 DEF MsgInv, Messages
<1>4. Queues'
  <2> SUFFICES ASSUME NEW f \in Fusionees, NEW i \in 1..Len(inbox'[f])
               PROVE  /\ inbox'[f][i] \in Ids /\ inbox'[f][i].serial <= serial[inbox'[f][i].call]
                      /\ Callee[inbox'[f][i].call] = f
                      /\ \A j \in 1..Len(inbox'[f]) : inbox'[f][i] = inbox'[f][j] => i = j
    BY DEF Queues, Known
  <2>1. inbox'[f] = inbox[f] OBVIOUS
  <2> QED BY <2>1 DEF MsgInv, Queues, Known
<1>5. Serving'
  <2> SUFFICES ASSUME NEW t \in Tasks, serving'[t] # NoExecution
               PROVE  /\ serving'[t] \in Ids /\ serving'[t].serial <= serial[serving'[t].call]
                      /\ Callee[serving'[t].call] = Owner[t]
                      /\ \A f \in Fusionees : \A i \in 1..Len(inbox'[f]) : inbox'[f][i] # serving'[t]
                      /\ \A u \in Tasks : serving'[u] = serving'[t] => u = t
    BY DEF Serving, Known, Queued
  <2>1. serving'[t] = serving[t] OBVIOUS
  <2>2. \A f \in Fusionees : \A i \in 1..Len(inbox'[f]) : inbox'[f][i] # serving[t]
    <3>1. ~Queued(serving[t]) BY <2>1 DEF MsgInv, Serving
    <3>2. ASSUME NEW f \in Fusionees, NEW i \in 1..Len(inbox'[f]) PROVE inbox'[f] = inbox[f]
      OBVIOUS
    <3> QED BY <3>1, <3>2 DEF Queued
  <2> QED BY <2>1, <2>2 DEF MsgInv, Serving, Known
<1>6. Answered'
  <2> SUFFICES ASSUME NEW e \in executions', e.executed PROVE ~Queued(Id(e))' /\ ~Served(Id(e))'
    BY DEF Answered
  <2>1. PICK d \in executions : Id(d) = Id(e) /\ d.executed OBVIOUS
  <2>2. ~Queued(Id(e)) /\ ~Served(Id(e)) BY <2>1 DEF MsgInv, Answered
  <2>3. Id(e) # NoExecution BY IdFacts, NoExecutionFacts
  <2> QED BY <1>2, <2>2, <2>3 DEF Served
<1> QED BY <1>3, <1>4, <1>5, <1>6 DEF MsgInv

LEMMA MsgSame ==
  ASSUME MsgInv, UNCHANGED <<serial, executions, inbox, serving>>
  PROVE  MsgInv'
<1>1. /\ executions' \subseteq Executions
      /\ \A e \in executions' : \E d \in executions : Id(d) = Id(e) /\ d.executed = e.executed
      /\ inbox' \in [Fusionees -> Seq(Ids)] /\ serving' \in [Tasks -> Ids \cup {NoExecution}]
  BY DEF MsgInv, Messages, Queues, Serving
<1> QED BY <1>1, MsgShrink

\* A new message is not known yet.
LEMMA MsgExecute ==
  ASSUME MsgInv, NEW t \in Tasks, NEW c \in Calls, NEW r, Execute(t, c, r)
  PROVE  MsgInv'
<1> DEFINE n == serial[c] + 1
           f == Callee[c]
           m == [call |-> c, serial |-> n]
           e == [call |-> c, serial |-> n, pid |-> t, executed |-> FALSE, signalled |-> FALSE]
<1>1. serial \in [Calls -> Nat] /\ f \in Fusionees /\ inbox \in [Fusionees -> Seq(Ids)]
  BY CallsAssumption DEF MsgInv, Messages, Queues
<1>2. m \in Ids /\ e \in Executions /\ Id(e) = m /\ e.executed = FALSE /\ m.call = c /\ m.serial = n
  BY <1>1 DEF Ids, Executions, Id
<1>3. /\ serial' = [serial EXCEPT ![c] = n]
      /\ executions' = executions \cup {e}
      /\ inbox' = [inbox EXCEPT ![f] = Append(inbox[f], m)]
      /\ serving' = serving
  BY DEF Execute
<1> HIDE DEF m, e
<1>4. /\ serial' \in [Calls -> Nat] /\ serial'[c] = n
      /\ \A d \in Calls : serial[d] <= serial'[d]
  BY <1>1, <1>3
<1>5. ~Known(m) BY <1>1, <1>2 DEF Known
<1>6. \A x : Known(x) => x \in Ids /\ x.serial <= serial'[x.call]
  <2> SUFFICES ASSUME NEW x, Known(x) PROVE x \in Ids /\ x.serial <= serial'[x.call]
    OBVIOUS
  <2>1. x \in Ids /\ x.call \in Calls /\ x.serial \in Nat BY DEF Known, Ids
  <2>2. x.serial <= serial[x.call] /\ serial[x.call] <= serial'[x.call] BY <1>4, <2>1 DEF Known
  <2> QED BY <1>1, <1>4, <2>1, <2>2
<1>7. m.serial <= serial'[m.call] BY <1>1, <1>2, <1>4
<1>8. inbox[f] \in Seq(Ids) /\ Len(inbox[f]) \in Nat BY <1>1
<1>9. /\ inbox' \in [Fusionees -> Seq(Ids)]
      /\ Len(inbox'[f]) = Len(inbox[f]) + 1 /\ inbox'[f][Len(inbox[f]) + 1] = m
      /\ \A i \in 1..Len(inbox[f]) : inbox'[f][i] = inbox[f][i]
      /\ \A g \in Fusionees \ {f} : inbox'[g] = inbox[g]
  <2>1. /\ Append(inbox[f], m) \in Seq(Ids) /\ Len(Append(inbox[f], m)) = Len(inbox[f]) + 1
        /\ Append(inbox[f], m)[Len(inbox[f]) + 1] = m
        /\ \A i \in 1..Len(inbox[f]) : Append(inbox[f], m)[i] = inbox[f][i]
    BY <1>2, <1>8, AppendProperties
  <2> QED BY <1>1, <1>3, <2>1
<1>10. \A g \in Fusionees : \A i \in 1..Len(inbox'[g]) :
         \/ i \in 1..Len(inbox[g]) /\ inbox'[g][i] = inbox[g][i]
         \/ g = f /\ i = Len(inbox[f]) + 1 /\ inbox'[g][i] = m
  <2> SUFFICES ASSUME NEW g \in Fusionees, NEW i \in 1..Len(inbox'[g])
               PROVE  \/ i \in 1..Len(inbox[g]) /\ inbox'[g][i] = inbox[g][i]
                      \/ g = f /\ i = Len(inbox[f]) + 1 /\ inbox'[g][i] = m
    OBVIOUS
  <2>1. CASE g # f BY <1>9, <2>1
  <2>2. CASE g = f /\ i <= Len(inbox[f]) BY <1>8, <1>9, <2>2
  <2>3. CASE g = f /\ ~(i <= Len(inbox[f]))
    <3>1. i = Len(inbox[f]) + 1 BY <1>8, <1>9, <2>3
    <3> QED BY <1>9, <2>3, <3>1
  <2> QED BY <2>1, <2>2, <2>3
<1>11. \A x : Queued(x)' => Queued(x) \/ x = m BY <1>10 DEF Queued
<1>12. Messages'
  <2>1. \A d \in executions' : Id(d) \in Ids /\ Id(d).serial <= serial'[Id(d).call]
    BY <1>2, <1>3, <1>6, <1>7 DEF MsgInv, Messages
  <2> QED BY <1>2, <1>3, <1>4, <2>1 DEF MsgInv, Messages, Known
<1>13. Queues'
  <2>1. ASSUME NEW g \in Fusionees, NEW i \in 1..Len(inbox'[g])
        PROVE  /\ inbox'[g][i] \in Ids /\ inbox'[g][i].serial <= serial'[inbox'[g][i].call]
               /\ Callee[inbox'[g][i].call] = g
               /\ \A j \in 1..Len(inbox'[g]) : inbox'[g][i] = inbox'[g][j] => i = j
    <3>0. \A j \in 1..Len(inbox[g]) : inbox[g][j] # m BY <1>5 DEF MsgInv, Queues
    <3>1. CASE i \in 1..Len(inbox[g]) /\ inbox'[g][i] = inbox[g][i]
      <4>1. Known(inbox[g][i]) /\ Callee[inbox[g][i].call] = g BY <3>1 DEF MsgInv, Queues
      <4>2. \A j \in 1..Len(inbox'[g]) : inbox'[g][i] = inbox'[g][j] => i = j
        BY <1>10, <3>0, <3>1 DEF MsgInv, Queues
      <4> QED BY <1>6, <3>1, <4>1, <4>2
    <3>2. CASE g = f /\ i = Len(inbox[f]) + 1 /\ inbox'[g][i] = m
      <4>1. \A j \in 1..Len(inbox'[g]) : inbox'[g][i] = inbox'[g][j] => i = j
        BY <1>10, <3>0, <3>2
      <4> QED BY <1>2, <1>7, <3>2, <4>1
    <3> QED BY <1>10, <3>1, <3>2
  <2> QED BY <1>9, <2>1 DEF Queues, Known
<1>14. Serving'
  <2>1. ASSUME NEW u \in Tasks, serving[u] # NoExecution
        PROVE  /\ serving[u] \in Ids /\ serving[u].serial <= serial'[serving[u].call]
               /\ \A g \in Fusionees : \A i \in 1..Len(inbox'[g]) : inbox'[g][i] # serving[u]
    <3>1. Known(serving[u]) /\ ~Queued(serving[u]) BY <2>1 DEF MsgInv, Serving
    <3>2. serving[u] # m BY <1>5, <3>1
    <3> QED BY <1>6, <1>10, <3>1, <3>2 DEF Queued
  <2> QED BY <1>3, <2>1 DEF MsgInv, Serving, Known, Queued
<1>15. Answered'
  <2> SUFFICES ASSUME NEW d \in executions', d.executed PROVE ~Queued(Id(d))' /\ ~Served(Id(d))'
    BY DEF Answered
  <2>1. d \in executions BY <1>2, <1>3
  <2>2. ~Queued(Id(d)) /\ ~Served(Id(d)) /\ Known(Id(d)) BY <2>1 DEF MsgInv, Answered, Messages
  <2>3. Id(d) # m BY <1>5, <2>2
  <2>4. ~Served(Id(d))' BY <1>3, <2>2 DEF Served
  <2> QED BY <1>11, <2>2, <2>3, <2>4
<1> QED BY <1>12, <1>13, <1>14, <1>15 DEF MsgInv

LEMMA MsgServe ==
  ASSUME MsgInv, NEW t \in Tasks, serving[t] = NoExecution, inbox[Owner[t]] # <<>>,
         Serve(t, Owner[t]), UNCHANGED <<serial, executions>>
  PROVE  MsgInv'
<1> DEFINE f == Owner[t]
<1>0. PICK m : m = Head(inbox[f]) OBVIOUS
<1>1. f \in Fusionees /\ inbox \in [Fusionees -> Seq(Ids)] BY TasksAssumption DEF MsgInv, Queues
<1>2. /\ m = inbox[f][1] /\ 1 \in 1..Len(inbox[f]) /\ Len(Tail(inbox[f])) = Len(inbox[f]) - 1
      /\ Tail(inbox[f]) \in Seq(Ids) /\ Len(inbox[f]) \in Nat
      /\ \A i \in 1..Len(Tail(inbox[f])) : Tail(inbox[f])[i] = inbox[f][i + 1]
  BY <1>0, <1>1, HeadTailProperties, EmptySeq
<1>3. serving' = [serving EXCEPT ![t] = m] /\ inbox' = [inbox EXCEPT ![f] = Tail(inbox[f])]
  BY <1>0 DEF Serve
<1>4. /\ inbox' \in [Fusionees -> Seq(Ids)] /\ Len(inbox'[f]) = Len(inbox[f]) - 1
      /\ \A i \in 1..Len(inbox'[f]) : i + 1 \in 1..Len(inbox[f]) /\ inbox'[f][i] = inbox[f][i + 1]
      /\ \A g \in Fusionees \ {f} : inbox'[g] = inbox[g]
  BY <1>1, <1>2, <1>3
<1>5. Known(m) /\ Callee[m.call] = f /\ m \in Ids BY <1>1, <1>2 DEF MsgInv, Queues, Known
<1>6. /\ serving' \in [Tasks -> Ids \cup {NoExecution}] /\ serving'[t] = m
      /\ \A u \in Tasks \ {t} : serving'[u] = serving[u]
  BY <1>3, <1>5 DEF MsgInv, Serving
<1>7. ASSUME NEW g \in Fusionees, NEW i \in 1..Len(inbox'[g])
      PROVE  /\ \E j \in 1..Len(inbox[g]) : inbox'[g][i] = inbox[g][j] /\ j = IF g = f THEN i + 1 ELSE i
             /\ inbox'[g][i] # m
  <2>1. CASE g = f
    <3>1. i + 1 \in 1..Len(inbox[f]) /\ inbox'[f][i] = inbox[f][i + 1] BY <1>4, <2>1
    <3>2. i + 1 # 1 BY <1>4, <2>1
    <3>3. inbox[f][i + 1] # m BY <1>1, <1>2, <3>1, <3>2 DEF MsgInv, Queues
    <3> QED BY <2>1, <3>1, <3>3
  <2>2. CASE g # f
    <3>1. inbox'[g] = inbox[g] BY <1>4, <2>2
    <3>2. Callee[inbox[g][i].call] = g BY <3>1 DEF MsgInv, Queues
    <3> QED BY <1>5, <2>2, <3>1, <3>2
  <2> QED BY <2>1, <2>2
<1>8. ASSUME NEW x, Queued(x)' PROVE Queued(x) /\ x # m
  <2>1. PICK g \in Fusionees : \E i \in 1..Len(inbox'[g]) : inbox'[g][i] = x BY <1>8 DEF Queued
  <2>2. PICK i \in 1..Len(inbox'[g]) : inbox'[g][i] = x BY <2>1
  <2> QED BY <1>7, <2>2 DEF Queued
<1>9. Queued(m) BY <1>1, <1>2 DEF Queued
<1>10. \A u \in Tasks : serving[u] # m
  BY <1>5, <1>9, NoExecutionFacts DEF MsgInv, Serving
<1>11. Messages' BY DEF MsgInv, Messages, Known
<1>12. Queues'
  <2>1. ASSUME NEW g \in Fusionees, NEW i \in 1..Len(inbox'[g])
        PROVE  /\ inbox'[g][i] \in Ids /\ inbox'[g][i].serial <= serial[inbox'[g][i].call]
               /\ Callee[inbox'[g][i].call] = g
               /\ \A j \in 1..Len(inbox'[g]) : inbox'[g][i] = inbox'[g][j] => i = j
    <3>1. PICK j \in 1..Len(inbox[g]) : inbox'[g][i] = inbox[g][j] /\ j = IF g = f THEN i + 1 ELSE i
      BY <1>7
    <3>2. Known(inbox[g][j]) /\ Callee[inbox[g][j].call] = g BY DEF MsgInv, Queues
    <3>3. ASSUME NEW k \in 1..Len(inbox'[g]), inbox'[g][i] = inbox'[g][k] PROVE i = k
      <4>1. PICK h \in 1..Len(inbox[g]) : inbox'[g][k] = inbox[g][h] /\ h = IF g = f THEN k + 1 ELSE k
        BY <1>7
      <4>2. h = j BY <3>1, <3>3, <4>1 DEF MsgInv, Queues
      <4>3. i \in Int /\ k \in Int BY <1>4
      <4> QED BY <3>1, <4>1, <4>2, <4>3
    <3> QED BY <3>1, <3>2, <3>3 DEF Known
  <2> QED BY <1>4, <2>1 DEF Queues, Known
<1>13. Serving'
  <2>1. ASSUME NEW u \in Tasks, serving'[u] # NoExecution
        PROVE  /\ serving'[u] \in Ids /\ serving'[u].serial <= serial[serving'[u].call]
               /\ Callee[serving'[u].call] = Owner[u]
               /\ \A g \in Fusionees : \A i \in 1..Len(inbox'[g]) : inbox'[g][i] # serving'[u]
               /\ \A v \in Tasks : serving'[v] = serving'[u] => v = u
    <3>1. CASE u = t
      <4>1. \A g \in Fusionees : \A i \in 1..Len(inbox'[g]) : inbox'[g][i] # m BY <1>7
      <4>2. \A v \in Tasks : serving'[v] = m => v = t BY <1>6, <1>10
      <4> QED BY <1>5, <1>6, <3>1, <4>1, <4>2 DEF Known
    <3>2. CASE u # t
      <4>1. serving'[u] = serving[u] BY <1>6, <3>2
      <4>2. \A g \in Fusionees : \A i \in 1..Len(inbox'[g]) : inbox'[g][i] # serving[u]
        <5>1. ~Queued(serving[u]) BY <2>1, <4>1 DEF MsgInv, Serving
        <5> QED BY <1>7, <5>1 DEF Queued
      <4>3. Known(serving[u]) /\ Callee[serving[u].call] = Owner[u] BY <2>1, <4>1 DEF MsgInv, Serving
      <4>4. \A v \in Tasks : serving'[v] = serving[u] => v = u
        BY <1>6, <1>10, <2>1, <4>1 DEF MsgInv, Serving
      <4> QED BY <4>1, <4>2, <4>3, <4>4 DEF Known
    <3> QED BY <3>1, <3>2
  <2> QED BY <1>6, <2>1 DEF Serving, Known, Queued
<1>14. Answered'
  <2> SUFFICES ASSUME NEW d \in executions, d.executed PROVE ~Queued(Id(d))' /\ ~Served(Id(d))'
    BY DEF Answered
  <2>1. ~Queued(Id(d)) /\ ~Served(Id(d)) BY DEF MsgInv, Answered
  <2>2. Id(d) # m BY <1>9, <2>1
  <2>3. \A u \in Tasks : serving'[u] # Id(d) BY <1>6, <2>1, <2>2 DEF Served
  <2>4. ~Queued(Id(d))' BY <1>8, <2>1
  <2> QED BY <2>3, <2>4 DEF Served
<1> QED BY <1>11, <1>12, <1>13, <1>14 DEF MsgInv

LEMMA MsgReturnResult ==
  ASSUME MsgInv, NEW t \in Tasks, serving[t] # NoExecution, NEW e \in Found(t),
         executions' = (executions \ {e}) \cup {[e EXCEPT !.executed = TRUE]},
         serving' = [serving EXCEPT ![t] = NoExecution], UNCHANGED <<serial, inbox>>
  PROVE  MsgInv'
<1> DEFINE d == [e EXCEPT !.executed = TRUE]
<1>1. e \in executions /\ Id(e) = serving[t] /\ e \in Executions
  BY DEF Found, MsgInv, Messages
<1>2. d \in Executions /\ Id(d) = Id(e) BY <1>1, ExecutedFacts
<1>3. executions' = (executions \ {e}) \cup {d} OBVIOUS
<1> HIDE DEF d
<1>4. /\ serving' \in [Tasks -> Ids \cup {NoExecution}] /\ serving'[t] = NoExecution
      /\ \A u \in Tasks \ {t} : serving'[u] = serving[u]
  BY DEF MsgInv, Serving
<1>5. \A x : Queued(x)' <=> Queued(x) BY DEF Queued
<1>6. Messages'
  <2>1. \A x \in executions' : Id(x) \in Ids /\ Id(x).serial <= serial[Id(x).call]
    BY <1>1, <1>2, <1>3 DEF MsgInv, Messages, Known
  <2> QED BY <1>2, <1>3, <2>1 DEF MsgInv, Messages, Known
<1>7. Queues' BY DEF MsgInv, Queues, Known
<1>8. Serving'
  <2>1. ASSUME NEW u \in Tasks, serving'[u] # NoExecution
        PROVE  /\ Known(serving[u]) /\ Callee[serving[u].call] = Owner[u] /\ ~Queued(serving[u])
               /\ serving'[u] = serving[u]
               /\ \A v \in Tasks : serving'[v] = serving'[u] => v = u
    BY <1>4, <2>1 DEF MsgInv, Serving
  <2> QED BY <1>4, <2>1 DEF Serving, Known, Queued
<1>9. Answered'
  <2> SUFFICES ASSUME NEW x \in executions', x.executed PROVE ~Queued(Id(x))' /\ ~Served(Id(x))'
    BY DEF Answered
  <2>1. CASE x = d
    <3>1. ~Queued(serving[t]) /\ \A u \in Tasks \ {t} : serving[u] # serving[t]
      BY DEF MsgInv, Serving
    <3>2. \A u \in Tasks : serving'[u] # Id(x) BY <1>1, <1>2, <1>4, <2>1, <3>1
    <3> QED BY <1>1, <1>2, <1>5, <2>1, <3>1, <3>2 DEF Served
  <2>2. CASE x # d
    <3>1. x \in executions BY <1>3, <2>2
    <3>2. ~Queued(Id(x)) /\ ~Served(Id(x)) /\ Id(x) \in Ids
      BY <3>1, IdFacts DEF MsgInv, Answered, Messages
    <3>3. \A u \in Tasks : serving'[u] # Id(x) BY <1>4, <3>2, NoExecutionFacts DEF Served
    <3> QED BY <1>5, <3>2, <3>3 DEF Served
  <2> QED BY <2>1, <2>2
<1> QED BY <1>6, <1>7, <1>8, <1>9 DEF MsgInv

\* Steps that end executions, or mark one as interrupted.
LEMMA MsgFewer ==
  ASSUME MsgInv, UNCHANGED <<serial, inbox>>, executions' \subseteq executions,
         serving' = serving \/ \E t \in Tasks : serving' = [serving EXCEPT ![t] = NoExecution]
  PROVE  MsgInv'
<1>1. executions' \subseteq Executions BY DEF MsgInv, Messages
<1>2. \A e \in executions' : \E d \in executions : Id(d) = Id(e) /\ d.executed = e.executed OBVIOUS
<1>3. /\ inbox' \in [Fusionees -> Seq(Ids)]
      /\ \A f \in Fusionees : inbox'[f] \in {inbox[f], <<>>}
  BY DEF MsgInv, Queues
<1>4. /\ serving' \in [Tasks -> Ids \cup {NoExecution}]
      /\ \A t \in Tasks : serving'[t] \in {serving[t], NoExecution}
  BY DEF MsgInv, Serving
<1> QED BY <1>1, <1>2, <1>3, <1>4, MsgShrink

LEMMA MsgInterrupted ==
  ASSUME MsgInv, NEW t \in Tasks, CallInterrupted(t)
  PROVE  MsgInv'
<1>1. UNCHANGED <<serial, inbox, serving>> BY DEF CallInterrupted
<1>2. CASE executions' = executions BY <1>1, <1>2, MsgSame
<1>3. CASE executions' = {IF Id(e) = Id(executing[t]) THEN [e EXCEPT !.signalled = TRUE] ELSE e :
                           e \in executions}
  <2>1. \A e \in executions' : \E d \in executions :
          e \in Executions /\ Id(d) = Id(e) /\ d.executed = e.executed
    BY <1>3, SignalledFacts, ZenonT(30) DEF MsgInv, Messages
  <2> QED BY <1>1, <2>1, MsgShrink DEF MsgInv, Queues, Serving
<1> QED BY <1>2, <1>3 DEF CallInterrupted

LEMMA MsgRelease ==
  ASSUME MsgInv, NEW f \in Fusionees, CallRelease(f)
  PROVE  MsgInv'
<1>1. CASE UNCHANGED callVars BY <1>1, MsgSame DEF callVars
<1>2. CASE ~UNCHANGED callVars
  <2>1. /\ UNCHANGED <<serial, serving>> /\ executions' \subseteq executions
        /\ inbox' = [inbox EXCEPT ![f] = <<>>]
    BY <1>2 DEF CallRelease, Asserting, DestroyCalls
  <2>2. /\ executions' \subseteq Executions
        /\ \A e \in executions' : \E d \in executions : Id(d) = Id(e) /\ d.executed = e.executed
    BY <2>1 DEF MsgInv, Messages
  <2>3. /\ inbox' \in [Fusionees -> Seq(Ids)]
        /\ \A g \in Fusionees : inbox'[g] \in {inbox[g], <<>>}
    BY <2>1 DEF MsgInv, Queues
  <2> QED BY <2>1, <2>2, <2>3, MsgShrink DEF MsgInv, Serving
<1> QED BY <1>1, <1>2

LEMMA MsgFinish ==
  ASSUME MsgInv, NEW t \in Tasks, Finish(t)
  PROVE  MsgInv'
<1>1. CASE UNCHANGED callVars BY <1>1, MsgSame DEF callVars
<1>2. CASE ~UNCHANGED callVars
  <2>1. UNCHANGED <<serial, inbox, serving>> /\ executions' \subseteq executions
    BY <1>2 DEF Finish, Asserting
  <2> QED BY <2>1, MsgFewer
<1> QED BY <1>1, <1>2

LEMMA MsgAwait ==
  ASSUME MsgInv, NEW t \in Tasks, AwaitResult(t)
  PROVE  MsgInv'
<1>1. CASE Finish(t) BY <1>1, MsgFinish
<1>2. CASE UNCHANGED callVars BY <1>2, MsgSame DEF callVars
<1> QED BY <1>1, <1>2 DEF AwaitResult

LEMMA MsgReturn ==
  ASSUME MsgInv, NEW t \in Tasks, Return(t)
  PROVE  MsgInv'
<1>1. CASE /\ ReturnFails(t)
           /\ serving' = [serving EXCEPT ![t] = NoExecution]
           /\ UNCHANGED <<calls, serial, inbox, executing, destroying, callsLeft>>
  <2>1. executions' \subseteq executions BY <1>1 DEF ReturnFails
  <2> QED BY <1>1, <2>1, MsgFewer
<1>2. ASSUME NEW e \in Found(t), ReturnResult(t, e) PROVE MsgInv'
  <2>1. CASE UNCHANGED callVars BY <2>1, MsgSame DEF callVars
  <2>2. CASE ~UNCHANGED callVars
    <3>1. /\ executions' = (executions \ {e}) \cup {[e EXCEPT !.executed = TRUE]}
          /\ serving' = [serving EXCEPT ![t] = NoExecution] /\ UNCHANGED <<serial, inbox>>
      BY <1>2, <2>2 DEF ReturnResult, Asserting
    <3>2. serving[t] # NoExecution BY DEF Return
    <3> QED BY <3>1, <3>2, MsgReturnResult
  <2> QED BY <2>1, <2>2
<1> QED BY <1>1, <1>2 DEF Return

LEMMA MsgRead ==
  ASSUME MsgInv, NEW t \in Tasks, Read(t)
  PROVE  MsgInv'
<1>1. UNCHANGED <<serial, executions>> /\ serving[t] = NoExecution BY DEF Read
<1>2. CASE UNCHANGED <<inbox, serving>> BY <1>1, <1>2, MsgSame
<1>3. CASE inbox[Owner[t]] # <<>> /\ Serve(t, Owner[t]) BY <1>1, <1>3, MsgServe
<1> QED BY <1>2, <1>3 DEF Read

LEMMA MsgStep == MsgInv /\ [CallNext]_allVars => MsgInv'
<1> SUFFICES ASSUME MsgInv, [CallNext]_allVars PROVE MsgInv'
  OBVIOUS
<1>1. ASSUME NEW t \in Tasks, NEW s \in Skirmishes, SkirmishStep(t, s) PROVE MsgInv'
  BY <1>1, MsgSame DEF SkirmishStep, callVars
<1>2. ASSUME NEW t \in Tasks, SkirmishResume(t) PROVE MsgInv'
  BY <1>2, MsgSame DEF SkirmishResume, callVars
<1>3. ASSUME NEW t \in Tasks, NEW c \in Calls, NEW r \in Resumable, Execute(t, c, r) PROVE MsgInv'
  BY <1>3, MsgExecute
<1>4. ASSUME NEW t \in Tasks, NEW c \in Calls, CallDestroy(t, c) PROVE MsgInv'
  BY <1>4, MsgSame DEF CallDestroy
<1>5. ASSUME NEW t \in Tasks, CallResume(t) PROVE MsgInv'
  BY <1>5, MsgInterrupted, MsgAwait DEF CallResume
<1>6. ASSUME NEW t \in Tasks, ExecuteAgain(t) PROVE MsgInv'
  BY <1>6, MsgAwait, MsgSame DEF ExecuteAgain
<1>7. ASSUME NEW t \in Tasks, DestroyResume(t) PROVE MsgInv'
  BY <1>7, MsgSame DEF DestroyResume
<1>8. ASSUME NEW t \in Tasks, Return(t) PROVE MsgInv' BY <1>8, MsgReturn
<1>9. ASSUME NEW t \in Tasks, ReadFree(t) PROVE MsgInv' BY <1>9, MsgRead DEF ReadFree
<1>10. ASSUME NEW t \in Tasks, Disturb(t) PROVE MsgInv'
  <2>1. CASE CallExit(t)
    <3>1. /\ UNCHANGED <<serial, executions, inbox>>
          /\ serving' = [serving EXCEPT ![t] = NoExecution]
      BY <2>1 DEF CallExit
    <3> QED BY <3>1, MsgFewer
  <2>2. CASE UNCHANGED callVars BY <2>2, MsgSame DEF callVars
  <2> QED BY <1>10, <2>1, <2>2 DEF Disturb, CallSignal
<1>11. ASSUME NEW f \in Fusionees, CallRelease(f) PROVE MsgInv' BY <1>11, MsgRelease
<1>12. CASE UNCHANGED allVars BY <1>12, MsgSame DEF allVars, callVars
<1> QED
  BY <1>1, <1>2, <1>3, <1>4, <1>5, <1>6, <1>7, <1>8, <1>9, <1>10, <1>11, <1>12
     DEF CallNext, CallStep

LEMMA MsgInductive == CallSpec => []MsgInv
<1> QED BY MsgInit, MsgStep, PTL DEF CallSpec

\* A call is executed once: its message waits, is served or was answered, through
\* signals, deaths and calls that are destroyed.
THEOREM CallsServedOnce == CallSpec => []ServedOnce
<1>1. MsgInv => ServedOnce
  <2> SUFFICES ASSUME MsgInv, NEW e \in executions
      PROVE  Cardinality({i \in DOMAIN inbox[Callee[e.call]] : inbox[Callee[e.call]][i] = Id(e)})
             + Cardinality({t \in Tasks : serving[t] = Id(e)})
             <= IF e.executed THEN 0 ELSE 1
    BY DEF ServedOnce
  <2> DEFINE f == Callee[e.call]
             A == {i \in DOMAIN inbox[f] : inbox[f][i] = Id(e)}
             B == {t \in Tasks : serving[t] = Id(e)}
  <2>1. e \in Executions /\ f \in Fusionees /\ Id(e) \in Ids
    BY CallsAssumption, IdFacts DEF MsgInv, Messages, Executions
  <2>2. DOMAIN inbox[f] = 1..Len(inbox[f]) BY <2>1, LenProperties DEF MsgInv, Queues
  <2>3. A = {} \/ \E i : A = {i}
    <3>1. \A i, j \in A : i = j BY <2>1, <2>2 DEF MsgInv, Queues
    <3> QED BY <3>1
  <2>4. B = {} \/ \E t : B = {t}
    <3>1. \A t, u \in B : t = u BY <2>1, NoExecutionFacts DEF MsgInv, Serving
    <3> QED BY <3>1
  <2>5. A = {} \/ B = {}
    <3>1. ASSUME NEW i \in A, NEW t \in B PROVE FALSE
      <4>1. Queued(Id(e)) BY <2>1, <2>2, <3>1 DEF Queued
      <4>2. serving[t] = Id(e) /\ serving[t] # NoExecution BY <2>1, <3>1, NoExecutionFacts
      <4> QED BY <4>1, <4>2 DEF MsgInv, Serving
    <3> QED BY <3>1
  <2>6. e.executed => A = {} /\ B = {}
    <3> SUFFICES ASSUME e.executed PROVE A = {} /\ B = {}
      OBVIOUS
    <3>1. ~Queued(Id(e)) /\ ~Served(Id(e)) BY DEF MsgInv, Answered
    <3> QED BY <2>1, <2>2, <3>1 DEF Queued, Served
  <2>7. /\ A = {} => Cardinality(A) = 0
        /\ A # {} => Cardinality(A) = 1
    <3> HIDE DEF A
    <3> QED BY <2>3, FS_EmptySet, FS_Singleton
  <2>8. /\ B = {} => Cardinality(B) = 0
        /\ B # {} => Cardinality(B) = 1
    <3> HIDE DEF B
    <3> QED BY <2>4, FS_EmptySet, FS_Singleton
  <2> HIDE DEF A, B
  <2>9. Cardinality(A) + Cardinality(B) <= IF e.executed THEN 0 ELSE 1
    BY <2>5, <2>6, <2>7, <2>8
  <2> QED BY <2>9 DEF A, B
<1> QED BY <1>1, MsgInductive, PTL

-----------------------------------------------------------------------------
(* Sleepers and what they wait for *)

\* The kernel waits of a task.
Places == {"call", "destroy", "read", "prevail", "relock", "wait"}

\* What is locked or lent has a depth.
LockInv ==
  /\ state = [s \in Skirmishes |-> "live"]
  /\ lock_pid \in [Skirmishes -> Tasks \cup {Nobody, Returned}]
  /\ lock_count \in [Skirmishes -> Nat]
  /\ transfer \in [Skirmishes -> Transfers] /\ transfer2 \in [Skirmishes -> Transfers]
  /\ \A s \in Skirmishes :
       /\ lock_pid[s] \in Tasks => lock_count[s] > 0
       /\ transfer[s].to # Nobody => transfer[s].count > 0
       /\ transfer2[s].to # Nobody => transfer2[s].count > 0

\* A wait that is kept has a depth, and a notification is later than its counter.
WaitInv ==
  /\ notify_count \in [Skirmishes -> Nat] /\ wait \in [Tasks -> Waits]
  /\ notified \subseteq Tasks
  /\ \A t \in Tasks :
       /\ pc[t] \in {"wait", "relock"} => wait[t].lock_count > 0
       /\ wait[t].id \in Skirmishes <=> wait[t].lock_count > 0
       /\ wait[t].lock_count > 0 => wait[t].notify_count <= notify_count[wait[t].id]
       /\ t \in notified => wait[t].lock_count > 0 /\ wait[t].notify_count < notify_count[wait[t].id]

\* Who sleeps is in one of the kernel's waits.
TaskInv ==
  /\ pc \in [Tasks -> Places \cup {"user", "dead"}]
  /\ obj \in [Tasks -> Skirmishes \cup {Nobody}]
  /\ asleep \subseteq Tasks /\ \A t \in asleep : pc[t] \in Places
  /\ executing \in [Tasks -> [call : Calls \cup {Nobody}, serial : Nat, resumable : BOOLEAN]]
  /\ destroying \in [Tasks -> Ids \cup {NoExecution}]

\* A caller sleeps until its result is there, a destroyer while its execution is
\* listed, a reader while its queue is empty,
CallFine(t) ==
  /\ pc[t] = "call"    => ~Executed(t)
  /\ pc[t] = "destroy" => destroying[t] \in {Id(e) : e \in executions}
  /\ pc[t] = "read"    => inbox[Owner[t]] = <<>>

\* and who sleeps on a skirmish while it is taken, or until a notification.
LockFine(t) ==
  /\ pc[t] \in {"prevail", "relock", "wait"} => obj[t] \in Skirmishes
  /\ pc[t] = "prevail" => MustWait(obj[t], t)
  /\ pc[t] = "relock"  => lock_pid[obj[t]] # Nobody
  /\ pc[t] = "wait"    => obj[t] = wait[t].id /\ t \notin notified

SleepInv == \A t \in asleep : CallFine(t) /\ LockFine(t)

LEMMA LiveAll ==
  ASSUME LockInv
  PROVE  Live = Skirmishes
BY DEF LockInv, Live

LEMMA NobodyFacts ==
  /\ Nobody \notin Tasks /\ Nobody \notin Fusionees /\ Nobody \notin Skirmishes
  /\ Returned \notin Tasks /\ Returned # Nobody
BY TasksAssumption

LEMMA NoTransferFacts ==
  NoTransfer \in Transfers /\ NoTransfer.to = Nobody /\ NoTransfer.from_pid = Nobody
BY DEF NoTransfer, Transfers

LEMMA InnermostFacts ==
  ASSUME LockInv, NEW s \in Skirmishes
  PROVE  /\ Innermost(s) \in Transfers
         /\ Innermost(s).to # Nobody => Innermost(s).count > 0
BY DEF LockInv, Innermost

LEMMA LocksKept ==
  ASSUME LockInv, UNCHANGED <<state, lock_pid, lock_count, transfer, transfer2>>
  PROVE  LockInv'
BY DEF LockInv

LEMMA TakeLocks ==
  ASSUME LockInv, NEW s \in Skirmishes, NEW t \in Tasks, NEW n \in Nat, n > 0,
         Take(s, t, n), UNCHANGED <<state, transfer, transfer2>>
  PROVE  LockInv'
<1>1. /\ lock_pid' = [lock_pid EXCEPT ![s] = t] /\ lock_count' = [lock_count EXCEPT ![s] = n]
      /\ UNCHANGED <<state, transfer, transfer2>>
  BY DEF Take
<1> QED BY <1>1 DEF LockInv

LEMMA DeepenLocks ==
  ASSUME LockInv, NEW s \in Skirmishes, NEW t \in Tasks,
         Deepen(s, t), UNCHANGED <<state, transfer, transfer2>>
  PROVE  LockInv'
<1>1. lock_count' = [lock_count EXCEPT ![s] = lock_count[s] + 1]
      /\ UNCHANGED <<state, lock_pid, transfer, transfer2>>
  BY DEF Deepen
<1> QED BY <1>1 DEF LockInv

LEMMA DismissLocks ==
  ASSUME LockInv, NEW s \in Skirmishes, NEW t \in Tasks, Dismiss(t, s)
  PROVE  LockInv'
<1>1. /\ lock_count' = [lock_count EXCEPT ![s] = lock_count[s] - 1]
      /\ UNCHANGED <<state, transfer, transfer2>> /\ lock_pid[s] = t
  BY DEF Dismiss, transfers
<1>2. lock_count[s] \in Nat /\ lock_count[s] > 0 BY <1>1 DEF LockInv
<1>3. CASE lock_count[s] = 1
  <2>1. lock_pid' = [lock_pid EXCEPT ![s] = Nobody] BY <1>3 DEF Dismiss
  <2> QED BY <1>1, <1>3, <2>1, NobodyFacts DEF LockInv
<1>4. CASE lock_count[s] # 1
  <2>1. lock_pid' = lock_pid BY <1>4 DEF Dismiss
  <2> QED BY <1>1, <1>2, <1>4, <2>1 DEF LockInv
<1> QED BY <1>3, <1>4

\* A lock that is lent keeps its depth in the slot.
LEMMA TransferLocks ==
  ASSUME LockInv, NEW t \in Tasks, NEW f \in Fusionees, NEW n \in Nat,
         TransferAll(t, f, n), UNCHANGED state
  PROVE  LockInv'
<1> DEFINE mine   == {s \in Live : lock_pid[s] = t}
           first  == {s \in mine : transfer[s].to = Nobody}
           second == {s \in mine \ first : transfer2[s].to = Nobody}
           Slot(s) == [to |-> f, from |-> Owner[t], from_pid |-> t,
                       count |-> lock_count[s], serial |-> n]
<1>1. /\ transfer'   = [s \in Skirmishes |-> IF s \in first THEN Slot(s) ELSE transfer[s]]
      /\ transfer2'  = [s \in Skirmishes |-> IF s \in second THEN Slot(s) ELSE transfer2[s]]
      /\ lock_pid'   = [s \in Skirmishes |-> IF s \in first \cup second THEN Nobody ELSE lock_pid[s]]
      /\ lock_count' = [s \in Skirmishes |-> IF s \in first \cup second THEN 0 ELSE lock_count[s]]
  BY DEF TransferAll
<1>2. \A s \in mine : Slot(s) \in Transfers /\ Slot(s).count > 0
  BY TasksAssumption DEF LockInv, Transfers, Live
<1>3. first \subseteq mine /\ second \subseteq mine OBVIOUS
<1> HIDE DEF mine, first, second, Slot
<1>4. lock_pid' \in [Skirmishes -> Tasks \cup {Nobody, Returned}] /\ lock_count' \in [Skirmishes -> Nat]
  BY <1>1 DEF LockInv
<1>5. transfer' \in [Skirmishes -> Transfers] /\ transfer2' \in [Skirmishes -> Transfers]
  BY <1>1, <1>2, <1>3 DEF LockInv
<1>6. ASSUME NEW s \in Skirmishes
      PROVE  /\ lock_pid'[s] \in Tasks => lock_count'[s] > 0
             /\ transfer'[s].to # Nobody => transfer'[s].count > 0
             /\ transfer2'[s].to # Nobody => transfer2'[s].count > 0
  <2>1. lock_pid'[s] \in Tasks => lock_count'[s] > 0 BY <1>1, NobodyFacts DEF LockInv
  <2>2. transfer'[s].to # Nobody => transfer'[s].count > 0
    <3>1. transfer'[s] = IF s \in first THEN Slot(s) ELSE transfer[s] BY <1>1
    <3> QED BY <1>2, <1>3, <3>1 DEF LockInv
  <2>3. transfer2'[s].to # Nobody => transfer2'[s].count > 0
    <3>1. transfer2'[s] = IF s \in second THEN Slot(s) ELSE transfer2[s] BY <1>1
    <3> QED BY <1>2, <1>3, <3>1 DEF LockInv
  <2> QED BY <2>1, <2>2, <2>3
<1> QED BY <1>4, <1>5, <1>6 DEF LockInv

LEMMA ReclaimLocks ==
  ASSUME LockInv, NEW t \in Tasks, ReclaimAll(t), UNCHANGED state
  PROVE  LockInv'
<1> DEFINE R == Reclaimed(t)
<1>1. /\ lock_pid'   = [s \in Skirmishes |-> IF s \in R THEN t ELSE lock_pid[s]]
      /\ lock_count' = [s \in Skirmishes |-> IF s \in R THEN Innermost(s).count ELSE lock_count[s]]
      /\ transfer'  = [s \in Skirmishes |->
                         IF s \in R /\ transfer2[s].to = Nobody THEN NoTransfer ELSE transfer[s]]
      /\ transfer2' = [s \in Skirmishes |-> IF s \in R THEN NoTransfer ELSE transfer2[s]]
  BY DEF ReclaimAll, RelockLent, EmptySlot
<1>2. \A s \in R : s \in Skirmishes /\ Innermost(s).count \in Nat /\ Innermost(s).count > 0
  BY InnermostFacts DEF Reclaimed, Live, Transfers
<1> HIDE DEF R
<1>3. lock_pid' \in [Skirmishes -> Tasks \cup {Nobody, Returned}] /\ lock_count' \in [Skirmishes -> Nat]
  BY <1>1, <1>2 DEF LockInv
<1>4. transfer' \in [Skirmishes -> Transfers] /\ transfer2' \in [Skirmishes -> Transfers]
  BY <1>1, NoTransferFacts DEF LockInv
<1>5. ASSUME NEW s \in Skirmishes
      PROVE  /\ lock_pid'[s] \in Tasks => lock_count'[s] > 0
             /\ transfer'[s].to # Nobody => transfer'[s].count > 0
             /\ transfer2'[s].to # Nobody => transfer2'[s].count > 0
  <2>1. lock_pid'[s] \in Tasks => lock_count'[s] > 0 BY <1>1, <1>2 DEF LockInv
  <2>2. transfer'[s] \in {NoTransfer, transfer[s]} /\ transfer2'[s] \in {NoTransfer, transfer2[s]}
    BY <1>1
  <2> QED BY <2>1, <2>2, NoTransferFacts DEF LockInv
<1> QED BY <1>3, <1>4, <1>5 DEF LockInv

LEMMA SerialFacts ==
  ASSUME NEW x \in Transfers, NEW n \in Nat
  PROVE  LET y == [x EXCEPT !.serial = n]
         IN  /\ y \in Transfers /\ y.to = x.to /\ y.from = x.from /\ y.from_pid = x.from_pid
             /\ y.count = x.count /\ y.serial = n
BY DEF Transfers

\* What dismissing leaves in the slots.
LEMMA DroppedFacts ==
  ASSUME LockInv, NEW S1, NEW S2
  PROVE  /\ Dropped(S1, S2) \in [Skirmishes -> Transfers]
         /\ Dropped2(S1 \cup S2) \in [Skirmishes -> Transfers]
         /\ \A s \in Skirmishes :
              /\ Dropped(S1, S2)[s].to # Nobody => Dropped(S1, S2)[s].count > 0
              /\ Dropped2(S1 \cup S2)[s].to # Nobody => Dropped2(S1 \cup S2)[s].count > 0
              /\ s \notin S1 \cup S2 => Dropped(S1, S2)[s] = transfer[s] /\ Dropped2(S1 \cup S2)[s] = transfer2[s]
<1> DEFINE D == Dropped(S1, S2)
           E == Dropped2(S1 \cup S2)
           W(s) == [transfer2[s] EXCEPT !.serial = transfer[s].serial]
<1>1. /\ D = [s \in Skirmishes |-> IF s \notin S1 THEN transfer[s]
                                   ELSE IF s \in S2 \/ transfer2[s].to = Nobody THEN NoTransfer
                                   ELSE W(s)]
      /\ E = [s \in Skirmishes |-> IF s \in S1 \cup S2 THEN NoTransfer ELSE transfer2[s]]
  BY DEF Dropped, Dropped2
<1>2. \A s \in Skirmishes : W(s) \in Transfers /\ W(s).to = transfer2[s].to /\ W(s).count = transfer2[s].count
  <2> TAKE s \in Skirmishes
  <2>1. transfer2[s] \in Transfers /\ transfer[s].serial \in Nat BY DEF LockInv, Transfers
  <2> QED BY <2>1, SerialFacts
<1> HIDE DEF D, E, W
<1>3. D \in [Skirmishes -> Transfers] /\ E \in [Skirmishes -> Transfers]
  BY <1>1, <1>2, NoTransferFacts DEF LockInv
<1>4. ASSUME NEW s \in Skirmishes
      PROVE  /\ D[s].to # Nobody => D[s].count > 0
             /\ E[s].to # Nobody => E[s].count > 0
             /\ s \notin S1 \cup S2 => D[s] = transfer[s] /\ E[s] = transfer2[s]
  <2>1. /\ D[s] \in {transfer[s], NoTransfer, W(s)} /\ E[s] \in {NoTransfer, transfer2[s]}
        /\ s \notin S1 \cup S2 => D[s] = transfer[s] /\ E[s] = transfer2[s]
    BY <1>1
  <2> QED BY <1>2, <2>1, NoTransferFacts DEF LockInv
<1> QED BY <1>3, <1>4 DEF D, E

LEMMA DismissSetsLocks ==
  ASSUME LockInv, NEW L, NEW S1, NEW S2, DismissSets(L, S1, S2), UNCHANGED state
  PROVE  LockInv'
<1>1. /\ lock_pid'   = [s \in Skirmishes |-> IF s \in L THEN Nobody ELSE lock_pid[s]]
      /\ lock_count' = [s \in Skirmishes |-> IF s \in L THEN 0 ELSE lock_count[s]]
      /\ transfer' = Dropped(S1, S2) /\ transfer2' = Dropped2(S1 \cup S2)
  BY DEF DismissSets
<1> QED BY <1>1, DroppedFacts, NobodyFacts DEF LockInv

LEMMA RelockLocks ==
  ASSUME LockInv, WaitInv, NEW t \in Tasks, NEW s \in Skirmishes, s = wait[t].id, Relock(t, s),
         UNCHANGED <<state, transfer, transfer2>>
  PROVE  LockInv'
<1>1. wait[t].lock_count \in Nat /\ wait[t].lock_count > 0 BY DEF WaitInv, Waits
<1> QED BY <1>1, TakeLocks, LocksKept DEF Relock, locks

LEMMA FinishLocks ==
  ASSUME LockInv, NEW t \in Tasks, Finish(t)
  PROVE  LockInv'
<1>1. CASE UNCHANGED vars BY <1>1, LocksKept DEF vars, locks, transfers
<1>2. CASE ReclaimAll(t) /\ UNCHANGED skirmishRest BY <1>2, ReclaimLocks DEF skirmishRest
<1> QED BY <1>1, <1>2 DEF Finish, Asserting

LEMMA AwaitLocks ==
  ASSUME LockInv, NEW t \in Tasks, AwaitResult(t)
  PROVE  LockInv'
<1>1. CASE Finish(t) BY <1>1, FinishLocks
<1>2. CASE UNCHANGED <<skirmishRest, locks, transfers>>
  BY <1>2, LocksKept DEF skirmishRest, locks, transfers
<1> QED BY <1>1, <1>2 DEF AwaitResult

LEMMA ReturnLocks ==
  ASSUME LockInv, NEW t \in Tasks, Return(t)
  PROVE  LockInv'
<1>1. CASE ReturnFails(t) BY <1>1, LocksKept DEF ReturnFails, locks, transfers
<1>2. ASSUME NEW e \in Found(t), ReturnResult(t, e) PROVE LockInv'
  <2>1. CASE UNCHANGED vars BY <2>1, LocksKept DEF vars, locks, transfers
  <2>2. CASE ~UNCHANGED vars
    <3>1. PICK back : lock_pid' = [s \in Skirmishes |-> IF s \in back THEN Returned ELSE lock_pid[s]]
      BY <1>2, <2>2 DEF ReturnResult, Asserting
    <3>2. UNCHANGED <<state, lock_count, transfer, transfer2>>
      BY <1>2, <2>2 DEF ReturnResult, Asserting, skirmishRest, transfers
    <3> QED BY <3>1, <3>2, NobodyFacts DEF LockInv
  <2> QED BY <2>1, <2>2
<1> QED BY <1>1, <1>2 DEF Return

LEMMA ReleaseLocks ==
  ASSUME LockInv, NEW f \in Fusionees, CallRelease(f)
  PROVE  LockInv'
<1>1. CASE UNCHANGED vars BY <1>1, LocksKept DEF vars, locks, transfers
<1>2. CASE ~UNCHANGED vars
  <2> DEFINE L  == {s \in Live : lock_fid[s] = f}
             S1 == {s \in Live : transfer[s].from = f}
             S2 == {s \in Live : transfer2[s].from = f}
             tr  == Dropped(S1, S2)
             tr2 == Dropped2(S1 \cup S2)
             back == {s \in Live : f = IF tr2[s].to # Nobody THEN tr2[s].to ELSE tr[s].to}
  <2>1. /\ lock_pid'   = [s \in Skirmishes |-> IF s \in back THEN Returned
                                               ELSE IF s \in L THEN Nobody ELSE lock_pid[s]]
        /\ lock_count' = [s \in Skirmishes |-> IF s \in L THEN 0 ELSE lock_count[s]]
        /\ transfer' = tr /\ transfer2' = tr2 /\ state' = state
    BY <1>2 DEF CallRelease, Asserting
  <2>2. /\ tr \in [Skirmishes -> Transfers] /\ tr2 \in [Skirmishes -> Transfers]
        /\ \A s \in Skirmishes : /\ tr[s].to # Nobody => tr[s].count > 0
                                 /\ tr2[s].to # Nobody => tr2[s].count > 0
    BY DroppedFacts
  <2> HIDE DEF L, S1, S2, tr, tr2, back
  <2> QED BY <2>1, <2>2, NobodyFacts DEF LockInv
<1> QED BY <1>1, <1>2

LEMMA ExitLocks ==
  ASSUME LockInv, NEW t \in Tasks, Exit(t)
  PROVE  LockInv'
<1>1. UNCHANGED state BY DEF Exit
<1>2. CASE DismissAllFromPid(t) BY <1>1, <1>2, DismissSetsLocks DEF DismissAllFromPid
<1>3. CASE UNCHANGED <<locks, transfer, transfer2>> BY <1>1, <1>3, LocksKept DEF locks
<1> QED BY <1>2, <1>3 DEF Exit

LEMMA SkirmishLocks ==
  ASSUME LockInv, NEW t \in Tasks, NEW s \in Skirmishes, SkirmishStep(t, s)
  PROVE  LockInv'
<1>1. UNCHANGED <<state, transfer, transfer2>>
  BY DEF SkirmishStep, PrevailOwned, PrevailFree, PrevailBlock, Dismiss, Swoop, WaitFresh, Notify,
         transfers
<1>2. CASE PrevailOwned(t, s) BY <1>1, <1>2, DeepenLocks DEF PrevailOwned
<1>3. CASE PrevailFree(t, s) BY <1>1, <1>3, TakeLocks DEF PrevailFree
<1>4. CASE PrevailBlock(t, s) BY <1>1, <1>4, LocksKept DEF PrevailBlock, locks
<1>5. CASE Dismiss(t, s) BY <1>5, DismissLocks
<1>6. CASE Swoop(t, s) BY <1>1, <1>6, DeepenLocks, TakeLocks DEF Swoop
<1>7. CASE WaitFresh(t, s, FALSE)
  <2>1. lock_pid' = [lock_pid EXCEPT ![s] = Nobody] /\ lock_count' = lock_count
    BY <1>7 DEF WaitFresh
  <2> QED BY <1>1, <2>1, NobodyFacts DEF LockInv
<1>8. CASE Notify(t, s) BY <1>1, <1>8, LocksKept DEF Notify, locks
<1> QED BY <1>2, <1>3, <1>4, <1>5, <1>6, <1>7, <1>8 DEF SkirmishStep

LEMMA ResumeLocks ==
  ASSUME LockInv, WaitInv, TaskInv, NEW t \in Tasks, SkirmishResume(t)
  PROVE  LockInv'
<1> DEFINE s == wait[t].id
<1>1. UNCHANGED <<state, transfer, transfer2>>
  BY DEF SkirmishResume, Resume, PrevailResume, WaitResume, RelockResume, WaitAgain, transfers
<1>2. CASE PrevailResume(t)
  <2>1. CASE UNCHANGED locks BY <1>1, <2>1, LocksKept DEF locks
  <2>2. CASE obj[t] \in Live /\ Take(obj[t], t, 1) BY <1>1, <2>2, TakeLocks DEF Live
  <2> QED BY <1>2, <2>1, <2>2 DEF PrevailResume
<1>3. ASSUME wait[t].lock_count > 0, Relock(t, s) PROVE LockInv'
  BY <1>1, <1>3, RelockLocks DEF WaitInv
<1>4. CASE WaitResume(t)
  <2>1. wait[t].lock_count > 0 BY <1>4 DEF WaitResume, WaitInv
  <2> QED BY <1>1, <1>3, <1>4, <2>1, LocksKept DEF WaitResume, WaitFails, AwaitNotify, locks
<1>5. CASE RelockResume(t)
  <2>1. wait[t].lock_count > 0 BY <1>5 DEF RelockResume, WaitInv
  <2> QED BY <1>1, <1>3, <1>5, <2>1, LocksKept DEF RelockResume, WaitFails, locks
<1>6. CASE WaitAgain(t)
  BY <1>1, <1>3, <1>6, LocksKept DEF WaitAgain, WaitFails, AwaitNotify, locks
<1> QED BY <1>2, <1>4, <1>5, <1>6 DEF SkirmishResume, Resume

LEMMA LocksStep ==
  ASSUME MsgInv, LockInv, WaitInv, TaskInv, [CallNext]_allVars
  PROVE  LockInv'
<1>1. ASSUME NEW t \in Tasks, NEW s \in Skirmishes, SkirmishStep(t, s) PROVE LockInv'
  BY <1>1, SkirmishLocks
<1>2. ASSUME NEW t \in Tasks, SkirmishResume(t) PROVE LockInv' BY <1>2, ResumeLocks
<1>3. ASSUME NEW t \in Tasks, NEW c \in Calls, NEW r \in Resumable, Execute(t, c, r) PROVE LockInv'
  <2>1. Callee[c] \in Fusionees /\ serial[c] + 1 \in Nat BY CallsAssumption DEF MsgInv, Messages
  <2>2. TransferAll(t, Callee[c], serial[c] + 1) /\ UNCHANGED state
    BY <1>3 DEF Execute, skirmishRest
  <2> QED BY <2>1, <2>2, TransferLocks
<1>4. ASSUME NEW t \in Tasks, NEW c \in Calls, CallDestroy(t, c) PROVE LockInv'
  BY <1>4, LocksKept DEF CallDestroy, skirmishRest, locks, transfers
<1>5. ASSUME NEW t \in Tasks, CallResume(t) PROVE LockInv'
  BY <1>5, AwaitLocks, LocksKept DEF CallResume, CallInterrupted, skirmishRest, locks, transfers
<1>6. ASSUME NEW t \in Tasks, ExecuteAgain(t) PROVE LockInv'
  BY <1>6, AwaitLocks, LocksKept DEF ExecuteAgain, vars, locks, transfers
<1>7. ASSUME NEW t \in Tasks, DestroyResume(t) PROVE LockInv'
  BY <1>7, LocksKept DEF DestroyResume, skirmishRest, locks, transfers
<1>8. ASSUME NEW t \in Tasks, Return(t) PROVE LockInv' BY <1>8, ReturnLocks
<1>9. ASSUME NEW t \in Tasks, ReadFree(t) PROVE LockInv'
  BY <1>9, LocksKept DEF ReadFree, Read, skirmishRest, locks
<1>10. ASSUME NEW t \in Tasks, Disturb(t) PROVE LockInv'
  <2>1. CASE CallSignal(t) BY <2>1, LocksKept DEF CallSignal, skirmishRest, locks, transfers
  <2>2. CASE Signal(t) BY <2>2, LocksKept DEF Signal, locks, transfers
  <2>3. CASE CallExit(t) BY <2>3, ExitLocks DEF CallExit
  <2> QED BY <1>10, <2>1, <2>2, <2>3 DEF Disturb
<1>11. ASSUME NEW f \in Fusionees, CallRelease(f) PROVE LockInv' BY <1>11, ReleaseLocks
<1>12. CASE UNCHANGED allVars BY <1>12, LocksKept DEF allVars, vars, locks, transfers
<1> QED
  BY <1>1, <1>2, <1>3, <1>4, <1>5, <1>6, <1>7, <1>8, <1>9, <1>10, <1>11, <1>12
     DEF CallNext, CallStep

(* The waits *)

LEMMA NoWaitFacts ==
  NoWait \in Waits /\ NoWait.id = Nobody /\ NoWait.lock_count = 0
BY DEF NoWait, Waits

LEMMA WaitsKept ==
  ASSUME WaitInv, UNCHANGED <<notify_count, wait, notified>>,
         \A u \in Tasks : pc'[u] = pc[u] \/ pc'[u] \notin {"wait", "relock"} \/ wait[u].lock_count > 0
  PROVE  WaitInv'
BY DEF WaitInv

LEMMA WaitsMove ==
  ASSUME WaitInv, TaskInv, NEW t \in Tasks, NEW where, where \notin {"wait", "relock"},
         pc' = [pc EXCEPT ![t] = where], UNCHANGED <<notify_count, wait, notified>>
  PROVE  WaitInv'
BY WaitsKept DEF TaskInv

LEMMA WaitDropped ==
  ASSUME WaitInv, TaskInv, NEW t \in Tasks, NEW where, where \notin {"wait", "relock"},
         pc' = [pc EXCEPT ![t] = where],
         wait' = [wait EXCEPT ![t] = NoWait], notified' = notified \ {t}, UNCHANGED notify_count
  PROVE  WaitInv'
<1>1. wait' \in [Tasks -> Waits] /\ notified' \subseteq Tasks BY NoWaitFacts DEF WaitInv
<1>2. ASSUME NEW u \in Tasks
      PROVE  /\ pc'[u] \in {"wait", "relock"} => wait'[u].lock_count > 0
             /\ wait'[u].id \in Skirmishes <=> wait'[u].lock_count > 0
             /\ wait'[u].lock_count > 0 => wait'[u].notify_count <= notify_count[wait'[u].id]
             /\ u \in notified' =>
                  wait'[u].lock_count > 0 /\ wait'[u].notify_count < notify_count[wait'[u].id]
  <2>1. CASE u = t
    <3>1. wait'[u] = NoWait /\ pc'[u] = where /\ u \notin notified' BY <2>1 DEF WaitInv, TaskInv
    <3> QED BY <3>1, NoWaitFacts, NobodyFacts
  <2>2. CASE u # t
    <3>1. wait'[u] = wait[u] /\ pc'[u] = pc[u] /\ (u \in notified' => u \in notified)
      BY <2>2 DEF WaitInv, TaskInv
    <3> QED BY <3>1 DEF WaitInv
  <2> QED BY <2>1, <2>2
<1> QED BY <1>1, <1>2 DEF WaitInv

LEMMA FreshWaits ==
  ASSUME LockInv, WaitInv, TaskInv, NEW t \in Tasks, NEW s \in Skirmishes, WaitFresh(t, s, FALSE)
  PROVE  WaitInv'
<1> DEFINE w == [id |-> s, lock_count |-> lock_count[s], notify_count |-> notify_count[s],
                 timed |-> FALSE]
<1>1. /\ wait' = [wait EXCEPT ![t] = w] /\ UNCHANGED <<notify_count, notified>>
      /\ lock_pid[s] = t /\ wait[t].lock_count = 0 /\ pc' = [pc EXCEPT ![t] = "wait"]
  BY DEF WaitFresh, SleepOn
<1>2. /\ w \in Waits /\ w.lock_count > 0 /\ w.id = s /\ w.notify_count = notify_count[s]
      /\ notify_count[s] \in Nat
  BY <1>1 DEF LockInv, WaitInv, Waits
<1> HIDE DEF w
<1>3. t \notin notified BY <1>1 DEF WaitInv
<1>4. wait' \in [Tasks -> Waits] BY <1>1, <1>2 DEF WaitInv
<1>5. ASSUME NEW u \in Tasks
      PROVE  /\ pc'[u] \in {"wait", "relock"} => wait'[u].lock_count > 0
             /\ wait'[u].id \in Skirmishes <=> wait'[u].lock_count > 0
             /\ wait'[u].lock_count > 0 => wait'[u].notify_count <= notify_count[wait'[u].id]
             /\ u \in notified =>
                  wait'[u].lock_count > 0 /\ wait'[u].notify_count < notify_count[wait'[u].id]
  <2>1. CASE u = t
    <3>1. wait'[u] = w BY <1>1, <2>1 DEF WaitInv
    <3> QED BY <1>2, <1>3, <2>1, <3>1
  <2>2. CASE u # t
    <3>1. wait'[u] = wait[u] /\ pc'[u] = pc[u] BY <1>1, <2>2 DEF WaitInv, TaskInv
    <3> QED BY <3>1 DEF WaitInv
  <2> QED BY <2>1, <2>2
<1> QED BY <1>1, <1>4, <1>5 DEF WaitInv

LEMMA NotifyWaits ==
  ASSUME WaitInv, NEW t \in Tasks, NEW s \in Skirmishes, Notify(t, s)
  PROVE  WaitInv'
<1>1. /\ notify_count' = [notify_count EXCEPT ![s] = notify_count[s] + 1]
      /\ notified' = notified \cup {u \in Tasks : wait[u].id = s} /\ UNCHANGED <<wait, pc>>
  BY DEF Notify
<1>2. notify_count' \in [Skirmishes -> Nat] /\ notified' \subseteq Tasks BY <1>1 DEF WaitInv
<1>3. ASSUME NEW u \in Tasks
      PROVE  /\ wait[u].lock_count > 0 => wait[u].notify_count <= notify_count'[wait[u].id]
             /\ u \in notified' =>
                  wait[u].lock_count > 0 /\ wait[u].notify_count < notify_count'[wait[u].id]
  <2>1. wait[u].notify_count \in Nat /\ wait[u].lock_count \in Nat BY DEF WaitInv, Waits
  <2>2. CASE wait[u].lock_count > 0
    <3>1. wait[u].id \in Skirmishes /\ wait[u].notify_count <= notify_count[wait[u].id]
      BY <2>2 DEF WaitInv
    <3>2. notify_count[wait[u].id] \in Nat BY <3>1 DEF WaitInv
    <3>3. CASE wait[u].id = s
      <4>1. notify_count'[wait[u].id] = notify_count[wait[u].id] + 1 BY <1>1, <3>3 DEF WaitInv
      <4> QED BY <2>1, <2>2, <3>1, <3>2, <4>1
    <3>4. CASE wait[u].id # s
      <4>1. notify_count'[wait[u].id] = notify_count[wait[u].id] /\ (u \in notified' => u \in notified)
        BY <1>1, <3>4 DEF WaitInv
      <4> QED BY <4>1, <3>1, <2>2 DEF WaitInv
    <3> QED BY <3>3, <3>4
  <2>3. CASE ~(wait[u].lock_count > 0)
    <3>1. u \notin notified /\ wait[u].id # s BY <2>3 DEF WaitInv
    <3> QED BY <1>1, <2>3, <3>1
  <2> QED BY <2>2, <2>3
<1> QED BY <1>1, <1>2, <1>3 DEF WaitInv

LEMMA RelockWaits ==
  ASSUME WaitInv, TaskInv, NEW t \in Tasks, wait[t].lock_count > 0, Relock(t, wait[t].id),
         UNCHANGED notify_count
  PROVE  WaitInv'
<1> DEFINE s == wait[t].id
<1>1. CASE lock_pid[s] # Nobody
  <2>1. pc' = [pc EXCEPT ![t] = "relock"] /\ UNCHANGED <<wait, notified>>
    BY <1>1 DEF Relock, SleepOn
  <2> QED BY <2>1, WaitsKept DEF TaskInv
<1>2. CASE lock_pid[s] = Nobody
  BY <1>2, WaitDropped DEF Relock, ReturnToUser
<1> QED BY <1>1, <1>2

LEMMA FailWaits ==
  ASSUME WaitInv, TaskInv, NEW t \in Tasks, NEW keep \in BOOLEAN, WaitFails(t, keep),
         UNCHANGED notify_count
  PROVE  WaitInv'
BY WaitDropped, WaitsMove DEF WaitFails, ReturnToUser

LEMMA AwaitNotifyWaits ==
  ASSUME WaitInv, TaskInv, NEW t \in Tasks, wait[t].lock_count > 0, AwaitNotify(t, wait[t].id),
         UNCHANGED notify_count
  PROVE  WaitInv'
<1>1. CASE pc' = [pc EXCEPT ![t] = "wait"] /\ UNCHANGED <<wait, notified>>
  BY <1>1, WaitsKept DEF TaskInv
<1> QED BY <1>1, RelockWaits DEF AwaitNotify, SleepOn

LEMMA ResumeWaits ==
  ASSUME WaitInv, TaskInv, NEW t \in Tasks, SkirmishResume(t)
  PROVE  WaitInv'
<1>1. UNCHANGED notify_count
  BY DEF SkirmishResume, Resume, PrevailResume, WaitResume, RelockResume, WaitAgain
<1>2. CASE PrevailResume(t)
  <2>1. UNCHANGED <<wait, notified>> BY <1>2 DEF PrevailResume
  <2>2. pc' = pc \/ pc' = [pc EXCEPT ![t] = "user"] BY <1>2 DEF PrevailResume, ReturnToUser
  <2> QED BY <1>1, <2>1, <2>2, WaitsKept, WaitsMove
<1>3. CASE WaitResume(t)
  <2>1. wait[t].lock_count > 0 BY <1>3 DEF WaitResume, WaitInv
  <2>2. CASE WaitFails(t, TRUE) BY <1>1, <2>2, FailWaits
  <2>3. CASE WaitFails(t, FALSE) BY <1>1, <2>3, FailWaits
  <2> QED BY <1>1, <1>3, <2>1, <2>2, <2>3, RelockWaits, AwaitNotifyWaits DEF WaitResume
<1>4. CASE RelockResume(t)
  <2>1. wait[t].lock_count > 0 BY <1>4 DEF RelockResume, WaitInv
  <2>2. CASE WaitFails(t, TRUE) BY <1>1, <2>2, FailWaits
  <2>3. CASE WaitFails(t, FALSE) BY <1>1, <2>3, FailWaits
  <2> QED BY <1>1, <1>4, <2>1, <2>2, <2>3, RelockWaits DEF RelockResume
<1>5. CASE WaitAgain(t)
  <2>1. CASE WaitFails(t, FALSE) BY <1>1, <2>1, FailWaits
  <2> QED BY <1>1, <1>5, <2>1, AwaitNotifyWaits DEF WaitAgain
<1> QED BY <1>2, <1>3, <1>4, <1>5 DEF SkirmishResume, Resume

\* The calls leave the waits alone.
LEMMA CallWaits ==
  ASSUME WaitInv, TaskInv, NEW t \in Tasks, UNCHANGED <<notify_count, wait, notified>>,
         pc' = pc \/ \E where \in {"user", "call", "read", "destroy"} : pc' = [pc EXCEPT ![t] = where]
  PROVE  WaitInv'
BY WaitsKept, WaitsMove

LEMMA AwaitWaits ==
  ASSUME WaitInv, TaskInv, NEW t \in Tasks, AwaitResult(t)
  PROVE  WaitInv'
<1>1. UNCHANGED <<notify_count, wait, notified>>
  <2>1. CASE Finish(t) BY <2>1 DEF Finish, Asserting, skirmishRest, vars, history, RelockLent, ReclaimAll
  <2> QED BY <2>1 DEF AwaitResult, skirmishRest, history
<1>2. pc' = pc \/ \E where \in {"user", "call"} : pc' = [pc EXCEPT ![t] = where]
  BY DEF AwaitResult, Finish, Asserting, SleepHere, ReturnToUser, vars, kernel
<1> QED BY <1>1, <1>2, CallWaits

LEMMA ReturnWaits ==
  ASSUME WaitInv, TaskInv, NEW t \in Tasks, Return(t)
  PROVE  WaitInv'
<1>1. UNCHANGED <<notify_count, wait, notified, pc>>
  <2>1. CASE ReturnFails(t) BY <2>1 DEF ReturnFails, history
  <2>2. ASSUME NEW e \in Found(t), ReturnResult(t, e) PROVE UNCHANGED <<notify_count, wait, notified, pc>>
    BY <2>2 DEF ReturnResult, Asserting, skirmishRest, vars, kernel, history
  <2> QED BY <2>1, <2>2 DEF Return
<1> QED BY <1>1, CallWaits

LEMMA WaitsStep ==
  ASSUME LockInv, WaitInv, TaskInv, [CallNext]_allVars
  PROVE  WaitInv'
<1>1. ASSUME NEW t \in Tasks, NEW s \in Skirmishes, SkirmishStep(t, s) PROVE WaitInv'
  <2>1. CASE WaitFresh(t, s, FALSE) BY <2>1, FreshWaits
  <2>2. CASE Notify(t, s) BY <2>2, NotifyWaits
  <2>3. CASE PrevailBlock(t, s) BY <2>3, WaitsMove DEF PrevailBlock, SleepOn, history
  <2>4. CASE PrevailOwned(t, s) \/ PrevailFree(t, s) \/ Dismiss(t, s) \/ Swoop(t, s)
    BY <2>4, WaitsKept DEF PrevailOwned, PrevailFree, Dismiss, Swoop, kernel
  <2> QED BY <1>1, <2>1, <2>2, <2>3, <2>4 DEF SkirmishStep
<1>2. ASSUME NEW t \in Tasks, SkirmishResume(t) PROVE WaitInv' BY <1>2, ResumeWaits
<1>3. ASSUME NEW t \in Tasks, NEW c \in Calls, NEW r \in Resumable, Execute(t, c, r) PROVE WaitInv'
  BY <1>3, CallWaits DEF Execute, SleepHere, skirmishRest, history
<1>4. ASSUME NEW t \in Tasks, NEW c \in Calls, CallDestroy(t, c) PROVE WaitInv'
  BY <1>4, CallWaits DEF CallDestroy, AwaitExecutions, SleepHere, ReturnToUser, skirmishRest, history
<1>5. ASSUME NEW t \in Tasks, CallResume(t) PROVE WaitInv'
  BY <1>5, AwaitWaits, CallWaits DEF CallResume, CallInterrupted, ReturnToUser, skirmishRest, history
<1>6. ASSUME NEW t \in Tasks, ExecuteAgain(t) PROVE WaitInv'
  BY <1>6, AwaitWaits, CallWaits DEF ExecuteAgain, vars, kernel, history
<1>7. ASSUME NEW t \in Tasks, DestroyResume(t) PROVE WaitInv'
  BY <1>7, CallWaits DEF DestroyResume, AwaitExecutions, SleepHere, ReturnToUser, skirmishRest, history
<1>8. ASSUME NEW t \in Tasks, Return(t) PROVE WaitInv' BY <1>8, ReturnWaits
<1>9. ASSUME NEW t \in Tasks, ReadFree(t) PROVE WaitInv'
  BY <1>9, CallWaits DEF ReadFree, Read, SleepHere, ReturnToUser, skirmishRest, history
<1>10. ASSUME NEW t \in Tasks, Disturb(t) PROVE WaitInv'
  <2>1. CASE CallSignal(t) BY <2>1, WaitsKept DEF CallSignal, skirmishRest, history
  <2>2. CASE Signal(t) BY <2>2, WaitsKept DEF Signal, history
  <2>3. CASE CallExit(t) BY <2>3, WaitDropped DEF CallExit, Exit
  <2> QED BY <1>10, <2>1, <2>2, <2>3 DEF Disturb
<1>11. ASSUME NEW f \in Fusionees, CallRelease(f) PROVE WaitInv'
  BY <1>11, WaitsKept DEF CallRelease, Asserting, vars, kernel, history
<1>12. CASE UNCHANGED allVars BY <1>12, WaitsKept DEF allVars, vars, kernel, history
<1> QED
  BY <1>1, <1>2, <1>3, <1>4, <1>5, <1>6, <1>7, <1>8, <1>9, <1>10, <1>11, <1>12
     DEF CallNext, CallStep

(* The tasks *)

Executings == [call : Calls \cup {Nobody}, serial : Nat, resumable : BOOLEAN]

LEMMA LeastNumber ==
  ASSUME NEW T \in SUBSET Nat, T # {}
  PROVE  \E n \in T : \A m \in T : n <= m
<1>1. IsWellFoundedOn(OpToRel(<, Nat), Nat)
  BY NatLessThanWellFounded
<1>2. PICK n \in T : \A m \in T : ~(<<m, n>> \in OpToRel(<, Nat))
  BY <1>1, WFMin
<1>3. \A x, y \in Nat : y < x => <<y, x>> \in OpToRel(<, Nat)
  BY DEF OpToRel
<1>4. \A m \in T : ~(m < n) BY <1>2, <1>3
<1> QED BY <1>4

\* fusion_call_destroy sleeps on an execution of its call.
LEMMA OldestExecution ==
  ASSUME MsgInv, NEW pend \in SUBSET executions, pend # {}
  PROVE  (CHOOSE e \in pend : \A d \in pend : e.serial <= d.serial) \in pend
<1> DEFINE T == {e.serial : e \in pend}
<1>1. T \in SUBSET Nat /\ T # {} BY DEF MsgInv, Messages, Executions
<1>2. PICK n \in T : \A m \in T : n <= m BY <1>1, LeastNumber
<1>3. PICK e \in pend : e.serial = n OBVIOUS
<1>4. \A d \in pend : e.serial <= d.serial BY <1>2, <1>3
<1> QED BY <1>4

LEMMA TaskMoves ==
  ASSUME TaskInv, NEW t \in Tasks, NEW where \in Places \cup {"user", "dead"},
         pc' = [pc EXCEPT ![t] = where], asleep' \subseteq asleep \cup {t},
         t \in asleep' => where \in Places,
         obj' \in [Tasks -> Skirmishes \cup {Nobody}],
         executing' \in [Tasks -> Executings], destroying' \in [Tasks -> Ids \cup {NoExecution}]
  PROVE  TaskInv'
BY DEF TaskInv, Executings

LEMMA TaskStays ==
  ASSUME TaskInv, UNCHANGED <<pc, obj, executing, destroying>>, asleep' \subseteq asleep
  PROVE  TaskInv'
BY DEF TaskInv

\* What a step leaves alone of a sleeper.
LEMMA CallStays ==
  ASSUME NEW u \in Tasks, CallFine(u), pc'[u] = pc[u],
         executing'[u] = executing[u], destroying'[u] = destroying[u],
         \A e \in executions' : pc[u] = "call" /\ Id(e) = Id(executing[u]) /\ e.executed =>
           \E d \in executions : Id(d) = Id(e) /\ d.executed,
         \A d \in executions : pc[u] = "destroy" /\ Id(d) = destroying[u] =>
           \E e \in executions' : Id(e) = Id(d),
         pc[u] = "read" /\ inbox[Owner[u]] = <<>> => inbox'[Owner[u]] = <<>>
  PROVE  CallFine(u)'
<1>1. pc[u] = "call" => ~Executed(u)' BY DEF CallFine, Executed
<1> QED BY <1>1 DEF CallFine

LEMMA MustWaitStays ==
  ASSUME LockInv, NEW s \in Skirmishes, NEW u \in Tasks, MustWait(s, u),
         \/ lock_pid'[s] # Nobody
         \/ /\ lock_pid'[s] = lock_pid[s] /\ transfer'[s] = transfer[s]
            /\ transfer2'[s] = transfer2[s],
         \A f \in Fusionees : dispatcher_pid'[f] = u => dispatcher_pid[f] = u
  PROVE  MustWait(s, u)'
<1>1. CASE lock_pid'[s] # Nobody BY <1>1 DEF MustWait
<1>2. CASE /\ lock_pid'[s] = Nobody /\ lock_pid'[s] = lock_pid[s]
           /\ transfer'[s] = transfer[s] /\ transfer2'[s] = transfer2[s]
  <2>1. Innermost(s)' = Innermost(s) BY <1>2 DEF Innermost
  <2>2. Innermost(s).to # Nobody => Innermost(s).to \in Fusionees
    BY InnermostFacts DEF Transfers
  <2>3. TransferredElsewhere(s, u) BY <1>2 DEF MustWait
  <2> QED BY <2>1, <2>2, <2>3 DEF MustWait, TransferredElsewhere
<1> QED BY <1>1, <1>2

LEMMA LockStays ==
  ASSUME LockInv, NEW u \in Tasks, LockFine(u), pc'[u] = pc[u], obj'[u] = obj[u],
         wait'[u] = wait[u], pc[u] = "wait" /\ u \in notified' => u \in notified,
         \A s \in Skirmishes : s = obj[u] =>
           \/ lock_pid'[s] # Nobody
           \/ /\ lock_pid'[s] = lock_pid[s] /\ transfer'[s] = transfer[s]
              /\ transfer2'[s] = transfer2[s],
         \A f \in Fusionees : dispatcher_pid'[f] = u => dispatcher_pid[f] = u
  PROVE  LockFine(u)'
<1>1. CASE pc[u] \in {"prevail", "relock", "wait"}
  <2>1. PICK s \in Skirmishes : s = obj[u] BY <1>1 DEF LockFine
  <2>2. pc[u] = "prevail" => MustWait(s, u)' BY <2>1, MustWaitStays DEF LockFine
  <2>3. pc[u] = "prevail" => MustWait(obj[u], u)' BY <2>1, <2>2 DEF MustWait, TransferredElsewhere, Innermost
  <2> QED BY <2>1, <2>3 DEF LockFine
<1>2. CASE pc[u] \notin {"prevail", "relock", "wait"} BY <1>2 DEF LockFine
<1> QED BY <1>1, <1>2

\* A step of skirmish.c wakes whom it serves.
LEMMA SkirmishSleeps ==
  ASSUME LockInv, WaitInv, TaskInv, SleepInv, NEW t \in Tasks, NEW s \in Skirmishes,
         SkirmishStep(t, s)
  PROVE  TaskInv' /\ SleepInv'
<1>0. /\ pc[t] = "user" /\ t \notin asleep /\ UNCHANGED <<transfer, transfer2, dispatcher_pid>>
      /\ UNCHANGED <<executions, inbox, executing, destroying>>
  BY DEF SkirmishStep, PrevailOwned, PrevailFree, PrevailBlock, Dismiss, Swoop, WaitFresh, Notify,
         InUser, TaskInv, Places, transfers, callVars
<1>1. ASSUME NEW u \in Tasks, u # t, u \in asleep', u \in asleep, pc'[u] = pc[u], obj'[u] = obj[u],
             wait'[u] = wait[u], pc[u] = "wait" /\ u \in notified' => u \in notified,
             obj[u] # s \/ lock_pid'[s] # Nobody \/ lock_pid'[s] = lock_pid[s],
             \A x \in Skirmishes \ {s} : lock_pid'[x] = lock_pid[x]
      PROVE  CallFine(u)' /\ LockFine(u)'
  <2>1. CallFine(u)' BY <1>0, <1>1, CallStays DEF SleepInv
  <2>2. \A x \in Skirmishes : x = obj[u] => lock_pid'[x] # Nobody \/ lock_pid'[x] = lock_pid[x]
    BY <1>1
  <2>3. LockFine(u)' BY <1>0, <1>1, <2>2, LockStays DEF SleepInv
  <2> QED BY <2>1, <2>3
<1>2. CASE PrevailOwned(t, s) \/ PrevailFree(t, s) \/ Swoop(t, s)
  <2>1. /\ UNCHANGED <<pc, obj, asleep, wait, notified>>
        /\ lock_pid' = lock_pid \/ lock_pid' = [lock_pid EXCEPT ![s] = t]
    BY <1>2 DEF PrevailOwned, PrevailFree, Swoop, Deepen, Take, kernel
  <2>2. TaskInv' BY <1>0, <2>1, TaskStays
  <2>3. \A x \in Skirmishes \ {s} : lock_pid'[x] = lock_pid[x] BY <2>1 DEF LockInv
  <2>4. lock_pid'[s] # Nobody \/ lock_pid'[s] = lock_pid[s] BY <2>1, NobodyFacts DEF LockInv
  <2>5. ASSUME NEW u \in asleep PROVE CallFine(u)' /\ LockFine(u)'
    BY <1>0, <1>1, <2>1, <2>3, <2>4 DEF TaskInv
  <2> QED BY <2>1, <2>2, <2>5 DEF SleepInv
<1>3. CASE PrevailBlock(t, s)
  <2>1. /\ pc' = [pc EXCEPT ![t] = "prevail"] /\ obj' = [obj EXCEPT ![t] = s]
        /\ asleep' = asleep \cup {t} /\ UNCHANGED <<lock_pid, wait, notified>> /\ MustWait(s, t)
    BY <1>3 DEF PrevailBlock, SleepOn, locks, history
  <2>2. TaskInv'
    <3>1. obj' \in [Tasks -> Skirmishes \cup {Nobody}] /\ "prevail" \in Places
      BY <2>1 DEF TaskInv, Places
    <3>2. executing' \in [Tasks -> Executings] /\ destroying' \in [Tasks -> Ids \cup {NoExecution}]
      BY <1>0 DEF TaskInv, Executings
    <3> QED BY <2>1, <3>1, <3>2, TaskMoves
  <2>3. ASSUME NEW u \in asleep', u # t PROVE CallFine(u)' /\ LockFine(u)'
    BY <1>1, <2>1, <2>3 DEF TaskInv
  <2>4. CallFine(t)' /\ LockFine(t)'
    <3>1. pc'[t] = "prevail" /\ obj'[t] = s BY <2>1 DEF TaskInv
    <3>2. MustWait(obj[t], t)' BY <1>0, <2>1, <3>1 DEF MustWait, TransferredElsewhere, Innermost
    <3> QED BY <3>1, <3>2 DEF CallFine, LockFine
  <2> QED BY <2>2, <2>3, <2>4 DEF SleepInv
<1>4. CASE Dismiss(t, s)
  <2>1. /\ UNCHANGED <<pc, obj, wait, notified>>
        /\ \/ lock_pid' = lock_pid /\ asleep' = asleep
           \/ lock_pid' = [lock_pid EXCEPT ![s] = Nobody] /\ asleep' = asleep \ Sleepers({s})
    BY <1>4 DEF Dismiss, Wake
  <2>2. TaskInv' BY <1>0, <2>1, TaskStays
  <2>3. \A x \in Skirmishes \ {s} : lock_pid'[x] = lock_pid[x] BY <2>1 DEF LockInv
  <2>4. ASSUME NEW u \in asleep' PROVE CallFine(u)' /\ LockFine(u)'
    <3>1. u \in asleep /\ u # t /\ u \in Tasks /\ (lock_pid' = lock_pid \/ obj[u] # s)
      BY <1>0, <2>1 DEF Sleepers, TaskInv
    <3> QED BY <1>1, <2>1, <2>3, <3>1
  <2> QED BY <2>2, <2>4 DEF SleepInv
<1>5. CASE WaitFresh(t, s, FALSE)
  <2>1. /\ pc' = [pc EXCEPT ![t] = "wait"] /\ obj' = [obj EXCEPT ![t] = s]
        /\ lock_pid' = [lock_pid EXCEPT ![s] = Nobody] /\ UNCHANGED notified
        /\ asleep' = (asleep \ Sleepers({s})) \cup {t} /\ wait[t].lock_count = 0
    BY <1>5 DEF WaitFresh, SleepOn
  <2>2. wait'[t].id = s /\ \A u \in Tasks \ {t} : wait'[u] = wait[u]
    BY <1>5 DEF WaitFresh, WaitInv
  <2>3. TaskInv'
    <3>1. obj' \in [Tasks -> Skirmishes \cup {Nobody}] /\ "wait" \in Places
      BY <2>1 DEF TaskInv, Places
    <3>2. executing' \in [Tasks -> Executings] /\ destroying' \in [Tasks -> Ids \cup {NoExecution}]
      BY <1>0 DEF TaskInv, Executings
    <3>3. asleep' \subseteq asleep \cup {t} BY <2>1
    <3> QED BY <2>1, <3>1, <3>2, <3>3, TaskMoves
  <2>4. \A x \in Skirmishes \ {s} : lock_pid'[x] = lock_pid[x] BY <2>1 DEF LockInv
  <2>5. ASSUME NEW u \in asleep', u # t PROVE CallFine(u)' /\ LockFine(u)'
    <3>1. u \in asleep /\ u \in Tasks /\ obj[u] # s BY <2>1, <2>5 DEF Sleepers, TaskInv
    <3>2. pc'[u] = pc[u] /\ obj'[u] = obj[u] /\ wait'[u] = wait[u]
      BY <2>1, <2>2, <2>5, <3>1 DEF TaskInv
    <3> QED BY <1>1, <2>1, <2>4, <2>5, <3>1, <3>2
  <2>6. CallFine(t)' /\ LockFine(t)'
    <3>1. pc'[t] = "wait" /\ obj'[t] = s BY <2>1 DEF TaskInv
    <3>2. t \notin notified BY <2>1 DEF WaitInv
    <3> QED BY <2>1, <2>2, <3>1, <3>2 DEF CallFine, LockFine
  <2> QED BY <2>3, <2>5, <2>6 DEF SleepInv
<1>6. CASE Notify(t, s)
  <2>1. /\ UNCHANGED <<pc, obj, wait, lock_pid>> /\ asleep' = asleep \ Sleepers({s})
        /\ notified' = notified \cup {u \in Tasks : wait[u].id = s}
    BY <1>6 DEF Notify, Wake, locks
  <2>2. TaskInv' BY <1>0, <2>1, TaskStays
  <2>3. ASSUME NEW u \in asleep' PROVE CallFine(u)' /\ LockFine(u)'
    <3>1. u \in asleep /\ u # t /\ u \in Tasks /\ obj[u] # s BY <1>0, <2>1 DEF Sleepers, TaskInv
    <3>2. pc[u] = "wait" => obj[u] = wait[u].id BY <3>1 DEF SleepInv, LockFine
    <3>3. pc[u] = "wait" /\ u \in notified' => u \in notified BY <2>1, <3>1, <3>2
    <3> QED BY <1>1, <2>1, <3>1, <3>3
  <2> QED BY <2>2, <2>3 DEF SleepInv
<1> QED BY <1>2, <1>3, <1>4, <1>5, <1>6 DEF SkirmishStep

\* A task leaves a wait, or waits on, and takes at most one lock.
LEMMA RelockSleeps ==
  ASSUME LockInv, WaitInv, TaskInv, SleepInv, NEW t \in Tasks, t \notin asleep,
         wait[t].lock_count > 0, Relock(t, wait[t].id),
         UNCHANGED <<transfer, transfer2, dispatcher_pid, executions, inbox, executing, destroying>>
  PROVE  TaskInv' /\ SleepInv'
<1> DEFINE s == wait[t].id
<1>0. s \in Skirmishes BY DEF WaitInv
<1>1. ASSUME NEW u \in asleep, pc'[u] = pc[u], obj'[u] = obj[u], wait'[u] = wait[u],
             u \in notified' => u \in notified,
             \A x \in Skirmishes : lock_pid'[x] = lock_pid[x] \/ lock_pid'[x] # Nobody
      PROVE  CallFine(u)' /\ LockFine(u)'
  <2>1. u \in Tasks BY DEF TaskInv
  <2>2. CallFine(u)' BY <1>1, <2>1, CallStays DEF SleepInv
  <2>3. LockFine(u)' BY <1>1, <2>1, LockStays DEF SleepInv
  <2> QED BY <2>2, <2>3
<1>2. CASE lock_pid[s] # Nobody
  <2>1. /\ pc' = [pc EXCEPT ![t] = "relock"] /\ obj' = [obj EXCEPT ![t] = s]
        /\ asleep' = asleep \cup {t} /\ UNCHANGED <<lock_pid, wait, notified>>
    BY <1>2 DEF Relock, SleepOn, locks
  <2>2. TaskInv'
    <3>1. obj' \in [Tasks -> Skirmishes \cup {Nobody}] /\ "relock" \in Places
      BY <1>0, <2>1 DEF TaskInv, Places
    <3>2. executing' \in [Tasks -> Executings] /\ destroying' \in [Tasks -> Ids \cup {NoExecution}]
      BY DEF TaskInv, Executings
    <3> QED BY <2>1, <3>1, <3>2, TaskMoves
  <2>3. ASSUME NEW u \in asleep PROVE CallFine(u)' /\ LockFine(u)'
    BY <1>1, <2>1 DEF TaskInv
  <2>4. CallFine(t)' /\ LockFine(t)'
    <3>1. pc'[t] = "relock" /\ obj'[t] = s BY <2>1 DEF TaskInv
    <3> QED BY <1>0, <1>2, <2>1, <3>1 DEF CallFine, LockFine
  <2> QED BY <2>1, <2>2, <2>3, <2>4 DEF SleepInv
<1>3. CASE lock_pid[s] = Nobody
  <2>1. /\ pc' = [pc EXCEPT ![t] = "user"] /\ obj' = [obj EXCEPT ![t] = Nobody]
        /\ UNCHANGED asleep /\ lock_pid' = [lock_pid EXCEPT ![s] = t]
        /\ wait' = [wait EXCEPT ![t] = NoWait] /\ notified' = notified \ {t}
    BY <1>3 DEF Relock, Take, ReturnToUser
  <2>2. TaskInv'
    <3>1. obj' \in [Tasks -> Skirmishes \cup {Nobody}] BY <2>1 DEF TaskInv
    <3>2. executing' \in [Tasks -> Executings] /\ destroying' \in [Tasks -> Ids \cup {NoExecution}]
      BY DEF TaskInv, Executings
    <3> QED BY <2>1, <3>1, <3>2, TaskMoves
  <2>3. \A x \in Skirmishes : lock_pid'[x] = lock_pid[x] \/ lock_pid'[x] # Nobody
    BY <2>1, NobodyFacts DEF LockInv
  <2>4. ASSUME NEW u \in asleep PROVE CallFine(u)' /\ LockFine(u)'
    <3>1. u # t /\ u \in Tasks BY DEF TaskInv
    <3>2. pc'[u] = pc[u] /\ obj'[u] = obj[u] /\ wait'[u] = wait[u] BY <2>1, <3>1 DEF TaskInv, WaitInv
    <3> QED BY <1>1, <2>1, <2>3, <3>2
  <2> QED BY <2>1, <2>2, <2>4 DEF SleepInv
<1> QED BY <1>2, <1>3

LEMMA ResumeSleeps ==
  ASSUME LockInv, WaitInv, TaskInv, SleepInv, NEW t \in Tasks, SkirmishResume(t)
  PROVE  TaskInv' /\ SleepInv'
<1> DEFINE s == wait[t].id
<1>0. UNCHANGED <<transfer, transfer2, dispatcher_pid, executions, inbox, executing, destroying>>
  BY DEF SkirmishResume, Resume, PrevailResume, WaitResume, RelockResume, WaitAgain, transfers,
         callVars
<1>a. t \notin asleep
  BY DEF SkirmishResume, Resume, PrevailResume, WaitResume, RelockResume, WaitAgain, InUser, TaskInv,
         Places
<1>b. /\ executing' \in [Tasks -> Executings] /\ destroying' \in [Tasks -> Ids \cup {NoExecution}]
      /\ [obj EXCEPT ![t] = Nobody] \in [Tasks -> Skirmishes \cup {Nobody}]
  BY <1>0 DEF TaskInv, Executings
<1>1. ASSUME NEW u \in asleep, pc'[u] = pc[u], obj'[u] = obj[u], wait'[u] = wait[u],
             u \in notified' => u \in notified,
             \A x \in Skirmishes : lock_pid'[x] = lock_pid[x] \/ lock_pid'[x] # Nobody
      PROVE  CallFine(u)' /\ LockFine(u)'
  <2>1. u \in Tasks BY DEF TaskInv
  <2>2. CallFine(u)' BY <1>0, <1>1, <2>1, CallStays DEF SleepInv
  <2>3. LockFine(u)' BY <1>0, <1>1, <2>1, LockStays DEF SleepInv
  <2> QED BY <2>2, <2>3
<1>2. ASSUME ReturnToUser(t), UNCHANGED asleep,
             \A u \in Tasks \ {t} : wait'[u] = wait[u] /\ (u \in notified' => u \in notified),
             \A x \in Skirmishes : lock_pid'[x] = lock_pid[x] \/ lock_pid'[x] # Nobody
      PROVE  TaskInv' /\ SleepInv'
  <2>1. /\ pc' = [pc EXCEPT ![t] = "user"] /\ obj' = [obj EXCEPT ![t] = Nobody]
    BY <1>2 DEF ReturnToUser
  <2>2. TaskInv' BY <1>2, <1>a, <1>b, <2>1, TaskMoves
  <2>3. ASSUME NEW u \in asleep PROVE CallFine(u)' /\ LockFine(u)'
    <3>1. u # t /\ u \in Tasks BY <1>a DEF TaskInv
    <3>2. pc'[u] = pc[u] /\ obj'[u] = obj[u] BY <2>1, <3>1 DEF TaskInv
    <3> QED BY <1>1, <1>2, <3>1, <3>2
  <2> QED BY <1>2, <2>2, <2>3 DEF SleepInv
<1>3. CASE PrevailResume(t)
  <2>0. UNCHANGED <<wait, notified>> BY <1>3 DEF PrevailResume
  <2>1. CASE ReturnToUser(t)
    <3>1. lock_pid' = lock_pid \/ (obj[t] \in Skirmishes /\ lock_pid' = [lock_pid EXCEPT ![obj[t]] = t])
      BY <1>3 DEF PrevailResume, Take, locks, Live
    <3>2. \A x \in Skirmishes : lock_pid'[x] = lock_pid[x] \/ lock_pid'[x] # Nobody
      BY <3>1, NobodyFacts DEF LockInv
    <3>3. UNCHANGED asleep
      BY <1>3, <1>a, <2>1 DEF PrevailResume, ReturnToUser, TaskInv, Places
    <3> QED BY <1>2, <2>0, <2>1, <3>2, <3>3
  <2>2. CASE /\ asleep' = asleep \cup {t} /\ UNCHANGED <<locks, pc, obj>>
             /\ obj[t] \in Skirmishes /\ MustWait(obj[t], t)
    <3>1. TaskInv' BY <1>0, <1>3, <2>2 DEF TaskInv, PrevailResume, Places
    <3>2. ASSUME NEW u \in asleep PROVE CallFine(u)' /\ LockFine(u)'
      BY <1>1, <2>0, <2>2 DEF locks
    <3>3. CallFine(t)' /\ LockFine(t)'
      <4>1. pc'[t] = "prevail" /\ obj'[t] = obj[t] BY <1>3, <2>2 DEF PrevailResume
      <4>2. MustWait(obj[t], t)'
        BY <1>0, <2>2, <4>1 DEF MustWait, TransferredElsewhere, Innermost, locks
      <4> QED BY <2>2, <4>1, <4>2 DEF CallFine, LockFine
    <3> QED BY <2>2, <3>1, <3>2, <3>3 DEF SleepInv
  <2> QED BY <1>3, <2>1, <2>2 DEF PrevailResume, Live
<1>4. ASSUME NEW keep \in BOOLEAN, WaitFails(t, keep) PROVE TaskInv' /\ SleepInv'
  <2>1. /\ ReturnToUser(t) /\ UNCHANGED <<asleep, lock_pid>>
        /\ \A u \in Tasks \ {t} : wait'[u] = wait[u] /\ (u \in notified' => u \in notified)
    BY <1>4 DEF WaitFails, locks, WaitInv
  <2> QED BY <1>2, <2>1
<1>5. ASSUME wait[t].lock_count > 0, Relock(t, s) PROVE TaskInv' /\ SleepInv'
  BY <1>0, <1>5, <1>a, RelockSleeps
<1>6. ASSUME wait[t].lock_count > 0, AwaitNotify(t, s) PROVE TaskInv' /\ SleepInv'
  <2>1. CASE wait[t].notify_count = notify_count[s]
    <3>1. /\ pc' = [pc EXCEPT ![t] = "wait"] /\ obj' = [obj EXCEPT ![t] = s]
          /\ asleep' = asleep \cup {t} /\ UNCHANGED <<lock_pid, wait, notified>>
      BY <1>6, <2>1 DEF AwaitNotify, SleepOn, locks
    <3>2. s \in Skirmishes /\ t \notin notified BY <1>6, <2>1 DEF WaitInv
    <3>3. TaskInv'
      <4>1. obj' \in [Tasks -> Skirmishes \cup {Nobody}] /\ "wait" \in Places
        BY <3>1, <3>2 DEF TaskInv, Places
      <4> QED BY <1>b, <3>1, <4>1, TaskMoves
    <3>4. ASSUME NEW u \in asleep PROVE CallFine(u)' /\ LockFine(u)'
      <4>1. u # t /\ u \in Tasks BY <1>a DEF TaskInv
      <4> QED BY <1>1, <3>1, <4>1 DEF TaskInv
    <3>5. CallFine(t)' /\ LockFine(t)'
      <4>1. pc'[t] = "wait" /\ obj'[t] = s BY <3>1 DEF TaskInv
      <4> QED BY <3>1, <3>2, <4>1 DEF CallFine, LockFine
    <3> QED BY <3>1, <3>3, <3>4, <3>5 DEF SleepInv
  <2>2. CASE wait[t].notify_count # notify_count[s] BY <1>5, <1>6, <2>2 DEF AwaitNotify
  <2> QED BY <2>1, <2>2
<1>7. CASE WaitResume(t)
  <2>1. wait[t].lock_count > 0 BY <1>7 DEF WaitResume, WaitInv
  <2> QED BY <1>4, <1>5, <1>6, <1>7, <2>1 DEF WaitResume
<1>8. CASE RelockResume(t)
  <2>1. wait[t].lock_count > 0 BY <1>8 DEF RelockResume, WaitInv
  <2> QED BY <1>4, <1>5, <1>8, <2>1 DEF RelockResume
<1>9. CASE WaitAgain(t) BY <1>4, <1>6, <1>9 DEF WaitAgain
<1> QED BY <1>3, <1>7, <1>8, <1>9 DEF SkirmishResume, Resume

\* The task that reads the messages of a fusionee.
DispatcherInv == dispatcher_pid \in [Fusionees -> Tasks \cup {Nobody}]

LEMMA AllSame ==
  ASSUME TaskInv, SleepInv, UNCHANGED <<vars, callVars>>
  PROVE  TaskInv' /\ SleepInv'
<1>1. UNCHANGED <<pc, obj, asleep, wait, notified, lock_pid, transfer, transfer2, dispatcher_pid,
                  executions, inbox, executing, destroying>>
  BY DEF vars, callVars, locks, transfers, kernel, history
<1>2. TaskInv' BY <1>1, TaskStays
<1>3. ASSUME NEW u \in asleep PROVE CallFine(u)' /\ LockFine(u)'
  <2>1. CallFine(u) /\ LockFine(u) BY DEF SleepInv
  <2>2. CallFine(u)' BY <1>1, <2>1 DEF CallFine, Executed
  <2>3. LockFine(u)' BY <1>1, <2>1 DEF LockFine, MustWait, TransferredElsewhere, Innermost
  <2> QED BY <2>2, <2>3
<1> QED BY <1>1, <1>2, <1>3 DEF SleepInv

\* A call lends locks and sends a message: it wakes who waits for either.
LEMMA ExecuteSleeps ==
  ASSUME MsgInv, LockInv, TaskInv, SleepInv, NEW t \in Tasks, NEW c \in Calls, NEW r \in BOOLEAN,
         Execute(t, c, r)
  PROVE  TaskInv' /\ SleepInv'
<1> DEFINE n == serial[c] + 1
           f == Callee[c]
           e == [call |-> c, serial |-> n, pid |-> t, executed |-> FALSE, signalled |-> FALSE]
           x == [call |-> c, serial |-> n, resumable |-> r]
           mine   == {s \in Live : lock_pid[s] = t}
           first  == {s \in mine : transfer[s].to = Nobody}
           second == {s \in mine \ first : transfer2[s].to = Nobody}
           woken  == WokenByTransfer(t) \cup {u \in asleep : pc[u] = "read" /\ Owner[u] = f}
<1>1. /\ f \in Fusionees /\ n \in Nat /\ x \in Executings /\ e.executed = FALSE /\ Id(x) = Id(e)
      /\ inbox \in [Fusionees -> Seq(Ids)]
  BY CallsAssumption DEF MsgInv, Messages, Queues, Executings, Id
<1>2. \A d \in executions : Id(d) # Id(e)
  BY <1>1 DEF MsgInv, Messages, Known, Ids, Id
<1>3. /\ executions' = executions \cup {e} /\ executing' = [executing EXCEPT ![t] = x]
      /\ pc' = [pc EXCEPT ![t] = "call"] /\ UNCHANGED <<obj, wait, notified, dispatcher_pid, destroying>>
      /\ asleep' = (asleep \ woken) \cup {t} /\ pc[t] = "user"
      /\ inbox' = [inbox EXCEPT ![f] = Append(inbox[f], [call |-> c, serial |-> n])]
  BY DEF Execute, SleepHere, skirmishRest, history, InUser
<1>4. \A s \in Skirmishes \ (first \cup second) :
        lock_pid'[s] = lock_pid[s] /\ transfer'[s] = transfer[s] /\ transfer2'[s] = transfer2[s]
  BY DEF Execute, TransferAll
<1>5. \A u \in asleep : obj[u] \in first \cup second => u \in woken
  BY DEF WokenByTransfer, Sleepers
<1> HIDE DEF e, x
<1>6. TaskInv'
  <2>1. /\ obj' \in [Tasks -> Skirmishes \cup {Nobody}] /\ executing' \in [Tasks -> Executings]
        /\ destroying' \in [Tasks -> Ids \cup {NoExecution}] /\ "call" \in Places
    BY <1>1, <1>3 DEF TaskInv, Executings, Places
  <2>2. asleep' \subseteq asleep \cup {t} BY <1>3
  <2> HIDE DEF woken
  <2> QED BY <1>3, <2>1, <2>2, TaskMoves
<1>7. ASSUME NEW u \in asleep', u # t PROVE CallFine(u)' /\ LockFine(u)'
  <2>1. u \in asleep /\ u \in Tasks /\ u \notin woken BY <1>3, <1>7 DEF TaskInv
  <2>2. pc'[u] = pc[u] /\ executing'[u] = executing[u] BY <1>3, <1>7, <2>1 DEF TaskInv
  <2>3. pc[u] = "read" => inbox'[Owner[u]] = inbox[Owner[u]]
    <3>1. pc[u] = "read" => Owner[u] # f BY <2>1
    <3> QED BY <1>1, <1>3, <2>1, <3>1, TasksAssumption
  <2>4. CallFine(u)'
    <3>1. \A d \in executions' : d.executed => d \in executions BY <1>1, <1>3
    <3>2. executions \subseteq executions' BY <1>3
    <3> QED BY <1>3, <2>1, <2>2, <2>3, <3>1, <3>2, CallStays DEF SleepInv
  <2>5. obj[u] \notin first \cup second BY <1>5, <2>1
  <2> HIDE DEF first, second
  <2>6. LockFine(u)' BY <1>3, <1>4, <2>1, <2>2, <2>5, LockStays DEF SleepInv
  <2> QED BY <2>4, <2>6
<1>8. CallFine(t)' /\ LockFine(t)'
  <2>1. pc'[t] = "call" /\ executing'[t] = x BY <1>3 DEF TaskInv
  <2>2. \A d \in executions' : Id(d) = Id(x) => ~d.executed BY <1>1, <1>2, <1>3
  <2>3. ~Executed(t)' BY <2>1, <2>2 DEF Executed
  <2> QED BY <2>1, <2>3 DEF CallFine, LockFine
<1> QED BY <1>3, <1>6, <1>7, <1>8 DEF SleepInv

\* A step of t that ends executions E, or takes locks, and goes to user space.
LEMMA EndSleeps ==
  ASSUME LockInv, TaskInv, SleepInv, NEW t \in Tasks, t \notin asleep, NEW E \in SUBSET executions,
         executions' = executions \ E, asleep' = asleep \ WaitingFor(E),
         \/ UNCHANGED <<pc, obj>>
         \/ pc' = [pc EXCEPT ![t] = "user"] /\ obj' = [obj EXCEPT ![t] = Nobody],
         executing' = executing \/ executing' = [executing EXCEPT ![t] = NoCall],
         UNCHANGED <<wait, notified, dispatcher_pid, inbox, destroying>>,
         \A s \in Skirmishes :
           \/ lock_pid'[s] # Nobody
           \/ /\ lock_pid'[s] = lock_pid[s] /\ transfer'[s] = transfer[s]
              /\ transfer2'[s] = transfer2[s]
  PROVE  TaskInv' /\ SleepInv'
<1>1. TaskInv'
  <2>1. NoCall \in Executings BY DEF NoCall, Executings
  <2>2. /\ executing' \in [Tasks -> Executings] /\ destroying' \in [Tasks -> Ids \cup {NoExecution}]
        /\ obj' \in [Tasks -> Skirmishes \cup {Nobody}] /\ asleep' \subseteq asleep
    BY <2>1 DEF TaskInv, Executings
  <2>3. CASE pc' = pc BY <2>2, <2>3 DEF TaskInv, Executings
  <2>4. CASE pc' = [pc EXCEPT ![t] = "user"] BY <2>2, <2>4, TaskMoves
  <2> QED BY <2>3, <2>4
<1>2. ASSUME NEW u \in asleep' PROVE CallFine(u)' /\ LockFine(u)'
  <2>1. u \in asleep /\ u \in Tasks /\ u # t /\ u \notin WaitingFor(E) BY DEF TaskInv
  <2>2. pc'[u] = pc[u] /\ obj'[u] = obj[u] /\ executing'[u] = executing[u] BY <2>1 DEF TaskInv
  <2>3. \A d \in executions : pc[u] = "destroy" /\ Id(d) = destroying[u] => d \in executions'
    BY <2>1 DEF WaitingFor
  <2>4. CallFine(u)' BY <2>1, <2>2, <2>3, CallStays DEF SleepInv
  <2>5. LockFine(u)' BY <2>1, <2>2, LockStays DEF SleepInv
  <2> QED BY <2>4, <2>5
<1> QED BY <1>1, <1>2 DEF SleepInv

LEMMA FinishSleeps ==
  ASSUME LockInv, TaskInv, SleepInv, NEW t \in Tasks, t \notin asleep, Finish(t)
  PROVE  TaskInv' /\ SleepInv'
<1> DEFINE mine == {e \in executions : Id(e) = Id(executing[t])}
<1>1. CASE UNCHANGED <<vars, callVars>> BY <1>1, AllSame
<1>2. CASE ~UNCHANGED <<vars, callVars>>
  <2>1. /\ executions' = executions \ mine /\ asleep' = asleep \ WaitingFor(mine)
        /\ executing' = [executing EXCEPT ![t] = NoCall] /\ ReclaimAll(t)
        /\ pc' = [pc EXCEPT ![t] = "user"] /\ obj' = [obj EXCEPT ![t] = Nobody]
        /\ UNCHANGED <<wait, notified, dispatcher_pid, inbox, destroying>>
    BY <1>2 DEF Finish, Asserting, ReturnToUser, skirmishRest, history
  <2>2. \A s \in Skirmishes :
          \/ lock_pid'[s] = t
          \/ /\ lock_pid'[s] = lock_pid[s] /\ transfer'[s] = transfer[s]
             /\ transfer2'[s] = transfer2[s]
    BY <2>1 DEF ReclaimAll, RelockLent, EmptySlot
  <2>3. \A s \in Skirmishes :
          \/ lock_pid'[s] # Nobody
          \/ /\ lock_pid'[s] = lock_pid[s] /\ transfer'[s] = transfer[s]
             /\ transfer2'[s] = transfer2[s]
    BY <2>2, NobodyFacts
  <2>4. mine \in SUBSET executions OBVIOUS
  <2> HIDE DEF mine
  <2> QED BY <2>1, <2>3, <2>4, EndSleeps
<1> QED BY <1>1, <1>2

LEMMA AwaitSleeps ==
  ASSUME LockInv, TaskInv, SleepInv, NEW t \in Tasks, t \notin asleep, AwaitResult(t)
  PROVE  TaskInv' /\ SleepInv'
<1>1. CASE Finish(t) BY <1>1, FinishSleeps
<1>2. CASE ~Finish(t)
  <2>1. /\ ~Executed(t) /\ pc' = [pc EXCEPT ![t] = "call"] /\ asleep' = asleep \cup {t}
        /\ UNCHANGED <<obj, wait, notified, lock_pid, transfer, transfer2, dispatcher_pid,
                       executions, inbox, executing, destroying>>
    BY <1>2 DEF AwaitResult, SleepHere, skirmishRest, history, locks, transfers, callVars
  <2>2. TaskInv'
    <3>1. /\ obj' \in [Tasks -> Skirmishes \cup {Nobody}] /\ executing' \in [Tasks -> Executings]
          /\ destroying' \in [Tasks -> Ids \cup {NoExecution}] /\ "call" \in Places
      BY <2>1 DEF TaskInv, Executings, Places
    <3> QED BY <2>1, <3>1, TaskMoves
  <2>3. ASSUME NEW u \in asleep PROVE CallFine(u)' /\ LockFine(u)'
    <3>1. u \in Tasks /\ u # t BY DEF TaskInv
    <3>2. pc'[u] = pc[u] BY <2>1, <3>1 DEF TaskInv
    <3>3. CallFine(u)' BY <2>1, <3>1, <3>2, CallStays DEF SleepInv
    <3>4. LockFine(u)' BY <2>1, <3>1, <3>2, LockStays DEF SleepInv
    <3> QED BY <3>3, <3>4
  <2>4. CallFine(t)' /\ LockFine(t)'
    <3>1. pc'[t] = "call" BY <2>1 DEF TaskInv
    <3>2. ~Executed(t)' BY <2>1 DEF Executed
    <3> QED BY <3>1, <3>2 DEF CallFine, LockFine
  <2> QED BY <2>1, <2>2, <2>3, <2>4 DEF SleepInv
<1> QED BY <1>1, <1>2

LEMMA InterruptedSleeps ==
  ASSUME MsgInv, LockInv, TaskInv, SleepInv, NEW t \in Tasks, t \notin asleep, CallInterrupted(t)
  PROVE  TaskInv' /\ SleepInv'
<1>1. /\ pc' = [pc EXCEPT ![t] = "user"] /\ obj' = [obj EXCEPT ![t] = Nobody]
      /\ UNCHANGED <<asleep, wait, notified, lock_pid, transfer, transfer2, dispatcher_pid, inbox,
                     destroying>>
      /\ executing' = executing \/ executing' = [executing EXCEPT ![t] = NoCall]
  BY DEF CallInterrupted, ReturnToUser, skirmishRest, history, locks, transfers
<1>2. /\ \A e \in executions' : \E d \in executions : Id(d) = Id(e) /\ (e.executed => d.executed)
      /\ \A d \in executions : \E e \in executions' : Id(e) = Id(d)
  <2>1. CASE executions' = executions BY <2>1
  <2>2. CASE executions' = {IF Id(e) = Id(executing[t]) THEN [e EXCEPT !.signalled = TRUE] ELSE e :
                             e \in executions}
    <3> DEFINE S(e) == [e EXCEPT !.signalled = TRUE]
    <3>1. \A e \in executions : Id(S(e)) = Id(e) /\ S(e).executed = e.executed
      BY SignalledFacts DEF MsgInv, Messages
    <3>2. executions' = {IF Id(e) = Id(executing[t]) THEN S(e) ELSE e : e \in executions}
      BY <2>2
    <3> HIDE DEF S
    <3>3. \A e \in executions' : \E d \in executions : Id(d) = Id(e) /\ (e.executed => d.executed)
      BY <3>1, <3>2
    <3>4. \A d \in executions : \E e \in executions' : Id(e) = Id(d)
      BY <3>1, <3>2
    <3> QED BY <3>3, <3>4
  <2> QED BY <2>1, <2>2 DEF CallInterrupted
<1>3. TaskInv'
  <2>1. NoCall \in Executings BY DEF NoCall, Executings
  <2>2. /\ executing' \in [Tasks -> Executings] /\ destroying' \in [Tasks -> Ids \cup {NoExecution}]
        /\ obj' \in [Tasks -> Skirmishes \cup {Nobody}]
    BY <1>1, <2>1 DEF TaskInv, Executings
  <2> QED BY <1>1, <2>2, TaskMoves
<1>4. ASSUME NEW u \in asleep PROVE CallFine(u)' /\ LockFine(u)'
  <2>1. u \in Tasks /\ u # t BY DEF TaskInv
  <2>2. pc'[u] = pc[u] /\ obj'[u] = obj[u] /\ executing'[u] = executing[u]
    BY <1>1, <2>1 DEF TaskInv
  <2>3. CallFine(u)' BY <1>1, <1>2, <2>1, <2>2, CallStays DEF SleepInv
  <2>4. LockFine(u)' BY <1>1, <2>1, <2>2, LockStays DEF SleepInv
  <2> QED BY <2>3, <2>4
<1> QED BY <1>1, <1>3, <1>4 DEF SleepInv

\* A destroyer goes to sleep on an execution, or leaves.
LEMMA DestroyerMoves ==
  ASSUME LockInv, TaskInv, SleepInv, NEW t \in Tasks, t \notin asleep,
         UNCHANGED <<skirmishRest, locks, transfers, executions, inbox, executing>>,
         NEW x \in Ids \cup {NoExecution}, destroying' = [destroying EXCEPT ![t] = x],
         \/ ReturnToUser(t) /\ asleep' = asleep
         \/ SleepHere(t, "destroy") /\ asleep' = asleep \cup {t} /\ \E e \in executions : Id(e) = x
  PROVE  TaskInv' /\ SleepInv'
<1>1. UNCHANGED <<wait, notified, lock_pid, transfer, transfer2, dispatcher_pid>>
  BY DEF skirmishRest, history, locks, transfers
<1>2. /\ obj' \in [Tasks -> Skirmishes \cup {Nobody}] /\ \A u \in Tasks \ {t} : obj'[u] = obj[u]
      /\ \/ asleep' = asleep /\ pc' = [pc EXCEPT ![t] = "user"]
         \/ asleep' = asleep \cup {t} /\ pc' = [pc EXCEPT ![t] = "destroy"]
  BY DEF TaskInv, ReturnToUser, SleepHere
<1>3. TaskInv'
  <2>1. /\ executing' \in [Tasks -> Executings] /\ destroying' \in [Tasks -> Ids \cup {NoExecution}]
        /\ asleep' \subseteq asleep \cup {t} /\ "destroy" \in Places
    BY <1>2 DEF TaskInv, Executings, Places
  <2> QED BY <1>2, <2>1, TaskMoves
<1>4. ASSUME NEW u \in asleep PROVE CallFine(u)' /\ LockFine(u)'
  <2>1. u \in Tasks /\ u # t BY DEF TaskInv
  <2>2. pc'[u] = pc[u] /\ obj'[u] = obj[u] /\ destroying'[u] = destroying[u]
    BY <1>2, <2>1 DEF TaskInv
  <2>3. CallFine(u)' BY <2>1, <2>2, CallStays DEF SleepInv
  <2>4. LockFine(u)' BY <1>1, <2>1, <2>2, LockStays DEF SleepInv
  <2> QED BY <2>3, <2>4
<1>5. t \in asleep' => CallFine(t)' /\ LockFine(t)'
  <2> SUFFICES ASSUME t \in asleep' PROVE CallFine(t)' /\ LockFine(t)'
    OBVIOUS
  <2>1. pc'[t] = "destroy" /\ destroying'[t] = x /\ \E e \in executions : Id(e) = x
    BY <1>2 DEF TaskInv, ReturnToUser
  <2> QED BY <2>1 DEF CallFine, LockFine
<1>6. \A u \in asleep' : u \in asleep \/ (u = t /\ t \in asleep') BY <1>2
<1> QED BY <1>3, <1>4, <1>5, <1>6 DEF SleepInv

LEMMA AwaitExecutionsSleeps ==
  ASSUME MsgInv, LockInv, TaskInv, SleepInv, NEW t \in Tasks, t \notin asleep, NEW c,
         AwaitExecutions(t, c),
         UNCHANGED <<skirmishRest, locks, transfers, executions, inbox, executing>>
  PROVE  TaskInv' /\ SleepInv'
<1> DEFINE pend == {e \in executions : e.call = c}
           first == CHOOSE e \in pend : \A d \in pend : e.serial <= d.serial
<1>1. CASE pend # {}
  <2>1. first \in pend BY <1>1, OldestExecution
  <2>2. /\ destroying' = [destroying EXCEPT ![t] = Id(first)] /\ SleepHere(t, "destroy")
        /\ asleep' = asleep \cup {t}
    BY <1>1 DEF AwaitExecutions
  <2>3. first \in executions /\ Id(first) \in Ids BY <2>1, IdFacts DEF MsgInv, Messages
  <2> HIDE DEF first, pend
  <2> QED BY <2>2, <2>3, DestroyerMoves
<1>2. CASE pend = {} BY <1>2, DestroyerMoves DEF AwaitExecutions
<1> QED BY <1>1, <1>2

LEMMA DestroySleeps ==
  ASSUME MsgInv, LockInv, TaskInv, SleepInv, NEW t \in Tasks, DestroyResume(t)
  PROVE  TaskInv' /\ SleepInv'
<1>1. UNCHANGED <<skirmishRest, locks, transfers, executions, inbox, executing>> /\ t \notin asleep
  BY DEF DestroyResume
<1>2. CASE AwaitExecutions(t, destroying[t].call) BY <1>1, <1>2, AwaitExecutionsSleeps
<1>3. CASE /\ destroying' = [destroying EXCEPT ![t] = NoExecution]
           /\ ReturnToUser(t) /\ UNCHANGED asleep
  BY <1>1, <1>3, DestroyerMoves
<1> QED BY <1>2, <1>3 DEF DestroyResume

LEMMA ReturnSleeps ==
  ASSUME MsgInv, LockInv, TaskInv, SleepInv, NEW t \in Tasks, Return(t)
  PROVE  TaskInv' /\ SleepInv'
<1>0. t \notin asleep /\ Found(t) \in SUBSET executions
  BY DEF Return, InUser, TaskInv, Places, Found
<1>1. CASE ReturnFails(t) /\ UNCHANGED <<calls, serial, inbox, executing, destroying, callsLeft>>
  <2>1. /\ executions' = executions \ Found(t) /\ asleep' = asleep \ WaitingFor(Found(t))
        /\ UNCHANGED <<pc, obj, executing, wait, notified, dispatcher_pid, inbox, destroying>>
        /\ UNCHANGED <<lock_pid, transfer, transfer2>>
    BY <1>1 DEF ReturnFails, WakeCallers, history, locks, transfers
  <2>2. executing' = executing \/ executing' = [executing EXCEPT ![t] = NoCall] BY <2>1
  <2> QED BY <1>0, <2>1, <2>2, EndSleeps
<1>2. ASSUME NEW e \in Found(t), ReturnResult(t, e) PROVE TaskInv' /\ SleepInv'
  <2> DEFINE d == [e EXCEPT !.executed = TRUE]
  <2>1. CASE UNCHANGED <<vars, callVars>> BY <2>1, AllSame
  <2>2. CASE ~UNCHANGED <<vars, callVars>>
    <3>1. /\ executions' = (executions \ {e}) \cup {d} /\ asleep' = asleep \ WaitingFor({e})
          /\ UNCHANGED <<pc, obj, executing, wait, notified, dispatcher_pid, inbox, destroying>>
          /\ UNCHANGED <<transfer, transfer2>>
          /\ \A s \in Skirmishes : lock_pid'[s] = Returned \/ lock_pid'[s] = lock_pid[s]
      BY <1>2, <2>2 DEF ReturnResult, Asserting, WakeCallers, skirmishRest, history, transfers
    <3>2. Id(d) = Id(e) BY <1>0, ExecutedFacts DEF MsgInv, Messages
    <3> HIDE DEF d
    <3>3. TaskInv' BY <3>1, TaskStays
    <3>4. ASSUME NEW u \in asleep' PROVE CallFine(u)' /\ LockFine(u)'
      <4>1. u \in asleep /\ u \in Tasks /\ u \notin WaitingFor({e}) BY <3>1 DEF TaskInv
      <4>2. \A x \in executions' : pc[u] = "call" /\ Id(x) = Id(executing[u]) => x \in executions
        BY <3>1, <3>2, <4>1 DEF WaitingFor
      <4>3. \A x \in executions : \E y \in executions' : Id(y) = Id(x) BY <3>1, <3>2
      <4>4. CallFine(u)' BY <3>1, <4>1, <4>2, <4>3, CallStays DEF SleepInv
      <4>5. LockFine(u)' BY <3>1, <4>1, NobodyFacts, LockStays DEF SleepInv
      <4> QED BY <4>4, <4>5
    <3> QED BY <3>3, <3>4 DEF SleepInv
  <2> QED BY <2>1, <2>2
<1> QED BY <1>1, <1>2 DEF Return

LEMMA ReadSleeps ==
  ASSUME MsgInv, LockInv, TaskInv, SleepInv, DispatcherInv, NEW t \in Tasks, Read(t)
  PROVE  TaskInv' /\ SleepInv'
<1> DEFINE f == Owner[t]
<1>1. /\ t \notin asleep /\ dispatcher_pid' = [dispatcher_pid EXCEPT ![f] = t]
      /\ UNCHANGED <<wait, notified, lock_pid, transfer, transfer2, executions, executing, destroying>>
  BY DEF Read, InUser, TaskInv, Places, skirmishRest, history, locks
<1>2. inbox \in [Fusionees -> Seq(Ids)] /\ f \in Fusionees BY TasksAssumption DEF MsgInv, Queues
<1>3. \/ asleep' = asleep /\ pc' = [pc EXCEPT ![t] = "user"] /\ obj' = [obj EXCEPT ![t] = Nobody]
      \/ asleep' = asleep \cup {t} /\ pc' = [pc EXCEPT ![t] = "read"] /\ obj' = obj /\ inbox[f] = <<>>
         /\ inbox' = inbox
  BY DEF Read, SleepHere, ReturnToUser
<1>4. \A g \in Fusionees : inbox[g] = <<>> => inbox'[g] = <<>>
  <2>1. inbox' = inbox \/ (inbox[f] # <<>> /\ inbox' = [inbox EXCEPT ![f] = Tail(inbox[f])])
    BY DEF Read, Serve
  <2> QED BY <1>2, <2>1
<1>5. TaskInv'
  <2>1. /\ executing' \in [Tasks -> Executings] /\ destroying' \in [Tasks -> Ids \cup {NoExecution}]
        /\ obj' \in [Tasks -> Skirmishes \cup {Nobody}] /\ "read" \in Places
    BY <1>1, <1>3 DEF TaskInv, Executings, Places
  <2> QED BY <1>1, <1>3, <2>1, TaskMoves
<1>6. ASSUME NEW u \in asleep PROVE CallFine(u)' /\ LockFine(u)'
  <2>1. u \in Tasks /\ u # t /\ Owner[u] \in Fusionees BY <1>1, TasksAssumption DEF TaskInv
  <2>2. pc'[u] = pc[u] /\ obj'[u] = obj[u] BY <1>3, <2>1 DEF TaskInv
  <2>3. CallFine(u)' BY <1>1, <1>4, <2>1, <2>2, CallStays DEF SleepInv
  <2>4. \A g \in Fusionees : dispatcher_pid'[g] = u => dispatcher_pid[g] = u
    BY <1>1, <2>1 DEF DispatcherInv
  <2>5. LockFine(u)' BY <1>1, <2>1, <2>2, <2>4, LockStays DEF SleepInv
  <2> QED BY <2>3, <2>5
<1>7. t \in asleep' => CallFine(t)' /\ LockFine(t)'
  <2> SUFFICES ASSUME t \in asleep' PROVE CallFine(t)' /\ LockFine(t)'
    OBVIOUS
  <2>1. pc'[t] = "read" /\ inbox'[f] = <<>> BY <1>1, <1>3 DEF TaskInv
  <2> QED BY <2>1 DEF CallFine, LockFine
<1>8. \A u \in asleep' : u \in asleep \/ (u = t /\ t \in asleep') BY <1>3
<1> QED BY <1>5, <1>6, <1>7, <1>8 DEF SleepInv

\* What is dismissed wakes its sleepers, the rest is left alone.
LEMMA DismissedStays ==
  ASSUME LockInv, NEW L, NEW S1, NEW S2,
         transfer' = Dropped(S1, S2), transfer2' = Dropped2(S1 \cup S2),
         \A s \in Skirmishes \ L : lock_pid'[s] = lock_pid[s] \/ lock_pid'[s] = Returned,
         NEW u, obj[u] \notin L \cup S1 \cup S2
  PROVE  \A s \in Skirmishes : s = obj[u] =>
           \/ lock_pid'[s] # Nobody
           \/ /\ lock_pid'[s] = lock_pid[s] /\ transfer'[s] = transfer[s]
              /\ transfer2'[s] = transfer2[s]
BY DroppedFacts, NobodyFacts

LEMMA ExitSleeps ==
  ASSUME LockInv, WaitInv, TaskInv, SleepInv, NEW t \in Tasks, CallExit(t)
  PROVE  TaskInv' /\ SleepInv'
<1> DEFINE L  == {s \in Live : lock_pid[s] = t}
           S1 == {s \in Live : transfer[s].from_pid = t}
           S2 == {s \in Live : transfer2[s].from_pid = t}
<1>1. /\ pc[t] = "user" /\ t \notin asleep /\ pc' = [pc EXCEPT ![t] = "dead"]
      /\ wait' = [wait EXCEPT ![t] = NoWait] /\ notified' = notified \ {t}
      /\ UNCHANGED <<obj, dispatcher_pid, executions, inbox, destroying>>
      /\ executing' = [executing EXCEPT ![t] = NoCall]
  BY DEF CallExit, Exit, InUser, TaskInv, Places
<1>2. asleep' \subseteq asleep
  BY DEF CallExit, Exit, DismissAllFromPid, DismissSets, Wake
<1>3. TaskInv'
  <2>1. NoCall \in Executings BY DEF NoCall, Executings
  <2>2. /\ executing' \in [Tasks -> Executings] /\ destroying' \in [Tasks -> Ids \cup {NoExecution}]
        /\ obj' \in [Tasks -> Skirmishes \cup {Nobody}] /\ asleep' \subseteq asleep \cup {t}
    BY <1>1, <1>2, <2>1 DEF TaskInv, Executings
  <2> QED BY <1>1, <1>2, <2>2, TaskMoves
<1>4. ASSUME NEW u \in asleep' PROVE CallFine(u)' /\ LockFine(u)'
  <2>1. u \in asleep /\ u \in Tasks /\ u # t BY <1>1, <1>2 DEF TaskInv
  <2>2. pc'[u] = pc[u] /\ executing'[u] = executing[u] /\ wait'[u] = wait[u]
    BY <1>1, <2>1 DEF TaskInv, WaitInv
  <2>3. CallFine(u)' BY <1>1, <2>1, <2>2, CallStays DEF SleepInv
  <2>4. \A s \in Skirmishes : s = obj[u] =>
          \/ lock_pid'[s] # Nobody
          \/ /\ lock_pid'[s] = lock_pid[s] /\ transfer'[s] = transfer[s]
             /\ transfer2'[s] = transfer2[s]
    <3>1. CASE UNCHANGED <<locks, transfer, transfer2, asleep>> BY <3>1 DEF locks
    <3>2. CASE DismissSets(L, S1, S2)
      <4>1. asleep' = asleep \ Sleepers(L \cup S1 \cup S2) BY <3>2 DEF DismissSets, Wake
      <4>2. obj[u] \notin L \cup S1 \cup S2 BY <2>1, <4>1 DEF Sleepers
      <4>3. /\ transfer' = Dropped(S1, S2) /\ transfer2' = Dropped2(S1 \cup S2)
            /\ \A s \in Skirmishes \ L : lock_pid'[s] = lock_pid[s]
        BY <3>2 DEF DismissSets
      <4> HIDE DEF L, S1, S2
      <4> QED BY <4>2, <4>3, DismissedStays
    <3> QED BY <3>1, <3>2 DEF CallExit, Exit, DismissAllFromPid
  <2>5. LockFine(u)' BY <1>1, <2>1, <2>2, <2>4, LockStays DEF SleepInv
  <2> QED BY <2>3, <2>5
<1> QED BY <1>2, <1>3, <1>4 DEF SleepInv

LEMMA ReleaseSleeps ==
  ASSUME MsgInv, LockInv, TaskInv, SleepInv, DispatcherInv, NEW f \in Fusionees, CallRelease(f)
  PROVE  TaskInv' /\ SleepInv'
<1> DEFINE L  == {s \in Live : lock_fid[s] = f}
           S1 == {s \in Live : transfer[s].from = f}
           S2 == {s \in Live : transfer2[s].from = f}
           tr  == Dropped(S1, S2)
           tr2 == Dropped2(S1 \cup S2)
           back == {s \in Live : f = IF tr2[s].to # Nobody THEN tr2[s].to ELSE tr[s].to}
           gone == {c \in calls : Callee[c] = f}
           lost == {e \in executions : e.call \in gone}
<1>1. CASE UNCHANGED <<vars, callVars>> BY <1>1, AllSame
<1>2. CASE ~UNCHANGED <<vars, callVars>>
  <2>1. /\ lock_pid' = [s \in Skirmishes |-> IF s \in back THEN Returned
                                             ELSE IF s \in L THEN Nobody ELSE lock_pid[s]]
        /\ transfer' = tr /\ transfer2' = tr2
        /\ asleep' = asleep \ (Sleepers(L \cup S1 \cup S2) \cup WaitingFor(lost))
        /\ dispatcher_pid' = [dispatcher_pid EXCEPT ![f] = Nobody]
        /\ executions' = {e \in executions : e.call \notin gone}
        /\ inbox' = [inbox EXCEPT ![f] = <<>>]
        /\ UNCHANGED <<pc, obj, wait, notified, executing, destroying>>
    BY <1>2 DEF CallRelease, Asserting, DestroyCalls
  <2>2. TaskInv' BY <2>1, TaskStays
  <2>3. ASSUME NEW u \in asleep' PROVE CallFine(u)' /\ LockFine(u)'
    <3>1. /\ u \in asleep /\ u \in Tasks /\ u \notin WaitingFor(lost) /\ obj[u] \notin L \cup S1 \cup S2
          /\ Owner[u] \in Fusionees
      BY <2>1, TasksAssumption DEF TaskInv, Sleepers
    <3>2. \A d \in executions : pc[u] = "destroy" /\ Id(d) = destroying[u] => d \in executions'
      BY <2>1, <3>1 DEF WaitingFor
    <3>3. inbox[Owner[u]] = <<>> => inbox'[Owner[u]] = <<>>
      BY <2>1, <3>1 DEF MsgInv, Queues
    <3>4. CallFine(u)' BY <2>1, <3>1, <3>2, <3>3, CallStays DEF SleepInv
    <3>5. \A g \in Fusionees : dispatcher_pid'[g] = u => dispatcher_pid[g] = u
      BY <2>1, <3>1, NobodyFacts DEF DispatcherInv
    <3>6. \A s \in Skirmishes \ L : lock_pid'[s] = lock_pid[s] \/ lock_pid'[s] = Returned BY <2>1
    <3> HIDE DEF L, S1, S2
    <3>7. \A s \in Skirmishes : s = obj[u] =>
            \/ lock_pid'[s] # Nobody
            \/ /\ lock_pid'[s] = lock_pid[s] /\ transfer'[s] = transfer[s]
               /\ transfer2'[s] = transfer2[s]
      <4>1. /\ transfer' = Dropped(S1, S2) /\ transfer2' = Dropped2(S1 \cup S2)
            /\ obj[u] \notin L \cup S1 \cup S2
        BY <2>1, <3>1
      <4> QED BY <3>6, <4>1, DismissedStays
    <3>8. LockFine(u)' BY <2>1, <3>1, <3>5, <3>7, LockStays DEF SleepInv
    <3> QED BY <3>4, <3>8
  <2>4. asleep' \subseteq asleep BY <2>1
  <2> QED BY <2>2, <2>3 DEF SleepInv
<1> QED BY <1>1, <1>2

LEMMA SignalSleeps ==
  ASSUME LockInv, TaskInv, SleepInv, asleep' \subseteq asleep,
         UNCHANGED <<pc, obj, wait, notified, lock_pid, transfer, transfer2, dispatcher_pid,
                     executions, inbox, executing, destroying>>
  PROVE  TaskInv' /\ SleepInv'
<1>1. TaskInv' BY TaskStays
<1>2. ASSUME NEW u \in asleep' PROVE CallFine(u)' /\ LockFine(u)'
  <2>1. u \in asleep /\ u \in Tasks BY DEF TaskInv
  <2>2. CallFine(u)' BY <2>1, CallStays DEF SleepInv
  <2>3. LockFine(u)' BY <2>1, LockStays DEF SleepInv
  <2> QED BY <2>2, <2>3
<1> QED BY <1>1, <1>2 DEF SleepInv

LEMMA SleepsStep ==
  ASSUME MsgInv, LockInv, WaitInv, TaskInv, SleepInv, DispatcherInv, [CallNext]_allVars
  PROVE  TaskInv' /\ SleepInv'
<1>1. ASSUME NEW t \in Tasks, NEW s \in Skirmishes, SkirmishStep(t, s) PROVE TaskInv' /\ SleepInv'
  BY <1>1, SkirmishSleeps
<1>2. ASSUME NEW t \in Tasks, SkirmishResume(t) PROVE TaskInv' /\ SleepInv'
  BY <1>2, ResumeSleeps
<1>3. ASSUME NEW t \in Tasks, NEW c \in Calls, NEW r \in Resumable, Execute(t, c, r)
      PROVE  TaskInv' /\ SleepInv'
  BY <1>3, ExecuteSleeps, CallsAssumption
<1>4. ASSUME NEW t \in Tasks, NEW c \in Calls, CallDestroy(t, c) PROVE TaskInv' /\ SleepInv'
  <2>1. t \notin asleep BY <1>4 DEF CallDestroy, InUser, TaskInv, Places
  <2> QED BY <1>4, <2>1, AwaitExecutionsSleeps DEF CallDestroy
<1>5. ASSUME NEW t \in Tasks, CallResume(t) PROVE TaskInv' /\ SleepInv'
  BY <1>5, InterruptedSleeps, AwaitSleeps DEF CallResume
<1>6. ASSUME NEW t \in Tasks, ExecuteAgain(t) PROVE TaskInv' /\ SleepInv'
  <2>1. t \notin asleep BY <1>6 DEF ExecuteAgain, InUser, TaskInv, Places
  <2>2. CASE AwaitResult(t) BY <2>1, <2>2, AwaitSleeps
  <2>3. CASE ~AwaitResult(t)
    <3>1. /\ executing' = [executing EXCEPT ![t] = NoCall]
          /\ UNCHANGED <<pc, obj, asleep, wait, notified, lock_pid, transfer, transfer2,
                         dispatcher_pid, executions, inbox, destroying>>
      BY <1>6, <2>3 DEF ExecuteAgain, vars, locks, transfers, kernel, history
    <3>2. /\ executions' = executions \ {} /\ asleep' = asleep \ WaitingFor({})
      BY <3>1 DEF WaitingFor
    <3>3. {} \in SUBSET executions OBVIOUS
    <3> QED BY <2>1, <3>1, <3>2, <3>3, EndSleeps
  <2> QED BY <2>2, <2>3
<1>7. ASSUME NEW t \in Tasks, DestroyResume(t) PROVE TaskInv' /\ SleepInv' BY <1>7, DestroySleeps
<1>8. ASSUME NEW t \in Tasks, Return(t) PROVE TaskInv' /\ SleepInv' BY <1>8, ReturnSleeps
<1>9. ASSUME NEW t \in Tasks, ReadFree(t) PROVE TaskInv' /\ SleepInv'
  BY <1>9, ReadSleeps DEF ReadFree
<1>10. ASSUME NEW t \in Tasks, Disturb(t) PROVE TaskInv' /\ SleepInv'
  <2>1. CASE CallSignal(t)
    <3>1. asleep' \subseteq asleep BY <2>1 DEF CallSignal
    <3> QED BY <2>1, <3>1, SignalSleeps DEF CallSignal, skirmishRest, history, locks, transfers, callVars
  <2>2. CASE Signal(t) /\ UNCHANGED <<callVars, oops>>
    <3>1. asleep' \subseteq asleep BY <2>2 DEF Signal
    <3> QED BY <2>2, <3>1, SignalSleeps DEF Signal, history, locks, transfers, callVars
  <2>3. CASE CallExit(t) BY <2>3, ExitSleeps
  <2> QED BY <1>10, <2>1, <2>2, <2>3 DEF Disturb
<1>11. ASSUME NEW f \in Fusionees, CallRelease(f) PROVE TaskInv' /\ SleepInv' BY <1>11, ReleaseSleeps
<1>12. CASE UNCHANGED allVars BY <1>12, AllSame DEF allVars
<1> QED
  BY <1>1, <1>2, <1>3, <1>4, <1>5, <1>6, <1>7, <1>8, <1>9, <1>10, <1>11, <1>12
     DEF CallNext, CallStep

LEMMA DispatcherStep == DispatcherInv /\ [CallNext]_allVars => DispatcherInv'
<1> SUFFICES ASSUME DispatcherInv, [CallNext]_allVars PROVE DispatcherInv'
  OBVIOUS
<1>1. ASSUME UNCHANGED dispatcher_pid PROVE DispatcherInv' BY <1>1 DEF DispatcherInv
<1>2. ASSUME NEW f \in Fusionees, NEW x \in Tasks \cup {Nobody},
             dispatcher_pid' = [dispatcher_pid EXCEPT ![f] = x]
      PROVE  DispatcherInv'
  BY <1>2 DEF DispatcherInv
<1>3. ASSUME NEW t \in Tasks, NEW s \in Skirmishes, SkirmishStep(t, s) PROVE UNCHANGED dispatcher_pid
  BY <1>3 DEF SkirmishStep, PrevailOwned, PrevailFree, PrevailBlock, Dismiss, Swoop, WaitFresh,
              Notify, transfers
<1>4. ASSUME NEW t \in Tasks, SkirmishResume(t) PROVE UNCHANGED dispatcher_pid
  BY <1>4 DEF SkirmishResume, Resume, PrevailResume, WaitResume, RelockResume, WaitAgain, transfers
<1>5. ASSUME NEW t \in Tasks, AwaitResult(t) PROVE UNCHANGED dispatcher_pid
  BY <1>5 DEF AwaitResult, Finish, Asserting, vars, transfers
<1>6. ASSUME NEW t \in Tasks, CallStep(t), ~Read(t) PROVE UNCHANGED dispatcher_pid
  <2>1. CASE Return(t)
    BY <2>1 DEF Return, ReturnFails, ReturnResult, Asserting, vars, transfers
  <2>2. CASE CallResume(t) \/ ExecuteAgain(t)
    BY <1>5, <2>2 DEF CallResume, CallInterrupted, ExecuteAgain, vars, transfers
  <2> QED BY <1>6, <2>1, <2>2 DEF CallStep, Execute, CallDestroy, DestroyResume, ReadFree, transfers
<1>7. ASSUME NEW t \in Tasks, Read(t) PROVE DispatcherInv'
  BY <1>2, <1>7, TasksAssumption DEF Read
<1>8. ASSUME NEW t \in Tasks, Disturb(t) PROVE UNCHANGED dispatcher_pid
  BY <1>8 DEF Disturb, CallSignal, Signal, CallExit, Exit, transfers
<1>9. ASSUME NEW f \in Fusionees, CallRelease(f) PROVE DispatcherInv'
  <2>1. CASE UNCHANGED vars BY <1>1, <2>1 DEF vars, transfers
  <2>2. CASE ~UNCHANGED vars BY <1>2, <1>9, <2>2 DEF CallRelease, Asserting
  <2> QED BY <2>1, <2>2
<1>10. CASE UNCHANGED allVars BY <1>1, <1>10 DEF allVars, vars, transfers
<1> QED
  BY <1>1, <1>3, <1>4, <1>6, <1>7, <1>8, <1>9, <1>10 DEF CallNext

CallInv == MsgInv /\ LockInv /\ WaitInv /\ TaskInv /\ SleepInv /\ DispatcherInv

LEMMA CallInvInit == CallInit => CallInv
<1> SUFFICES ASSUME CallInit PROVE CallInv
  OBVIOUS
<1>1. MsgInv BY MsgInit
<1>2. LockInv BY NoTransferFacts, NobodyFacts DEF CallInit, LockInv
<1>3. WaitInv BY NoWaitFacts, NobodyFacts DEF CallInit, WaitInv
<1>4. TaskInv
  <2>1. NoCall \in Executings BY DEF NoCall, Executings
  <2> QED BY <2>1 DEF CallInit, TaskInv, Executings
<1>5. SleepInv BY DEF CallInit, SleepInv
<1>6. DispatcherInv BY DEF CallInit, DispatcherInv
<1> QED BY <1>1, <1>2, <1>3, <1>4, <1>5, <1>6 DEF CallInv

LEMMA CallInvStep == CallInv /\ [CallNext]_allVars => CallInv'
<1> SUFFICES ASSUME CallInv, [CallNext]_allVars PROVE CallInv'
  OBVIOUS
<1>1. MsgInv' BY MsgStep DEF CallInv
<1>2. LockInv' BY LocksStep DEF CallInv
<1>3. WaitInv' BY WaitsStep DEF CallInv
<1>4. TaskInv' /\ SleepInv' BY SleepsStep DEF CallInv
<1>5. DispatcherInv' BY DispatcherStep DEF CallInv
<1> QED BY <1>1, <1>2, <1>3, <1>4, <1>5 DEF CallInv

LEMMA CallInvInductive == CallSpec => []CallInv
<1> QED BY CallInvInit, CallInvStep, PTL DEF CallSpec

\* Nobody sleeps on what has happened, through every call, signal, death and
\* destruction: a caller its result, a reader a message, a locker the lock.
THEOREM NobodySleepsOnEvent == CallSpec => []NoSleepOnEvent
<1>1. CallInv => NoSleepOnEvent
  <2> SUFFICES ASSUME CallInv, NEW t \in asleep
               PROVE  CASE pc[t] = "call"    -> ~Executed(t)
                        [] pc[t] = "destroy" -> destroying[t] \in {Id(e) : e \in executions}
                        [] pc[t] = "read"    -> inbox[Owner[t]] = <<>>
                        [] pc[t] = "prevail" -> MustWait(obj[t], t)
                        [] pc[t] = "relock"  -> lock_pid[obj[t]] # Nobody
                        [] pc[t] = "wait"    -> t \notin notified
    BY DEF NoSleepOnEvent
  <2>1. pc[t] \in Places /\ CallFine(t) /\ LockFine(t) BY DEF CallInv, TaskInv, SleepInv
  <2>2. CASE pc[t] = "call" BY <2>1, <2>2 DEF CallFine
  <2>3. CASE pc[t] = "destroy" BY <2>1, <2>3 DEF CallFine
  <2>4. CASE pc[t] = "read" BY <2>1, <2>4 DEF CallFine
  <2>5. CASE pc[t] = "prevail" BY <2>1, <2>5 DEF LockFine
  <2>6. CASE pc[t] = "relock" BY <2>1, <2>6 DEF LockFine
  <2>7. CASE pc[t] = "wait" BY <2>1, <2>7 DEF LockFine
  <2> QED BY <2>1, <2>2, <2>3, <2>4, <2>5, <2>6, <2>7 DEF Places
<1> QED BY <1>1, CallInvInductive, PTL

-----------------------------------------------------------------------------
(* The locks a caller lends *)

\* What keeps the locks of callers together: nobody dies, every interrupted caller
\* calls again, callees answer what they are asked, who reads messages does not
\* swoop, and every fusionee is used by a task and read by one.
Undisturbed ==
  /\ Mortals = {} /\ Waiters = {} /\ Misreturns = {} /\ Resumable \subseteq {TRUE}
  /\ Swoopers \cap Dispatchers = {}
  /\ \A f \in Fusionees : \E t \in Tasks : Owner[t] = f
  /\ \A t, u \in Dispatchers : Owner[t] = Owner[u] => t = u

\* A caller does nothing but its call.
QuietInv ==
  /\ oops = "none"
  /\ \A t \in Tasks :
       /\ pc[t] \notin {"wait", "relock", "dead"} /\ wait[t].lock_count = 0
       /\ pc[t] = "prevail" => NoneOpen(t)
       /\ pc[t] = "call" => ~NoneOpen(t)

\* Messages are read by the dispatcher of a fusionee.
ReaderInv ==
  /\ \A f \in Fusionees : dispatcher_pid[f] # Nobody =>
       dispatcher_pid[f] \in Dispatchers /\ Owner[dispatcher_pid[f]] = f
  /\ \A t \in Tasks : serving[t] # NoExecution => t \in Dispatchers

\* A caller has one execution, and an execution its caller.
CallerInv ==
  /\ \A e \in executions : Id(executing[e.pid]) = Id(e) /\ ~e.signalled
  /\ \A d, e \in executions : Id(d) = Id(e) => d = e
  /\ \A t \in Tasks : ~NoneOpen(t) =>
       executing[t].resumable /\ \E e \in executions : e.pid = t /\ Id(e) = Id(executing[t])

\* A lent lock belongs to the call its caller waits for.
Belongs(x) ==
  /\ x.from_pid \in Tasks /\ x.from = Owner[x.from_pid] /\ executing[x.from_pid] # NoCall
  /\ x.to = Callee[executing[x.from_pid].call] /\ x.serial = executing[x.from_pid].serial

\* The second slot is for who serves the call of the first, which has no result yet.
SlotFine(s) ==
  /\ transfer[s].to # Nobody => Belongs(transfer[s])
  /\ transfer2[s].to # Nobody =>
       /\ Belongs(transfer2[s]) /\ transfer[s].to # Nobody
       /\ transfer2[s].from_pid \in Dispatchers
       /\ Owner[transfer2[s].from_pid] = transfer[s].to
       /\ transfer2[s].from_pid # transfer[s].from_pid
       /\ \A u \in Tasks : u = transfer[s].from_pid => ~Executed(u)

SlotInv == \A s \in Skirmishes : SlotFine(s)

\* A lock is marked as given back when the caller has its result.  Else it is free,
\* or a task's: when lent, the dispatcher's of the callee, and never a lender's.
TakenFine(s) ==
  /\ lock_pid[s] = Returned <=>
       \E u \in Tasks : Innermost(s).to # Nobody /\ Innermost(s).from_pid = u /\ Executed(u)
  /\ lock_pid[s] \notin Tasks => lock_fid[s] = Nobody /\ lock_count[s] = 0
  /\ lock_pid[s] \in Tasks =>
       /\ lock_fid[s] = Owner[lock_pid[s]]
       /\ Innermost(s).to # Nobody =>
            lock_pid[s] \in Dispatchers /\ Owner[lock_pid[s]] = Innermost(s).to
       /\ transfer[s].to # Nobody => transfer[s].from_pid # lock_pid[s]
       /\ transfer2[s].to # Nobody => transfer2[s].from_pid # lock_pid[s]

TakenInv ==
  /\ lock_fid \in [Skirmishes -> Fusionees \cup {Nobody}]
  /\ \A s \in Skirmishes : TakenFine(s)

\* What a task is due: the depth of its lock, or of the slot it is kept in.
Due(t, s) ==
  IF lock_pid[s] = t THEN lock_count[s]
  ELSE IF transfer[s].to # Nobody /\ transfer[s].from_pid = t THEN transfer[s].count
  ELSE IF transfer2[s].to # Nobody /\ transfer2[s].from_pid = t THEN transfer2[s].count
  ELSE 0

HeldInv ==
  /\ held \in [Tasks -> [Skirmishes -> Nat]]
  /\ \A t \in Tasks, s \in Skirmishes : held[t][s] = Due(t, s)

LentInv == SlotInv /\ TakenInv /\ HeldInv

LEMMA InnermostIs ==
  ASSUME NEW s
  PROVE  /\ transfer2[s].to # Nobody => Innermost(s) = transfer2[s]
         /\ transfer2[s].to = Nobody => Innermost(s) = transfer[s]
BY DEF Innermost

\* Whose execution is whose.
LEMMA CallerFacts ==
  ASSUME MsgInv, TaskInv, CallerInv, NEW t \in Tasks, executing[t] # NoCall
  PROVE  /\ Id(executing[t]) \in Ids
         /\ \A u \in Tasks : executing[u] # NoCall /\ Id(executing[u]) = Id(executing[t]) => u = t
         /\ \A u \in Tasks \ {t} : Id(executing[u]) # Id(executing[t])
<1>1. PICK e \in executions : e.pid = t /\ Id(e) = Id(executing[t]) BY DEF CallerInv, NoneOpen
<1>2. e \in Executions /\ Id(e) \in Ids BY IdFacts DEF MsgInv, Messages
<1>3. ASSUME NEW u \in Tasks, executing[u] # NoCall, Id(executing[u]) = Id(executing[t]) PROVE u = t
  <2>1. PICK d \in executions : d.pid = u /\ Id(d) = Id(executing[u]) BY <1>3 DEF CallerInv, NoneOpen
  <2> QED BY <1>1, <1>3, <2>1 DEF CallerInv
<1>4. \A u \in Tasks : executing[u] = NoCall => Id(executing[u]) # Id(executing[t])
  BY <1>1, <1>2, NoExecutionFacts
<1> QED BY <1>1, <1>2, <1>3, <1>4

LEMMA SlotKept ==
  ASSUME NEW s \in Skirmishes, SlotFine(s), transfer'[s] = transfer[s], transfer2'[s] = transfer2[s],
         transfer[s].to # Nobody => executing'[transfer[s].from_pid] = executing[transfer[s].from_pid],
         transfer2[s].to # Nobody =>
           executing'[transfer2[s].from_pid] = executing[transfer2[s].from_pid],
         \A u \in Tasks : transfer2[s].to # Nobody /\ u = transfer[s].from_pid /\ ~Executed(u) =>
           ~Executed(u)'
  PROVE  SlotFine(s)'
<1>1. transfer[s].to # Nobody => Belongs(transfer[s])' BY DEF SlotFine, Belongs
<1>2. transfer2[s].to # Nobody => Belongs(transfer2[s])' BY DEF SlotFine, Belongs
<1>3. transfer2[s].to # Nobody => \A u \in Tasks : u = transfer[s].from_pid => ~Executed(u)'
  BY DEF SlotFine
<1> QED BY <1>1, <1>2, <1>3 DEF SlotFine

LEMMA TakenKept ==
  ASSUME NEW s \in Skirmishes, TakenFine(s), transfer'[s] = transfer[s],
         transfer2'[s] = transfer2[s], lock_fid'[s] = lock_fid[s], lock_pid'[s] = lock_pid[s],
         lock_count'[s] = lock_count[s],
         \A u \in Tasks : Innermost(s).to # Nobody /\ u = Innermost(s).from_pid =>
           (Executed(u)' <=> Executed(u))
  PROVE  TakenFine(s)'
<1>1. Innermost(s)' = Innermost(s) BY DEF Innermost
<1> QED BY <1>1 DEF TakenFine

LEMMA DueKept ==
  ASSUME NEW t \in Tasks, NEW s \in Skirmishes, transfer'[s] = transfer[s],
         transfer2'[s] = transfer2[s], lock_pid'[s] = lock_pid[s], lock_count'[s] = lock_count[s]
  PROVE  Due(t, s)' = Due(t, s)
BY DEF Due

\* Steps that touch no lock.
LEMMA LentSame ==
  ASSUME LentInv, UNCHANGED <<lock_fid, lock_pid, lock_count, transfer, transfer2, held, executing>>,
         \A u \in Tasks : Executed(u)' <=> Executed(u)
  PROVE  LentInv'
<1>1. SlotInv' BY SlotKept DEF LentInv, SlotInv
<1>2. TakenInv' BY TakenKept DEF LentInv, TakenInv
<1>3. HeldInv' BY DueKept DEF LentInv, HeldInv
<1> QED BY <1>1, <1>2, <1>3 DEF LentInv

\* Steps of one task on one lock.
LEMMA LentOne ==
  ASSUME LentInv, LockInv, NEW s \in Skirmishes, NEW t \in Tasks,
         UNCHANGED <<transfer, transfer2, executions, executing>>,
         lock_fid' \in [Skirmishes -> Fusionees \cup {Nobody}],
         held' \in [Tasks -> [Skirmishes -> Nat]],
         \A x \in Skirmishes \ {s} : /\ lock_fid'[x] = lock_fid[x] /\ lock_pid'[x] = lock_pid[x]
                                     /\ lock_count'[x] = lock_count[x]
                                     /\ \A u \in Tasks : held'[u][x] = held[u][x],
         TakenFine(s)', \A u \in Tasks : held'[u][s] = Due(u, s)'
  PROVE  LentInv'
<1>1. \A u \in Tasks : Executed(u)' <=> Executed(u) BY DEF Executed
<1>2. SlotInv' BY <1>1, SlotKept DEF LentInv, SlotInv
<1>3. TakenInv'
  <2>1. \A x \in Skirmishes \ {s} : TakenFine(x)' BY <1>1, TakenKept DEF LentInv, TakenInv
  <2> QED BY <2>1 DEF TakenInv
<1>4. HeldInv'
  <2>1. \A u \in Tasks : \A x \in Skirmishes \ {s} : held'[u][x] = Due(u, x)'
    BY DueKept DEF LentInv, HeldInv
  <2> QED BY <2>1 DEF HeldInv
<1> QED BY <1>2, <1>3, <1>4 DEF LentInv

LEMMA TakeLent ==
  ASSUME LentInv, LockInv, NEW s \in Skirmishes, NEW t \in Tasks, NoneOpen(t),
         lock_pid[s] = Nobody, Take(s, t, 1),
         Innermost(s).to # Nobody => t \in Dispatchers /\ Owner[t] = Innermost(s).to,
         UNCHANGED <<transfer, transfer2, executions, executing>>
  PROVE  LentInv'
<1>1. /\ lock_fid' = [lock_fid EXCEPT ![s] = Owner[t]] /\ lock_pid' = [lock_pid EXCEPT ![s] = t]
      /\ lock_count' = [lock_count EXCEPT ![s] = 1] /\ held' = [held EXCEPT ![t][s] = 1]
  BY DEF Take
<1>2. /\ lock_fid'[s] = Owner[t] /\ lock_pid'[s] = t /\ lock_count'[s] = 1
      /\ lock_fid' \in [Skirmishes -> Fusionees \cup {Nobody}]
      /\ held' \in [Tasks -> [Skirmishes -> Nat]]
      /\ held'[t][s] = 1 /\ \A u \in Tasks \ {t} : held'[u][s] = held[u][s]
      /\ \A x \in Skirmishes \ {s} :
           /\ lock_fid'[x] = lock_fid[x] /\ lock_pid'[x] = lock_pid[x]
           /\ lock_count'[x] = lock_count[x] /\ \A u \in Tasks : held'[u][x] = held[u][x]
  BY <1>1, TasksAssumption DEF LentInv, LockInv, TakenInv, HeldInv
<1>3. /\ transfer[s].to # Nobody => transfer[s].from_pid # t
      /\ transfer2[s].to # Nobody => transfer2[s].from_pid # t
  BY DEF LentInv, SlotInv, SlotFine, Belongs, NoneOpen
<1>4. TakenFine(s)'
  <2>1. Innermost(s)' = Innermost(s) BY DEF Innermost
  <2>2. \A u \in Tasks : Executed(u)' <=> Executed(u) BY DEF Executed
  <2>3. ~(\E u \in Tasks : Innermost(s).to # Nobody /\ Innermost(s).from_pid = u /\ Executed(u))
    BY NobodyFacts DEF LentInv, TakenInv, TakenFine
  <2> QED BY <1>2, <1>3, <2>1, <2>2, <2>3, NobodyFacts DEF TakenFine
<1>5. ASSUME NEW u \in Tasks PROVE held'[u][s] = Due(u, s)'
  <2>1. held[u][s] = Due(u, s) BY DEF LentInv, HeldInv
  <2> QED BY <1>2, <2>1, NobodyFacts DEF Due
<1> QED BY <1>2, <1>4, <1>5, LentOne

LEMMA DeepenLent ==
  ASSUME LentInv, LockInv, NEW s \in Skirmishes, NEW t \in Tasks, lock_pid[s] = t, Deepen(s, t),
         UNCHANGED <<transfer, transfer2, executions, executing>>
  PROVE  LentInv'
<1>1. /\ UNCHANGED <<lock_fid, lock_pid>> /\ lock_count' = [lock_count EXCEPT ![s] = lock_count[s] + 1]
      /\ held' = [held EXCEPT ![t][s] = held[t][s] + 1]
  BY DEF Deepen
<1>2. /\ lock_count'[s] = lock_count[s] + 1
      /\ held' \in [Tasks -> [Skirmishes -> Nat]]
      /\ held'[t][s] = held[t][s] + 1 /\ \A u \in Tasks \ {t} : held'[u][s] = held[u][s]
      /\ \A x \in Skirmishes \ {s} :
           lock_count'[x] = lock_count[x] /\ \A u \in Tasks : held'[u][x] = held[u][x]
  BY <1>1 DEF LentInv, LockInv, HeldInv
<1>3. TakenFine(s)'
  <2>1. Innermost(s)' = Innermost(s) BY DEF Innermost
  <2>2. \A u \in Tasks : Executed(u)' <=> Executed(u) BY DEF Executed
  <2> QED BY <1>1, <2>1, <2>2 DEF TakenFine, LentInv, TakenInv
<1>4. ASSUME NEW u \in Tasks PROVE held'[u][s] = Due(u, s)'
  <2>1. held[u][s] = Due(u, s) BY DEF LentInv, HeldInv
  <2> QED BY <1>1, <1>2, <2>1 DEF Due
<1> QED BY <1>1, <1>2, <1>3, <1>4, LentOne DEF LentInv, TakenInv

LEMMA DismissLent ==
  ASSUME LentInv, LockInv, NEW s \in Skirmishes, NEW t \in Tasks, Dismiss(t, s),
         UNCHANGED <<executions, executing>>
  PROVE  LentInv'
<1>1. /\ lock_pid[s] = t /\ lock_count' = [lock_count EXCEPT ![s] = lock_count[s] - 1]
      /\ held' = [held EXCEPT ![t][s] = held[t][s] - 1] /\ UNCHANGED <<transfer, transfer2>>
      /\ IF lock_count[s] = 1
         THEN /\ lock_fid' = [lock_fid EXCEPT ![s] = Nobody]
              /\ lock_pid' = [lock_pid EXCEPT ![s] = Nobody]
         ELSE UNCHANGED <<lock_fid, lock_pid>>
  BY DEF Dismiss, transfers
<1>2. /\ held[t][s] = lock_count[s] /\ lock_count[s] \in Nat /\ lock_count[s] > 0
      /\ \A u \in Tasks : held[u][s] = Due(u, s)
  BY <1>1 DEF LentInv, HeldInv, Due, LockInv
<1>3. /\ transfer[s].to # Nobody => transfer[s].from_pid # t
      /\ transfer2[s].to # Nobody => transfer2[s].from_pid # t
  BY <1>1 DEF LentInv, TakenInv, TakenFine
<1>4. /\ lock_count'[s] = lock_count[s] - 1
      /\ held'[t][s] = lock_count[s] - 1 /\ \A u \in Tasks \ {t} : held'[u][s] = held[u][s]
      /\ \A x \in Skirmishes \ {s} :
           /\ lock_fid'[x] = lock_fid[x] /\ lock_pid'[x] = lock_pid[x]
           /\ lock_count'[x] = lock_count[x] /\ \A u \in Tasks : held'[u][x] = held[u][x]
  BY <1>1, <1>2 DEF LentInv, LockInv, TakenInv, HeldInv
<1>5. /\ lock_fid' \in [Skirmishes -> Fusionees \cup {Nobody}]
      /\ held' \in [Tasks -> [Skirmishes -> Nat]]
  <2>1. lock_count[s] - 1 \in Nat BY <1>2
  <2>2. held' = [held EXCEPT ![t][s] = lock_count[s] - 1] BY <1>1, <1>2
  <2> QED BY <1>1, <2>1, <2>2 DEF LentInv, TakenInv, HeldInv
<1>6. TakenFine(s)'
  <2>1. Innermost(s)' = Innermost(s) BY <1>1 DEF Innermost
  <2>2. \A u \in Tasks : Executed(u)' <=> Executed(u) BY DEF Executed
  <2>3. ~(\E u \in Tasks : Innermost(s).to # Nobody /\ Innermost(s).from_pid = u /\ Executed(u))
    BY <1>1, NobodyFacts DEF LentInv, TakenInv, TakenFine
  <2>4. CASE lock_count[s] = 1
    <3>1. lock_fid'[s] = Nobody /\ lock_pid'[s] = Nobody /\ lock_count'[s] = 0
      BY <1>1, <1>4, <2>4 DEF LentInv, TakenInv, LockInv
    <3> QED BY <2>1, <2>2, <2>3, <3>1, NobodyFacts DEF TakenFine
  <2>5. CASE lock_count[s] # 1
    <3>1. lock_fid'[s] = lock_fid[s] /\ lock_pid'[s] = t BY <1>1, <2>5
    <3> QED BY <1>1, <1>3, <2>1, <2>2, <2>3, <3>1, NobodyFacts DEF TakenFine, LentInv, TakenInv
  <2> QED BY <2>4, <2>5
<1>7. ASSUME NEW u \in Tasks PROVE held'[u][s] = Due(u, s)'
  <2>1. CASE u = t
    <3>1. CASE lock_count[s] = 1
      <4>1. lock_pid'[s] = Nobody BY <1>1, <3>1 DEF LockInv
      <4> QED BY <1>1, <1>3, <1>4, <2>1, <3>1, <4>1, NobodyFacts DEF Due
    <3>2. CASE lock_count[s] # 1 BY <1>1, <1>4, <2>1, <3>2 DEF Due
    <3> QED BY <3>1, <3>2
  <2>2. CASE u # t
    <3>1. held'[u][s] = Due(u, s) BY <1>2, <1>4, <2>2
    <3>2. lock_pid'[s] # u /\ lock_pid[s] # u BY <1>1, <2>2, NobodyFacts DEF LockInv
    <3> QED BY <1>1, <3>1, <3>2 DEF Due
  <2> QED BY <2>1, <2>2
<1> QED BY <1>1, <1>4, <1>5, <1>6, <1>7, LentOne

\* A call has no result when it starts.
LEMMA ExecuteExecuted ==
  ASSUME MsgInv, TaskInv, NEW t \in Tasks, NEW c \in Calls, NEW r, Execute(t, c, r)
  PROVE  /\ ~Executed(t) /\ ~Executed(t)' /\ \A u \in Tasks : Executed(u)' <=> Executed(u)
         /\ \A u \in Tasks \ {t} : executing'[u] = executing[u]
         /\ executing'[t] # NoCall /\ executing'[t].call = c /\ executing'[t].serial = serial[c] + 1
         /\ executing'[t].resumable = r
<1> DEFINE d == [call |-> c, serial |-> serial[c] + 1, pid |-> t, executed |-> FALSE, signalled |-> FALSE]
           x == [call |-> c, serial |-> serial[c] + 1, resumable |-> r]
<1>1. /\ executions' = executions \cup {d} /\ executing' = [executing EXCEPT ![t] = x]
      /\ NoneOpen(t)
  BY DEF Execute
<1>2. d.executed = FALSE /\ x.call = c /\ x.serial = serial[c] + 1 /\ x.resumable = r OBVIOUS
<1>3. x # NoCall /\ Id(x) = [call |-> c, serial |-> serial[c] + 1]
  <2>1. serial[c] + 1 # 0 BY DEF MsgInv, Messages
  <2>2. NoCall.serial = 0 BY DEF NoCall
  <2> QED BY <1>2, <2>1, <2>2 DEF Id
<1> HIDE DEF d, x
<1>4. \A e \in executions : Id(e) # [call |-> c, serial |-> serial[c] + 1]
  <2>1. ASSUME NEW e \in executions, Id(e) = [call |-> c, serial |-> serial[c] + 1] PROVE FALSE
    <3>1. Id(e).call = c /\ Id(e).serial = serial[c] + 1 BY <2>1
    <3>2. serial[c] \in Nat /\ Id(e).serial <= serial[Id(e).call] BY DEF MsgInv, Messages, Known
    <3> QED BY <3>1, <3>2
  <2> QED BY <2>1
<1>5. executing'[t] = x /\ \A u \in Tasks \ {t} : executing'[u] = executing[u]
  BY <1>1 DEF TaskInv
<1>6. ~Executed(t)' BY <1>1, <1>2, <1>3, <1>4, <1>5 DEF Executed
<1>7. ~Executed(t)
  <2>1. Id(executing[t]) = NoExecution BY <1>1, NoExecutionFacts DEF NoneOpen
  <2>2. \A e \in executions : Id(e) \in Ids BY IdFacts DEF MsgInv, Messages
  <2> QED BY <2>1, <2>2, NoExecutionFacts DEF Executed
<1>8. ASSUME NEW u \in Tasks \ {t} PROVE Executed(u)' <=> Executed(u)
  BY <1>1, <1>2, <1>5 DEF Executed
<1> QED BY <1>2, <1>3, <1>5, <1>6, <1>7, <1>8

\* The locks of the caller go into the slots.
LEMMA ExecuteLent ==
  ASSUME MsgInv, LockInv, TaskInv, LentInv, NEW t \in Tasks, NEW c \in Calls, NEW r, Execute(t, c, r)
  PROVE  LentInv'
<1> DEFINE n      == serial[c] + 1
           f      == Callee[c]
           mine   == {s \in Live : lock_pid[s] = t}
           first  == {s \in mine : transfer[s].to = Nobody}
           second == {s \in mine \ first : transfer2[s].to = Nobody}
           Slot(s) == [to |-> f, from |-> Owner[t], from_pid |-> t,
                       count |-> lock_count[s], serial |-> n]
<1>1. /\ NoneOpen(t) /\ TransferAll(t, f, n) /\ UNCHANGED held
  BY DEF Execute, skirmishRest, history
<1>2. /\ transfer'   = [s \in Skirmishes |-> IF s \in first THEN Slot(s) ELSE transfer[s]]
      /\ transfer2'  = [s \in Skirmishes |-> IF s \in second THEN Slot(s) ELSE transfer2[s]]
      /\ lock_fid'   = [s \in Skirmishes |-> IF s \in first \cup second THEN Nobody ELSE lock_fid[s]]
      /\ lock_pid'   = [s \in Skirmishes |-> IF s \in first \cup second THEN Nobody ELSE lock_pid[s]]
      /\ lock_count' = [s \in Skirmishes |-> IF s \in first \cup second THEN 0 ELSE lock_count[s]]
  BY <1>1 DEF TransferAll
<1>3. /\ f \in Fusionees /\ f # Nobody /\ t # Nobody /\ n \in Nat /\ Owner[t] \in Fusionees
  BY CallsAssumption, TasksAssumption DEF MsgInv, Messages
<1>4. \A s \in Skirmishes : Slot(s).to = f /\ Slot(s).from = Owner[t] /\ Slot(s).from_pid = t
                            /\ Slot(s).count = lock_count[s] /\ Slot(s).serial = n
  OBVIOUS
<1>5. \A s \in first : s \in Skirmishes /\ lock_pid[s] = t /\ transfer[s].to = Nobody /\ s \notin second
  BY DEF Live
<1>6. \A s \in second : s \in Skirmishes /\ lock_pid[s] = t /\ transfer[s].to # Nobody
                        /\ transfer2[s].to = Nobody /\ s \notin first
  BY DEF Live
<1>7. /\ ~Executed(t)' /\ \A u \in Tasks : Executed(u)' <=> Executed(u)
      /\ \A u \in Tasks \ {t} : executing'[u] = executing[u]
      /\ executing'[t] # NoCall /\ executing'[t].call = c /\ executing'[t].serial = n
  BY ExecuteExecuted
<1> HIDE DEF mine, first, second, Slot, n
<1>8. ASSUME NEW s \in Skirmishes
      PROVE  /\ transfer[s].to # Nobody => transfer[s].from_pid \in Tasks \ {t}
             /\ transfer2[s].to # Nobody => transfer2[s].from_pid \in Tasks \ {t}
  BY <1>1 DEF LentInv, SlotInv, SlotFine, Belongs, NoneOpen
<1>9. \A s \in Skirmishes :
        /\ transfer'[s] = Slot(s) => Belongs(transfer[s])'
        /\ transfer2'[s] = Slot(s) => Belongs(transfer2[s])'
  BY <1>3, <1>4, <1>7 DEF Belongs
<1>10. ASSUME NEW s \in first
       PROVE  SlotFine(s)' /\ TakenFine(s)' /\ \A u \in Tasks : Due(u, s)' = Due(u, s)
  <2>1. /\ s \in Skirmishes /\ transfer'[s] = Slot(s) /\ transfer2'[s] = transfer2[s]
        /\ lock_fid'[s] = Nobody /\ lock_pid'[s] = Nobody /\ lock_count'[s] = 0
    BY <1>2, <1>5
  <2>2. transfer2[s].to = Nobody BY <1>5, <2>1 DEF LentInv, SlotInv, SlotFine
  <2>3. Innermost(s)' = Slot(s) BY <2>1, <2>2 DEF Innermost
  <2>4. SlotFine(s)' BY <1>9, <2>1, <2>2 DEF SlotFine
  <2>5. TakenFine(s)' BY <1>4, <1>7, <2>1, <2>3, NobodyFacts DEF TakenFine
  <2>6. ASSUME NEW u \in Tasks PROVE Due(u, s)' = Due(u, s)
    <3>1. u # Nobody /\ Slot(s).to # Nobody BY <1>3, <1>4, <2>1, NobodyFacts
    <3> QED BY <1>4, <1>5, <2>1, <2>2, <3>1 DEF Due
  <2> QED BY <2>4, <2>5, <2>6
<1>11. ASSUME NEW s \in second
       PROVE  SlotFine(s)' /\ TakenFine(s)' /\ \A u \in Tasks : Due(u, s)' = Due(u, s)
  <2>1. /\ s \in Skirmishes /\ transfer'[s] = transfer[s] /\ transfer2'[s] = Slot(s)
        /\ lock_fid'[s] = Nobody /\ lock_pid'[s] = Nobody /\ lock_count'[s] = 0
    BY <1>2, <1>6
  <2>2. lock_pid[s] = t /\ transfer[s].to # Nobody /\ transfer2[s].to = Nobody /\ Innermost(s) = transfer[s]
    BY <1>6 DEF Innermost
  <2>3. Slot(s).to # Nobody /\ Innermost(s)' = Slot(s) BY <1>3, <1>4, <2>1 DEF Innermost
  <2>4. TakenFine(s) /\ SlotFine(s) BY <2>1 DEF LentInv, TakenInv, SlotInv
  <2>5. /\ t \in Dispatchers /\ Owner[t] = transfer[s].to /\ transfer[s].from_pid # t
        /\ \A u \in Tasks : u = transfer[s].from_pid => ~Executed(u)
    BY <2>2, <2>4, NobodyFacts DEF TakenFine
  <2>6. Belongs(transfer[s])' BY <1>7, <1>8, <2>1, <2>2, <2>4 DEF SlotFine, Belongs
  <2>7. SlotFine(s)' BY <1>4, <1>7, <1>9, <2>1, <2>2, <2>5, <2>6 DEF SlotFine
  <2>8. TakenFine(s)' BY <1>4, <1>7, <2>1, <2>3, NobodyFacts DEF TakenFine
  <2>9. ASSUME NEW u \in Tasks PROVE Due(u, s)' = Due(u, s)
    <3>1. u # Nobody BY NobodyFacts
    <3> QED BY <1>4, <2>1, <2>2, <2>3, <2>5, <3>1 DEF Due
  <2> QED BY <2>7, <2>8, <2>9
<1>12. ASSUME NEW s \in Skirmishes \ (first \cup second)
       PROVE  SlotFine(s)' /\ TakenFine(s)' /\ \A u \in Tasks : Due(u, s)' = Due(u, s)
  <2>1. /\ transfer'[s] = transfer[s] /\ transfer2'[s] = transfer2[s]
        /\ lock_fid'[s] = lock_fid[s] /\ lock_pid'[s] = lock_pid[s] /\ lock_count'[s] = lock_count[s]
    BY <1>2
  <2>2. TakenFine(s) /\ SlotFine(s) BY DEF LentInv, TakenInv, SlotInv
  <2>3. SlotFine(s)' BY <1>7, <1>8, <2>1, <2>2, SlotKept
  <2>4. TakenFine(s)' BY <1>7, <2>1, <2>2, TakenKept
  <2> QED BY <2>1, <2>3, <2>4, DueKept
<1>13. SlotInv' BY <1>10, <1>11, <1>12 DEF SlotInv
<1>14. TakenInv'
  <2>1. lock_fid' \in [Skirmishes -> Fusionees \cup {Nobody}] BY <1>2 DEF LentInv, TakenInv
  <2> QED BY <1>10, <1>11, <1>12, <2>1 DEF TakenInv
<1>15. HeldInv' BY <1>1, <1>10, <1>11, <1>12 DEF HeldInv, LentInv
<1> QED BY <1>13, <1>14, <1>15 DEF LentInv

\* The caller takes its result, and nobody else's.
LEMMA FinishExecuted ==
  ASSUME MsgInv, TaskInv, CallerInv, NEW t \in Tasks, Executed(t),
         executions' = executions \ {e \in executions : Id(e) = Id(executing[t])},
         executing' = [executing EXCEPT ![t] = NoCall]
  PROVE  /\ executing[t] # NoCall /\ executing'[t] = NoCall /\ ~Executed(t)'
         /\ \A u \in Tasks \ {t} : executing'[u] = executing[u] /\ (Executed(u)' <=> Executed(u))
<1>1. \A e \in executions : Id(e) \in Ids BY IdFacts DEF MsgInv, Messages
<1>2. executing[t] # NoCall BY <1>1, NoExecutionFacts DEF Executed
<1>3. executing'[t] = NoCall /\ \A u \in Tasks \ {t} : executing'[u] = executing[u]
  BY DEF TaskInv
<1>4. ~Executed(t)' BY <1>1, <1>3, NoExecutionFacts DEF Executed
<1>5. ASSUME NEW u \in Tasks \ {t} PROVE Executed(u)' <=> Executed(u)
  <2>1. Id(executing[u]) # Id(executing[t]) BY <1>2, CallerFacts
  <2>2. executing'[u] = executing[u] BY <1>3
  <2> QED BY <2>1, <2>2 DEF Executed
<1> QED BY <1>2, <1>3, <1>4, <1>5

\* The locks come back from the slots, each with the depth it had.
LEMMA FinishLent ==
  ASSUME MsgInv, LockInv, TaskInv, CallerInv, LentInv, NEW t \in Tasks, Executed(t), Finish(t)
  PROVE  /\ LentInv' /\ UNCHANGED oops
         /\ executions' = executions \ {e \in executions : Id(e) = Id(executing[t])}
         /\ executing' = [executing EXCEPT ![t] = NoCall]
<1> DEFINE R == Reclaimed(t)
<1>1. ASSUME NEW s \in R
      PROVE  /\ s \in Skirmishes /\ Innermost(s).to # Nobody /\ Innermost(s).from_pid = t
             /\ Innermost(s).from = Owner[t] /\ lock_pid[s] = Returned
  <2>1. s \in Skirmishes /\ Innermost(s).to # Nobody /\ Innermost(s).from_pid = t
    BY LiveAll DEF Reclaimed
  <2>2. Innermost(s).from = Owner[t]
    BY <2>1, InnermostIs DEF LentInv, SlotInv, SlotFine, Belongs
  <2>3. lock_pid[s] = Returned BY <2>1 DEF LentInv, TakenInv, TakenFine
  <2> QED BY <2>1, <2>2, <2>3
<1>2. \A s \in Skirmishes : Innermost(s).to # Nobody /\ Innermost(s).from_pid = t => s \in R
  BY LiveAll DEF Reclaimed
<1>3. /\ executions' = executions \ {e \in executions : Id(e) = Id(executing[t])}
      /\ executing' = [executing EXCEPT ![t] = NoCall]
      /\ ReclaimAll(t) /\ UNCHANGED held /\ UNCHANGED oops
  BY <1>1 DEF Finish, Asserting, skirmishRest, history
<1>4. /\ lock_fid'   = [s \in Skirmishes |-> IF s \in R THEN Innermost(s).from ELSE lock_fid[s]]
      /\ lock_pid'   = [s \in Skirmishes |-> IF s \in R THEN t ELSE lock_pid[s]]
      /\ lock_count' = [s \in Skirmishes |-> IF s \in R THEN Innermost(s).count ELSE lock_count[s]]
      /\ transfer'   = [s \in Skirmishes |->
                          IF s \in R /\ transfer2[s].to = Nobody THEN NoTransfer ELSE transfer[s]]
      /\ transfer2'  = [s \in Skirmishes |-> IF s \in R THEN NoTransfer ELSE transfer2[s]]
  BY <1>3 DEF ReclaimAll, RelockLent, EmptySlot
<1>5. /\ executing[t] # NoCall /\ executing'[t] = NoCall /\ ~Executed(t)'
      /\ \A u \in Tasks \ {t} : executing'[u] = executing[u] /\ (Executed(u)' <=> Executed(u))
  BY <1>3, FinishExecuted
<1> HIDE DEF R
<1>6. t # Nobody /\ t # Returned BY NobodyFacts
<1>7. ASSUME NEW s \in R, transfer2[s].to # Nobody
      PROVE  SlotFine(s)' /\ TakenFine(s)' /\ \A u \in Tasks : Due(u, s)' = Due(u, s)
  <2>1. /\ s \in Skirmishes /\ transfer2[s].from_pid = t /\ lock_pid[s] = Returned
        /\ lock_fid'[s] = Owner[t] /\ lock_pid'[s] = t /\ lock_count'[s] = transfer2[s].count
        /\ transfer'[s] = transfer[s] /\ transfer2'[s] = NoTransfer
    BY <1>1, <1>4, <1>7, InnermostIs
  <2>2. SlotFine(s) BY <2>1 DEF LentInv, SlotInv
  <2>3. /\ transfer[s].to # Nobody /\ Belongs(transfer[s]) /\ transfer[s].from_pid \in Tasks \ {t}
        /\ t \in Dispatchers /\ Owner[t] = transfer[s].to
        /\ \A u \in Tasks : u = transfer[s].from_pid => ~Executed(u)
    BY <1>7, <2>1, <2>2 DEF SlotFine, Belongs
  <2>4. SlotFine(s)'
    <3>1. Belongs(transfer[s])' BY <1>5, <2>1, <2>3 DEF Belongs
    <3> QED BY <2>1, <3>1, NoTransferFacts DEF SlotFine
  <2>5. TakenFine(s)'
    <3>1. Innermost(s)' = transfer[s] BY <2>1, NoTransferFacts DEF Innermost
    <3>2. \A u \in Tasks : u = transfer[s].from_pid => ~Executed(u)' BY <1>5, <2>3
    <3> QED BY <1>6, <2>1, <2>3, <3>1, <3>2, NoTransferFacts DEF TakenFine
  <2>6. ASSUME NEW u \in Tasks PROVE Due(u, s)' = Due(u, s)
    BY <1>6, <1>7, <2>1, <2>3, NobodyFacts, NoTransferFacts DEF Due
  <2> QED BY <2>4, <2>5, <2>6
<1>8. ASSUME NEW s \in R, transfer2[s].to = Nobody
      PROVE  SlotFine(s)' /\ TakenFine(s)' /\ \A u \in Tasks : Due(u, s)' = Due(u, s)
  <2>1. /\ s \in Skirmishes /\ transfer[s].to # Nobody /\ transfer[s].from_pid = t /\ lock_pid[s] = Returned
        /\ lock_fid'[s] = Owner[t] /\ lock_pid'[s] = t /\ lock_count'[s] = transfer[s].count
        /\ transfer'[s] = NoTransfer /\ transfer2'[s] = NoTransfer
    BY <1>1, <1>4, <1>8, InnermostIs
  <2>2. SlotFine(s)' BY <2>1, NoTransferFacts DEF SlotFine
  <2>3. TakenFine(s)'
    <3>1. Innermost(s)' = NoTransfer BY <2>1, NoTransferFacts DEF Innermost
    <3> QED BY <1>6, <2>1, <3>1, NoTransferFacts DEF TakenFine
  <2>4. ASSUME NEW u \in Tasks PROVE Due(u, s)' = Due(u, s)
    BY <1>6, <1>8, <2>1, NobodyFacts, NoTransferFacts DEF Due
  <2> QED BY <2>2, <2>3, <2>4
<1>9. ASSUME NEW s \in Skirmishes \ R
      PROVE  SlotFine(s)' /\ TakenFine(s)' /\ \A u \in Tasks : Due(u, s)' = Due(u, s)
  <2>1. /\ transfer'[s] = transfer[s] /\ transfer2'[s] = transfer2[s]
        /\ lock_fid'[s] = lock_fid[s] /\ lock_pid'[s] = lock_pid[s] /\ lock_count'[s] = lock_count[s]
    BY <1>4
  <2>2. TakenFine(s) /\ SlotFine(s) BY DEF LentInv, TakenInv, SlotInv
  <2>3. /\ transfer[s].to # Nobody => transfer[s].from_pid \in Tasks \ {t}
        /\ transfer2[s].to # Nobody => transfer2[s].from_pid \in Tasks \ {t}
    BY <1>2, <2>2, InnermostIs DEF SlotFine, Belongs
  <2>4. SlotFine(s)' BY <1>5, <2>1, <2>2, <2>3, SlotKept
  <2>5. TakenFine(s)' BY <1>5, <2>1, <2>2, <2>3, InnermostIs, TakenKept
  <2> QED BY <2>1, <2>4, <2>5, DueKept
<1>10. SlotInv' BY <1>7, <1>8, <1>9 DEF SlotInv
<1>11. TakenInv'
  <2>1. \A s \in Skirmishes : lock_fid'[s] \in Fusionees \cup {Nobody}
    BY <1>1, <1>4, TasksAssumption DEF LentInv, TakenInv
  <2>2. lock_fid' \in [Skirmishes -> Fusionees \cup {Nobody}] BY <1>4, <2>1
  <2> QED BY <1>7, <1>8, <1>9, <2>2 DEF TakenInv
<1>12. HeldInv' BY <1>3, <1>7, <1>8, <1>9 DEF HeldInv, LentInv
<1> QED BY <1>3, <1>10, <1>11, <1>12 DEF LentInv

\* A result is for the caller of the execution.
LEMMA ResultExecuted ==
  ASSUME MsgInv, TaskInv, CallerInv, NEW t \in Tasks, serving[t] # NoExecution,
         NEW e \in executions, Id(e) = serving[t], ~e.executed,
         executions' = (executions \ {e}) \cup {[e EXCEPT !.executed = TRUE]}, UNCHANGED executing
  PROVE  /\ e.pid \in Tasks /\ executing[e.pid] # NoCall /\ Id(executing[e.pid]) = Id(e)
         /\ Callee[executing[e.pid].call] = Owner[t] /\ executing[e.pid].serial = e.serial
         /\ ~Executed(e.pid) /\ Executed(e.pid)'
         /\ \A u \in Tasks \ {e.pid} : Executed(u)' <=> Executed(u)
<1> DEFINE d == [e EXCEPT !.executed = TRUE]
           p == e.pid
<1>1. e \in Executions /\ Id(e) \in Ids /\ p \in Tasks /\ Id(e).call = e.call /\ Id(e).serial = e.serial
  BY IdFacts DEF MsgInv, Messages, Executions
<1>2. Id(d) = Id(e) /\ d.executed = TRUE BY <1>1, ExecutedFacts
<1>3. executions' = (executions \ {e}) \cup {d} OBVIOUS
<1> HIDE DEF d, p
<1>4. Id(executing[p]) = Id(e) BY DEF CallerInv, p
<1>5. executing[p] # NoCall BY <1>1, <1>4, NoExecutionFacts
<1>6. Callee[executing[p].call] = Owner[t] /\ executing[p].serial = e.serial
  <2>1. executing[p].call = e.call /\ executing[p].serial = e.serial
    <3>1. Id(executing[p]).call = executing[p].call /\ Id(executing[p]).serial = executing[p].serial
      BY DEF Id
    <3> QED BY <1>1, <1>4, <3>1
  <2>2. Callee[serving[t].call] = Owner[t] BY DEF MsgInv, Serving
  <2> QED BY <1>1, <2>1, <2>2
<1>7. ~Executed(p) BY <1>4 DEF Executed, CallerInv
<1>8. Executed(p)' BY <1>2, <1>3, <1>4 DEF Executed
<1>9. ASSUME NEW u \in Tasks \ {p} PROVE Executed(u)' <=> Executed(u)
  <2>1. Id(executing[u]) # Id(e) BY <1>1, <1>4, <1>5, CallerFacts
  <2> QED BY <1>2, <1>3, <2>1 DEF Executed
<1>10. p = e.pid BY DEF p
<1> QED BY <1>1, <1>4, <1>5, <1>6, <1>7, <1>8, <1>9, <1>10

\* What the callee gives back is marked, and is all that its caller had lent.
LEMMA ReturnLent ==
  ASSUME Undisturbed, MsgInv, LockInv, TaskInv, CallerInv, ReaderInv, LentInv,
         NEW t \in Tasks, serving[t] # NoExecution, NoneOpen(t),
         \A s \in Live : lock_pid[s] # t,
         NEW e \in Found(t), ReturnResult(t, e)
  PROVE  /\ LentInv' /\ UNCHANGED <<executing, oops>>
         /\ executions' = (executions \ {e}) \cup {[e EXCEPT !.executed = TRUE]}
         /\ serving' = [serving EXCEPT ![t] = NoExecution]
<1> DEFINE p == e.pid
           back == GivenBack(Owner[t], p, e.serial)
<1>1. e \in executions /\ Id(e) = serving[t] /\ ~e.executed BY DEF Found
<1>2. /\ p \in Tasks /\ executing[p] # NoCall
      /\ Callee[executing[p].call] = Owner[t] /\ executing[p].serial = e.serial /\ ~Executed(p)
  <2>1. e \in Executions /\ Id(e) \in Ids BY <1>1, IdFacts DEF MsgInv, Messages
  <2>2. p \in Tasks /\ e.serial = Id(e).serial BY <2>1, IdFacts DEF Executions
  <2>3. Id(executing[p]) = Id(e) BY <1>1 DEF CallerInv
  <2>4. executing[p] # NoCall BY <2>1, <2>3, NoExecutionFacts
  <2>5. executing[p].call = Id(e).call /\ executing[p].serial = Id(e).serial
    <3>1. Id(executing[p]).call = executing[p].call /\ Id(executing[p]).serial = executing[p].serial
      BY DEF Id
    <3> QED BY <2>3, <3>1
  <2>6. Callee[Id(e).call] = Owner[t] BY <1>1 DEF MsgInv, Serving
  <2>7. ~Executed(p) BY <1>1, <2>3 DEF Executed, CallerInv
  <2> QED BY <2>2, <2>4, <2>5, <2>6, <2>7
<1>3. t \in Dispatchers /\ \A u \in Dispatchers : Owner[u] = Owner[t] => u = t
  BY DEF ReaderInv, Undisturbed
<1>4. Owner[t] \in Fusionees /\ Owner[t] # Nobody /\ Live = Skirmishes BY TasksAssumption, LiveAll
<1>5. \A s \in Skirmishes : SlotFine(s) /\ TakenFine(s) BY DEF LentInv, SlotInv, TakenInv
<1>6. \A s \in Skirmishes : s \in back <=> Innermost(s).to # Nobody /\ Innermost(s).from_pid = p
  <2>1. \A s \in Skirmishes : Innermost(s).to # Nobody => Belongs(Innermost(s))
    BY <1>5, InnermostIs DEF SlotFine
  <2> QED BY <1>2, <1>4, <2>1 DEF GivenBack, Belongs
<1>7. ASSUME NEW s \in back
      PROVE  s \in Skirmishes /\ lock_pid[s] = Nobody /\ lock_fid[s] = Nobody /\ lock_count[s] = 0
  <2>1. s \in Skirmishes /\ Innermost(s).to = Owner[t] /\ Innermost(s).from_pid = p BY <1>4 DEF GivenBack
  <2>2. TakenFine(s) BY <1>5, <2>1
  <2>3. lock_pid[s] # Returned BY <1>2, <2>1, <2>2 DEF TakenFine
  <2>4. lock_pid[s] \notin Tasks BY <1>3, <1>4, <2>1, <2>2 DEF TakenFine
  <2>5. lock_pid[s] = Nobody BY <2>1, <2>3, <2>4 DEF LockInv
  <2> QED BY <2>1, <2>2, <2>4, <2>5 DEF TakenFine
<1>8. \A s \in back : Untouched(s) BY <1>7 DEF Untouched
<1>9. /\ executions' = (executions \ {e}) \cup {[e EXCEPT !.executed = TRUE]}
      /\ lock_pid'   = [s \in Skirmishes |-> IF s \in back THEN Returned ELSE lock_pid[s]]
      /\ serving' = [serving EXCEPT ![t] = NoExecution]
      /\ UNCHANGED <<executing, oops, lock_fid, lock_count, transfer, transfer2, held>>
  BY <1>8 DEF ReturnResult, Asserting, skirmishRest, history, transfers
<1>10. Executed(p)' /\ \A u \in Tasks \ {p} : Executed(u)' <=> Executed(u)
  BY <1>1, <1>9, ResultExecuted
<1> HIDE DEF back
<1>11. ASSUME NEW s \in Skirmishes, transfer2[s].to # Nobody PROVE transfer[s].from_pid # p
  <2>1. SlotFine(s) BY <1>5
  <2>2. SUFFICES ASSUME transfer[s].from_pid = p PROVE FALSE OBVIOUS
  <2>3. transfer[s].to = Owner[t] BY <1>2, <1>11, <2>1, <2>2 DEF SlotFine, Belongs
  <2>4. transfer2[s].from_pid = t BY <1>3, <1>11, <2>1, <2>3 DEF SlotFine
  <2> QED BY <1>11, <2>1, <2>4 DEF SlotFine, Belongs, NoneOpen
<1>12. SlotInv'
  <2>1. ASSUME NEW s \in Skirmishes PROVE SlotFine(s)' BY <1>5, <1>9, <1>10, <1>11, SlotKept
  <2> QED BY <2>1 DEF SlotInv
<1>13. ASSUME NEW s \in back PROVE TakenFine(s)'
  <2>1. Innermost(s)' = Innermost(s) BY <1>9 DEF Innermost
  <2>2. s \in Skirmishes /\ lock_pid'[s] = Returned /\ lock_fid'[s] = Nobody /\ lock_count'[s] = 0
    BY <1>7, <1>9
  <2> QED BY <1>2, <1>6, <1>10, <2>1, <2>2, NobodyFacts DEF TakenFine
<1>14. ASSUME NEW s \in Skirmishes \ back PROVE TakenFine(s)'
  <2>1. Innermost(s).to # Nobody => Innermost(s).from_pid # p BY <1>6
  <2> QED BY <1>5, <1>9, <1>10, <2>1, TakenKept
<1>15. TakenInv' BY <1>9, <1>13, <1>14 DEF TakenInv, LentInv
<1>16. HeldInv'
  <2>1. ASSUME NEW u \in Tasks, NEW s \in Skirmishes PROVE Due(u, s)' = Due(u, s)
    <3>1. lock_pid'[s] = u <=> lock_pid[s] = u BY <1>7, <1>9, NobodyFacts
    <3> QED BY <1>9, <3>1 DEF Due
  <2> QED BY <1>9, <2>1 DEF HeldInv, LentInv
<1> QED BY <1>9, <1>12, <1>15, <1>16 DEF LentInv

\* What every step keeps when callers are undisturbed.
KeptInv == QuietInv /\ ReaderInv /\ CallerInv /\ LentInv

LEMMA QuietMoves ==
  ASSUME TaskInv, QuietInv, NEW t \in Tasks,
         NEW where \in {"user", "call", "destroy", "read", "prevail"},
         pc' = [pc EXCEPT ![t] = where], UNCHANGED <<wait, oops>>,
         \A u \in Tasks \ {t} : executing'[u] = executing[u],
         where = "prevail" => executing'[t] = NoCall, where = "call" => executing'[t] # NoCall
  PROVE  QuietInv'
<1>1. pc'[t] = where /\ \A u \in Tasks \ {t} : pc'[u] = pc[u] BY DEF TaskInv
<1> QED BY <1>1 DEF QuietInv, NoneOpen

LEMMA QuietStays ==
  ASSUME QuietInv, UNCHANGED <<pc, wait, oops, executing>>
  PROVE  QuietInv'
BY DEF QuietInv, NoneOpen

LEMMA ReaderStays ==
  ASSUME ReaderInv, UNCHANGED dispatcher_pid,
         \A u \in Tasks : serving'[u] = serving[u] \/ serving'[u] = NoExecution
  PROVE  ReaderInv'
BY DEF ReaderInv

LEMMA CallerStays ==
  ASSUME CallerInv, UNCHANGED <<executions, executing>>
  PROVE  CallerInv' /\ \A u \in Tasks : Executed(u)' <=> Executed(u)
BY DEF CallerInv, NoneOpen, Executed

\* Steps that concern no lock and no call.
LEMMA KeptSame ==
  ASSUME CallInv, KeptInv, NEW t \in Tasks,
         NEW where \in {"user", "call", "destroy", "read", "prevail"},
         pc' = [pc EXCEPT ![t] = where] \/ UNCHANGED pc,
         where = "prevail" => NoneOpen(t), where = "call" => ~NoneOpen(t),
         UNCHANGED <<wait, oops, dispatcher_pid, serving, executions, executing, held,
                     lock_fid, lock_pid, lock_count, transfer, transfer2>>
  PROVE  KeptInv'
<1>1. QuietInv'
  <2>1. TaskInv /\ QuietInv BY DEF CallInv, KeptInv
  <2> QED BY <2>1, QuietMoves, QuietStays DEF NoneOpen
<1>2. ReaderInv' /\ CallerInv' /\ LentInv' BY ReaderStays, CallerStays, LentSame DEF KeptInv
<1> QED BY <1>1, <1>2 DEF KeptInv

LEMMA DispatcherTakes ==
  ASSUME LockInv, ReaderInv, NEW s \in Skirmishes, NEW t \in Tasks, ~TransferredElsewhere(s, t),
         Innermost(s).to # Nobody
  PROVE  t \in Dispatchers /\ Owner[t] = Innermost(s).to
<1>1. Innermost(s).to \in Fusionees BY InnermostFacts DEF Transfers
<1>2. dispatcher_pid[Innermost(s).to] = t BY DEF TransferredElsewhere
<1> QED BY <1>1, <1>2, NobodyFacts DEF ReaderInv

LEMMA SkirmishKept ==
  ASSUME Undisturbed, CallInv, KeptInv, NEW t \in Tasks, NEW s \in Skirmishes, SkirmishStep(t, s)
  PROVE  KeptInv'
<1>1. /\ NoneOpen(t) /\ UNCHANGED <<executions, executing, serving, oops>>
  BY DEF SkirmishStep, callVars
<1>2. LockInv /\ TaskInv /\ QuietInv /\ ReaderInv /\ CallerInv /\ LentInv BY DEF CallInv, KeptInv
<1>3. CallerInv' BY <1>1, <1>2, CallerStays
<1>4. ASSUME UNCHANGED <<pc, wait, dispatcher_pid>>, LentInv' PROVE KeptInv'
  <2>1. QuietInv' BY <1>1, <1>2, <1>4, QuietStays
  <2>2. ReaderInv' BY <1>1, <1>2, <1>4, ReaderStays
  <2> QED BY <1>3, <1>4, <2>1, <2>2 DEF KeptInv
<1>5. CASE PrevailOwned(t, s)
  <2>1. /\ lock_pid[s] = t /\ Deepen(s, t) /\ UNCHANGED <<transfer, transfer2, pc, wait, dispatcher_pid>>
    BY <1>5 DEF PrevailOwned, transfers, kernel
  <2>2. LentInv' BY <1>1, <1>2, <2>1, DeepenLent
  <2> QED BY <1>4, <2>1, <2>2
<1>6. CASE PrevailFree(t, s)
  <2>1. /\ ~MustWait(s, t) /\ Take(s, t, 1) /\ UNCHANGED <<transfer, transfer2, pc, wait, dispatcher_pid>>
    BY <1>6 DEF PrevailFree, transfers, kernel
  <2>2. lock_pid[s] = Nobody /\ ~TransferredElsewhere(s, t) BY <2>1 DEF MustWait
  <2>3. Innermost(s).to # Nobody => t \in Dispatchers /\ Owner[t] = Innermost(s).to
    BY <1>2, <2>2, DispatcherTakes
  <2>4. LentInv' BY <1>1, <1>2, <2>1, <2>2, <2>3, TakeLent
  <2> QED BY <1>4, <2>1, <2>4
<1>7. CASE PrevailBlock(t, s)
  <2>1. /\ pc' = [pc EXCEPT ![t] = "prevail"]
        /\ UNCHANGED <<wait, dispatcher_pid, held, lock_fid, lock_pid, lock_count, transfer, transfer2>>
    BY <1>7 DEF PrevailBlock, SleepOn, locks, transfers, history
  <2> QED BY <1>1, <2>1, KeptSame
<1>8. CASE Dismiss(t, s)
  <2>1. UNCHANGED <<pc, wait, dispatcher_pid>> BY <1>8 DEF Dismiss, transfers
  <2>2. LentInv' BY <1>1, <1>2, <1>8, DismissLent
  <2> QED BY <1>4, <2>1, <2>2
<1>9. CASE t \in Swoopers /\ Swoop(t, s)
  <2>1. /\ \/ lock_pid[s] = t /\ Deepen(s, t)
           \/ lock_fid[s] = Nobody /\ ~TransferredElsewhere(s, t) /\ Take(s, t, 1)
        /\ UNCHANGED <<transfer, transfer2, pc, wait, dispatcher_pid>>
    BY <1>9 DEF Swoop, transfers, kernel
  <2>2. CASE lock_pid[s] = t /\ Deepen(s, t)
    <3>1. LentInv' BY <1>1, <1>2, <2>1, <2>2, DeepenLent
    <3> QED BY <1>4, <2>1, <3>1
  <2>3. CASE lock_fid[s] = Nobody /\ ~TransferredElsewhere(s, t) /\ Take(s, t, 1)
    <3>1. Innermost(s).to = Nobody
      <4>1. t \notin Dispatchers BY <1>9 DEF Undisturbed
      <4> QED BY <1>2, <2>3, <4>1, DispatcherTakes
    <3>2. lock_pid[s] = Nobody
      <4>1. TakenFine(s) /\ lock_pid[s] \in Tasks \cup {Nobody, Returned}
        BY <1>2 DEF LentInv, TakenInv, LockInv
      <4>2. lock_pid[s] # Returned BY <3>1, <4>1 DEF TakenFine
      <4>3. lock_pid[s] \notin Tasks BY <2>3, <4>1, NobodyFacts, TasksAssumption DEF TakenFine
      <4> QED BY <4>1, <4>2, <4>3
    <3>3. LentInv' BY <1>1, <1>2, <2>1, <2>3, <3>1, <3>2, TakeLent
    <3> QED BY <1>4, <2>1, <3>3
  <2> QED BY <2>1, <2>2, <2>3
<1>10. t \notin Waiters BY DEF Undisturbed
<1> QED BY <1>5, <1>6, <1>7, <1>8, <1>9, <1>10 DEF SkirmishStep

LEMMA ResumeKept ==
  ASSUME Undisturbed, CallInv, KeptInv, NEW t \in Tasks, SkirmishResume(t)
  PROVE  KeptInv'
<1> DEFINE s == obj[t]
<1>1. UNCHANGED <<executions, executing, serving, oops>> BY DEF SkirmishResume, callVars
<1>2. LockInv /\ TaskInv /\ QuietInv /\ ReaderInv /\ CallerInv /\ LentInv BY DEF CallInv, KeptInv
<1>3. PrevailResume(t)
  <2>1. pc[t] \notin {"wait", "relock"} /\ wait[t].lock_count = 0 BY <1>2 DEF QuietInv
  <2>2. ~WaitResume(t) /\ ~RelockResume(t) BY <2>1 DEF WaitResume, RelockResume
  <2>3. ~WaitAgain(t) BY <2>1 DEF WaitAgain
  <2> QED BY <2>2, <2>3 DEF SkirmishResume, Resume
<1>4. NoneOpen(t) /\ UNCHANGED <<transfer, transfer2, wait, dispatcher_pid>>
  BY <1>2, <1>3 DEF PrevailResume, QuietInv, transfers
<1>5. \/ /\ pc' = [pc EXCEPT ![t] = "user"] \/ UNCHANGED pc
         /\ UNCHANGED <<lock_fid, lock_pid, lock_count, held>>
      \/ /\ s \in Skirmishes /\ ~MustWait(s, t) /\ Take(s, t, 1)
         /\ pc' = [pc EXCEPT ![t] = "user"]
  BY <1>3 DEF PrevailResume, ReturnToUser, locks, Live
<1>6. CASE /\ pc' = [pc EXCEPT ![t] = "user"] \/ UNCHANGED pc
           /\ UNCHANGED <<lock_fid, lock_pid, lock_count, held>>
  BY <1>1, <1>4, <1>6, KeptSame
<1>7. CASE /\ s \in Skirmishes /\ ~MustWait(s, t) /\ Take(s, t, 1)
           /\ pc' = [pc EXCEPT ![t] = "user"]
  <2>1. lock_pid[s] = Nobody /\ ~TransferredElsewhere(s, t) BY <1>7 DEF MustWait
  <2>2. Innermost(s).to # Nobody => t \in Dispatchers /\ Owner[t] = Innermost(s).to
    BY <1>2, <1>7, <2>1, DispatcherTakes
  <2> HIDE DEF s
  <2>3. LentInv' BY <1>1, <1>2, <1>4, <1>7, <2>1, <2>2, TakeLent
  <2>4. QuietInv' BY <1>1, <1>2, <1>4, <1>7, QuietMoves
  <2>5. ReaderInv' /\ CallerInv' BY <1>1, <1>2, <1>4, ReaderStays, CallerStays
  <2> QED BY <2>3, <2>4, <2>5 DEF KeptInv
<1> QED BY <1>5, <1>6, <1>7

LEMMA ExecuteKept ==
  ASSUME Undisturbed, CallInv, KeptInv, NEW t \in Tasks, NEW c \in Calls, NEW r \in Resumable,
         Execute(t, c, r)
  PROVE  KeptInv'
<1> DEFINE d == [call |-> c, serial |-> serial[c] + 1, pid |-> t, executed |-> FALSE, signalled |-> FALSE]
           x == [call |-> c, serial |-> serial[c] + 1, resumable |-> r]
<1>1. MsgInv /\ LockInv /\ TaskInv /\ QuietInv /\ ReaderInv /\ CallerInv /\ LentInv
  BY DEF CallInv, KeptInv
<1>2. LentInv' BY <1>1, ExecuteLent
<1>3. /\ executing'[t] # NoCall /\ executing'[t].resumable = r
      /\ \A u \in Tasks \ {t} : executing'[u] = executing[u]
  BY <1>1, ExecuteExecuted
<1>4. /\ executions' = executions \cup {d} /\ executing' = [executing EXCEPT ![t] = x]
      /\ pc' = [pc EXCEPT ![t] = "call"] /\ NoneOpen(t)
      /\ UNCHANGED <<wait, oops, dispatcher_pid, serving>>
  BY DEF Execute, SleepHere, skirmishRest
<1>5. QuietInv' BY <1>1, <1>3, <1>4, QuietMoves
<1>6. ReaderInv' BY <1>1, <1>4, ReaderStays
<1>7. d.pid = t /\ ~d.signalled /\ Id(x) = Id(d) /\ Id(d) = [call |-> c, serial |-> serial[c] + 1]
  BY DEF Id
<1>8. executing'[t] = x BY <1>1, <1>4 DEF TaskInv
<1> HIDE DEF d, x
<1>9. \A e \in executions : Id(e) # Id(d) /\ e.pid \in Tasks /\ e.pid # t
  <2>1. ASSUME NEW e \in executions, Id(e) = [call |-> c, serial |-> serial[c] + 1] PROVE FALSE
    <3>1. Id(e).call = c /\ Id(e).serial = serial[c] + 1 BY <2>1
    <3>2. serial[c] \in Nat /\ Id(e).serial <= serial[Id(e).call] BY <1>1 DEF MsgInv, Messages, Known
    <3> QED BY <3>1, <3>2
  <2>2. ASSUME NEW e \in executions PROVE e.pid \in Tasks /\ e.pid # t
    <3>1. Id(e) \in Ids /\ e.pid \in Tasks BY <1>1, IdFacts DEF MsgInv, Messages, Executions
    <3>2. Id(executing[e.pid]) = Id(e) BY <1>1 DEF CallerInv
    <3> QED BY <1>4, <3>1, <3>2, NoExecutionFacts DEF NoneOpen
  <2> QED BY <1>7, <2>1, <2>2
<1>10. CallerInv'
  <2>1. \A e \in executions' : Id(executing'[e.pid]) = Id(e) /\ ~e.signalled
    BY <1>1, <1>3, <1>4, <1>7, <1>8, <1>9 DEF CallerInv
  <2>2. \A e1, e2 \in executions' : Id(e1) = Id(e2) => e1 = e2
    BY <1>1, <1>4, <1>9 DEF CallerInv
  <2>3. ASSUME NEW u \in Tasks, executing'[u] # NoCall
        PROVE  executing'[u].resumable /\ \E e \in executions' : e.pid = u /\ Id(e) = Id(executing'[u])
    <3>1. CASE u = t
      <4>1. executing'[u].resumable BY <1>3, <3>1 DEF Undisturbed
      <4> QED BY <1>4, <1>7, <1>8, <3>1, <4>1
    <3>2. CASE u # t BY <1>1, <1>3, <1>4, <2>3, <3>2 DEF CallerInv, NoneOpen
    <3> QED BY <3>1, <3>2
  <2> QED BY <2>1, <2>2, <2>3 DEF CallerInv, NoneOpen
<1> QED BY <1>2, <1>5, <1>6, <1>10 DEF KeptInv

LEMMA AwaitKept ==
  ASSUME CallInv, KeptInv, NEW t \in Tasks, ~NoneOpen(t), AwaitResult(t)
  PROVE  KeptInv'
<1>1. MsgInv /\ LockInv /\ TaskInv /\ QuietInv /\ ReaderInv /\ CallerInv /\ LentInv
  BY DEF CallInv, KeptInv
<1>2. CASE Executed(t) /\ Finish(t)
  <2>1. /\ LentInv' /\ UNCHANGED oops
        /\ executions' = executions \ {e \in executions : Id(e) = Id(executing[t])}
        /\ executing' = [executing EXCEPT ![t] = NoCall]
    BY <1>1, <1>2, FinishLent
  <2>2. oops # "reclaim" BY <1>1 DEF QuietInv
  <2>3. pc' = [pc EXCEPT ![t] = "user"] /\ UNCHANGED <<wait, dispatcher_pid, serving>>
    BY <1>2, <2>1, <2>2 DEF Finish, Asserting, ReturnToUser, skirmishRest
  <2>4. \A u \in Tasks \ {t} : executing'[u] = executing[u] BY <1>1, <2>1 DEF TaskInv
  <2>5. QuietInv' BY <1>1, <2>1, <2>3, <2>4, QuietMoves
  <2>6. ReaderInv' BY <1>1, <2>3, ReaderStays
  <2>7. executing[t] # NoCall /\ executing'[t] = NoCall BY <1>1, <1>2, <2>1, FinishExecuted
  <2>8. CallerInv'
    <3>1. \A e \in executions : e.pid = t => e \notin executions' BY <1>1, <2>1 DEF CallerInv
    <3>2. \A e \in executions' : e \in executions /\ e.pid \in Tasks
      BY <1>1, <2>1 DEF MsgInv, Messages, Executions
    <3>3. \A e \in executions' : Id(executing'[e.pid]) = Id(e) /\ ~e.signalled
      BY <1>1, <2>4, <3>1, <3>2 DEF CallerInv
    <3>4. ASSUME NEW u \in Tasks, executing'[u] # NoCall
          PROVE  executing'[u].resumable /\ \E e \in executions' : e.pid = u /\ Id(e) = Id(executing'[u])
      <4>1. u # t /\ executing'[u] = executing[u] BY <2>4, <2>7, <3>4
      <4>2. Id(executing[u]) # Id(executing[t]) BY <1>1, <2>7, <4>1, CallerFacts
      <4> QED BY <1>1, <2>1, <3>4, <4>1, <4>2 DEF CallerInv, NoneOpen
    <3> QED BY <1>1, <3>2, <3>3, <3>4 DEF CallerInv, NoneOpen
  <2> QED BY <2>1, <2>5, <2>6, <2>8 DEF KeptInv
<1>3. CASE ~Executed(t) /\ ~(Executed(t) /\ Finish(t))
  <2>1. /\ pc' = [pc EXCEPT ![t] = "call"]
        /\ UNCHANGED <<wait, oops, dispatcher_pid, serving, executions, executing, held,
                       lock_fid, lock_pid, lock_count, transfer, transfer2>>
    BY <1>3 DEF AwaitResult, SleepHere, skirmishRest, locks, transfers, callVars, history
  <2> QED BY <2>1, KeptSame
<1> QED BY <1>2, <1>3 DEF AwaitResult

LEMMA CallResumeKept ==
  ASSUME CallInv, KeptInv, NEW t \in Tasks, CallResume(t)
  PROVE  KeptInv'
<1>1. ~NoneOpen(t) BY DEF CallResume, KeptInv, QuietInv
<1>2. CASE CallInterrupted(t)
  <2>1. executing[t].resumable BY <1>1 DEF KeptInv, CallerInv
  <2>2. /\ pc' = [pc EXCEPT ![t] = "user"]
        /\ UNCHANGED <<wait, oops, dispatcher_pid, serving, executions, executing, held,
                       lock_fid, lock_pid, lock_count, transfer, transfer2>>
    BY <1>2, <2>1 DEF CallInterrupted, ReturnToUser, skirmishRest, locks, transfers, history
  <2> QED BY <2>2, KeptSame
<1> QED BY <1>1, <1>2, AwaitKept DEF CallResume

LEMMA AgainKept ==
  ASSUME CallInv, KeptInv, NEW t \in Tasks, ExecuteAgain(t)
  PROVE  KeptInv'
<1>1. ~NoneOpen(t) BY DEF ExecuteAgain
<1>2. \E e \in executions : Id(e) = Id(executing[t]) BY <1>1 DEF KeptInv, CallerInv
<1> QED BY <1>1, <1>2, AwaitKept DEF ExecuteAgain

LEMMA ReturnKept ==
  ASSUME Undisturbed, CallInv, KeptInv, NEW t \in Tasks, Return(t)
  PROVE  KeptInv'
<1>1. MsgInv /\ LockInv /\ TaskInv /\ QuietInv /\ ReaderInv /\ CallerInv /\ LentInv
  BY DEF CallInv, KeptInv
<1>2. /\ NoneOpen(t) /\ serving[t] # NoExecution /\ \A s \in Live : lock_pid[s] # t BY DEF Return
<1>3. CASE ReturnFails(t) /\ serving' = [serving EXCEPT ![t] = NoExecution] /\ UNCHANGED executing
  <2>1. Found(t) = {}
    <3>1. \A e \in Found(t) : e \in executions /\ e.signalled
      BY <1>3 DEF ReturnFails, Undisturbed, Found
    <3> QED BY <1>1, <3>1 DEF CallerInv
  <2>2. UNCHANGED <<executions, pc, wait, oops, dispatcher_pid, held,
                    lock_fid, lock_pid, lock_count, transfer, transfer2>>
    BY <1>3, <2>1 DEF ReturnFails, locks, transfers, history
  <2>3. ReaderInv' BY <1>1, <1>3, <2>2, ReaderStays DEF MsgInv, Serving
  <2>4. QuietInv' BY <1>1, <1>3, <2>2, QuietStays
  <2>5. CallerInv' /\ LentInv' BY <1>1, <1>3, <2>2, CallerStays, LentSame
  <2> QED BY <2>3, <2>4, <2>5 DEF KeptInv
<1>4. ASSUME NEW e \in Found(t), ReturnResult(t, e) PROVE KeptInv'
  <2> DEFINE d == [e EXCEPT !.executed = TRUE]
  <2>1. /\ LentInv' /\ UNCHANGED <<executing, oops>> /\ executions' = (executions \ {e}) \cup {d}
        /\ serving' = [serving EXCEPT ![t] = NoExecution]
    BY <1>1, <1>2, <1>4, ReturnLent
  <2>2. oops # "return" BY <1>1 DEF QuietInv
  <2>3. UNCHANGED <<pc, wait, dispatcher_pid>>
    BY <1>4, <2>1, <2>2 DEF ReturnResult, Asserting, skirmishRest, transfers
  <2>4. e \in executions BY DEF Found
  <2>5. Id(d) = Id(e) /\ d.pid = e.pid /\ d.signalled = e.signalled
    BY <1>1, <2>4, ExecutedFacts DEF MsgInv, Messages
  <2> HIDE DEF d
  <2>6. ReaderInv' BY <1>1, <2>1, <2>3, ReaderStays DEF MsgInv, Serving
  <2>7. QuietInv' BY <1>1, <2>1, <2>3, QuietStays
  <2>8. CallerInv' BY <1>1, <2>1, <2>4, <2>5 DEF CallerInv, NoneOpen
  <2> QED BY <2>1, <2>6, <2>7, <2>8 DEF KeptInv
<1> QED BY <1>3, <1>4 DEF Return

LEMMA ReadKept ==
  ASSUME CallInv, KeptInv, NEW t \in Tasks, Read(t)
  PROVE  KeptInv'
<1>1. MsgInv /\ TaskInv /\ DispatcherInv /\ QuietInv /\ ReaderInv /\ CallerInv /\ LentInv
  BY DEF CallInv, KeptInv
<1>2. /\ t \in Dispatchers /\ dispatcher_pid' = [dispatcher_pid EXCEPT ![Owner[t]] = t]
      /\ UNCHANGED <<wait, oops, executions, executing, held,
                     lock_fid, lock_pid, lock_count, transfer, transfer2>>
  BY DEF Read, skirmishRest, locks, history
<1>3. pc' = [pc EXCEPT ![t] = "user"] \/ pc' = [pc EXCEPT ![t] = "read"]
  BY DEF Read, ReturnToUser, SleepHere
<1>4. UNCHANGED serving \/ serving' = [serving EXCEPT ![t] = Head(inbox[Owner[t]])]
  BY DEF Read, Serve
<1>5. QuietInv' BY <1>1, <1>2, <1>3, QuietMoves
<1>6. ReaderInv'
  <2>1. \A f \in Fusionees : dispatcher_pid'[f] # Nobody =>
          dispatcher_pid'[f] \in Dispatchers /\ Owner[dispatcher_pid'[f]] = f
    BY <1>1, <1>2 DEF ReaderInv, DispatcherInv
  <2>2. \A u \in Tasks : serving'[u] # NoExecution => u \in Dispatchers
    BY <1>1, <1>2, <1>4 DEF ReaderInv, MsgInv, Serving
  <2> QED BY <2>1, <2>2 DEF ReaderInv
<1>7. CallerInv' /\ LentInv' BY <1>1, <1>2, CallerStays, LentSame
<1> QED BY <1>5, <1>6, <1>7 DEF KeptInv

LEMMA DestroyKept ==
  ASSUME CallInv, KeptInv, NEW t \in Tasks,
         (\E c \in Calls : CallDestroy(t, c)) \/ DestroyResume(t)
  PROVE  KeptInv'
<1>1. pc' = [pc EXCEPT ![t] = "user"] \/ pc' = [pc EXCEPT ![t] = "destroy"]
  BY DEF CallDestroy, DestroyResume, AwaitExecutions, SleepHere, ReturnToUser
<1>2. UNCHANGED <<wait, oops, dispatcher_pid, serving, executions, executing, held,
                  lock_fid, lock_pid, lock_count, transfer, transfer2>>
  BY DEF CallDestroy, DestroyResume, skirmishRest, locks, transfers, history
<1> QED BY <1>1, <1>2, KeptSame

LEMMA SignalKept ==
  ASSUME CallInv, KeptInv, NEW t \in Tasks, CallSignal(t) \/ (Signal(t) /\ UNCHANGED <<callVars, oops>>)
  PROVE  KeptInv'
<1>1. UNCHANGED <<pc, wait, oops, dispatcher_pid, serving, executions, executing, held,
                  lock_fid, lock_pid, lock_count, transfer, transfer2>>
  BY DEF CallSignal, Signal, skirmishRest, locks, transfers, callVars, history
<1> QED BY <1>1, KeptSame

LEMMA KeptStep ==
  ASSUME Undisturbed, CallInv, KeptInv, [CallNext]_allVars
  PROVE  KeptInv'
<1>1. ASSUME NEW t \in Tasks, Disturb(t) PROVE KeptInv'
  <2>1. ~CallExit(t) BY DEF CallExit, Exit, Undisturbed
  <2> QED BY <1>1, <2>1, SignalKept DEF Disturb
<1>2. ASSUME NEW f \in Fusionees PROVE ~CallRelease(f)
  <2>1. PICK t \in Tasks : Owner[t] = f BY DEF Undisturbed
  <2>2. pc[t] # "dead" BY DEF KeptInv, QuietInv
  <2> QED BY <2>1, <2>2 DEF CallRelease, Alive
<1>3. ASSUME NEW t \in Tasks, CallStep(t) PROVE KeptInv'
  BY <1>3, ExecuteKept, DestroyKept, CallResumeKept, AgainKept, ReturnKept, ReadKept
     DEF CallStep, ReadFree
<1>4. CASE UNCHANGED allVars
  <2>1. UNCHANGED <<pc, wait, oops, dispatcher_pid, serving, executions, executing, held,
                    lock_fid, lock_pid, lock_count, transfer, transfer2>>
    BY <1>4 DEF allVars, vars, callVars, locks, transfers, kernel, history
  <2>2. QuietInv' /\ ReaderInv' /\ CallerInv' /\ LentInv'
    BY <2>1, QuietStays, ReaderStays, CallerStays, LentSame DEF KeptInv
  <2> QED BY <2>2 DEF KeptInv
<1> QED BY <1>1, <1>2, <1>3, <1>4, SkirmishKept, ResumeKept DEF CallNext

LEMMA KeptInit == CallInit => KeptInv
<1> SUFFICES ASSUME CallInit PROVE KeptInv
  OBVIOUS
<1>1. \A s \in Skirmishes : transfer[s] = NoTransfer /\ transfer2[s] = NoTransfer
                            /\ lock_pid[s] = Nobody /\ lock_fid[s] = Nobody /\ lock_count[s] = 0
  BY DEF CallInit
<1>2. QuietInv BY DEF CallInit, QuietInv, NoneOpen, NoWait
<1>3. ReaderInv BY DEF CallInit, ReaderInv
<1>4. CallerInv BY DEF CallInit, CallerInv, NoneOpen
<1>5. SlotInv BY <1>1, NoTransferFacts DEF SlotInv, SlotFine
<1>6. TakenInv
  <2>1. \A s \in Skirmishes : Innermost(s).to = Nobody BY <1>1, NoTransferFacts DEF Innermost
  <2>2. lock_fid \in [Skirmishes -> Fusionees \cup {Nobody}] BY DEF CallInit
  <2> QED BY <1>1, <2>1, <2>2, NobodyFacts, NoTransferFacts DEF TakenInv, TakenFine
<1>7. HeldInv
  <2>1. held \in [Tasks -> [Skirmishes -> Nat]] /\ \A t \in Tasks, s \in Skirmishes : held[t][s] = 0
    BY DEF CallInit
  <2> QED BY <1>1, <2>1, NobodyFacts, NoTransferFacts DEF HeldInv, Due
<1> QED BY <1>2, <1>3, <1>4, <1>5, <1>6, <1>7 DEF KeptInv, LentInv

LEMMA KeptInductive == Undisturbed /\ CallSpec => [](CallInv /\ KeptInv)
<1>1. Undisturbed /\ CallInit => CallInv /\ KeptInv BY CallInvInit, KeptInit
<1>2. Undisturbed /\ CallInv /\ KeptInv /\ [CallNext]_allVars => CallInv' /\ KeptInv'
  BY CallInvStep, KeptStep
<1>3. Undisturbed => []Undisturbed
  <2>1. Undisturbed => Undisturbed' BY DEF Undisturbed
  <2> QED BY <2>1, PTL
<1> QED BY <1>1, <1>2, <1>3, PTL DEF CallSpec

\* Callers that nothing disturbs own what they were told: what a task holds is
\* locked by it with the depth it was given, or lent to the callee it waits for with
\* that depth.  No lock is lost in a call, taken by two or given back less deep.
THEOREM LentLocksConserved == Undisturbed /\ CallSpec => []LocksConserved
<1>1. CallInv /\ KeptInv => LocksConserved
  <2> SUFFICES ASSUME CallInv, KeptInv, NEW t \in Tasks, NEW s \in Skirmishes
               PROVE  IF lock_pid[s] = t
                      THEN Lent(t, s) = {} /\ held[t][s] = lock_count[s]
                      ELSE IF Lent(t, s) = {} THEN held[t][s] = 0
                      ELSE executing[t] # NoCall /\ \A x \in Lent(t, s) : x.count = held[t][s]
    BY DEF LocksConserved
  <2>1. SlotFine(s) /\ TakenFine(s) /\ held[t][s] = Due(t, s)
    BY DEF KeptInv, LentInv, SlotInv, TakenInv, HeldInv
  <2>2. CASE lock_pid[s] = t
    <3>1. Lent(t, s) = {} BY <2>1, <2>2 DEF TakenFine, Lent
    <3> QED BY <2>1, <2>2, <3>1 DEF Due
  <2>3. CASE lock_pid[s] # t /\ Lent(t, s) = {} BY <2>1, <2>3 DEF Due, Lent
  <2>4. CASE lock_pid[s] # t /\ Lent(t, s) # {}
    <3>1. \A x \in Lent(t, s) : x \in {transfer[s], transfer2[s]} /\ x.to # Nobody /\ x.from_pid = t
      BY DEF Lent
    <3>2. executing[t] # NoCall BY <2>1, <2>4, <3>1 DEF SlotFine, Belongs
    <3>3. \A x \in Lent(t, s) : x.count = held[t][s] BY <2>1, <2>4, <3>1 DEF SlotFine, Due
    <3> QED BY <2>4, <3>2, <3>3
  <2> QED BY <2>2, <2>3, <2>4
<1> QED BY <1>1, KeptInductive, PTL

\* Only the fusionee that serves the innermost call takes a lock that is lent, and a
\* lock that was given back has a caller who can reclaim it.
THEOREM LentToTheCallee == Undisturbed /\ CallSpec => []LentToCallee
<1>1. CallInv /\ KeptInv => LentToCallee
  BY DEF KeptInv, LentInv, TakenInv, TakenFine, LentToCallee
<1> QED BY <1>1, KeptInductive, PTL

\* The assertions in fusion_skirmish_return_all, _reclaim_all and _return_all_from hold.
THEOREM LendingNeverAsserts == Undisturbed /\ CallSpec => []AssertionsHold
<1>1. KeptInv => AssertionsHold BY DEF KeptInv, QuietInv, AssertionsHold
<1> QED BY <1>1, KeptInductive, PTL

=============================================================================
