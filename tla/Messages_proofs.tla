--------------------------- MODULE Messages_proofs ---------------------------
(* Theorems about Messages, for every set of tasks, fusionees and contexts,    *)
(* and packets of every size: the order of the messages in the queues first,   *)
(* then where each callback is, then what a task that syncs waits for.         *)
EXTENDS Messages, SequenceTheorems, FiniteSetTheorems, WellFoundedInduction, TLAPS

-----------------------------------------------------------------------------
(* Sequences of sequences *)

\* Induction, for a set of numbers.
LEMMA AllNumbers ==
  ASSUME NEW N, N \subseteq Nat, 0 \in N, \A n \in Nat : n \in N => n + 1 \in N
  PROVE  N = Nat
<1> DEFINE T == Nat \ N
<1>1. SUFFICES ASSUME T # {} PROVE FALSE
  OBVIOUS
<1>2. IsWellFoundedOn(OpToRel(<, Nat), Nat) /\ T \subseteq Nat
  BY NatLessThanWellFounded
<1> HIDE DEF T
<1>3. PICK x \in T : \A y \in T : ~(<<y, x>> \in OpToRel(<, Nat))
  BY <1>1, <1>2, WFMin
<1>4. x \in Nat /\ x \notin N /\ x # 0
  BY <1>3 DEF T
<1>5. x - 1 \in Nat /\ x - 1 < x /\ (x - 1) + 1 = x
  BY <1>4
<1>6. x - 1 \in T
  BY <1>4, <1>5 DEF T
<1>7. <<x - 1, x>> \in OpToRel(<, Nat)
  BY <1>4, <1>5 DEF OpToRel
<1> QED BY <1>3, <1>6, <1>7

\* f is what FlattenSeq computes of the first n sequences of s.
Flat(f, s, n) == f = [i \in 1..n |-> IF i = 1 THEN s[i] ELSE f[i - 1] \o s[i]]

LEMMA FlatThere ==
  ASSUME NEW s, NEW n \in Nat
  PROVE  \E f : Flat(f, s, n)
<1> DEFINE N == {k \in Nat : \E f : Flat(f, s, k)}
<1>1. 0 \in N
  <2>1. Flat([i \in 1..0 |-> 0], s, 0)
    BY DEF Flat
  <2> QED BY <2>1
<1>2. ASSUME NEW k \in Nat, k \in N PROVE k + 1 \in N
  <2>1. PICK f : Flat(f, s, k)
    BY <1>2
  <2> DEFINE h == [i \in 1..(k + 1) |-> IF i = 1 THEN s[i] ELSE f[i - 1] \o s[i]]
  <2>2. ASSUME NEW i \in 1..(k + 1), i # 1
        PROVE  h[i - 1] = f[i - 1]
    <3>1. i - 1 \in 1..k /\ i - 1 \in 1..(k + 1)
      BY <2>2
    <3>2. f[i - 1] = IF i - 1 = 1 THEN s[i - 1] ELSE f[(i - 1) - 1] \o s[i - 1]
      BY <2>1, <3>1 DEF Flat
    <3> QED BY <3>1, <3>2
  <2>3. h = [i \in 1..(k + 1) |-> IF i = 1 THEN s[i] ELSE h[i - 1] \o s[i]]
    BY <2>2
  <2> HIDE DEF h
  <2>4. Flat(h, s, k + 1)
    BY <2>3 DEF Flat
  <2> QED BY <2>4
<1>3. N = Nat
  <2> HIDE DEF N
  <2>1. N \subseteq Nat
    BY DEF N
  <2> QED BY <1>1, <1>2, <2>1, AllNumbers
<1> QED BY <1>3

\* What was flattened before does not depend on what follows.
LEMMA FlatSame ==
  ASSUME NEW s, NEW t, NEW n \in Nat, NEW m \in Nat, NEW f, NEW g, Flat(f, s, n), Flat(g, t, m),
         n <= m, \A i \in 1..n : s[i] = t[i]
  PROVE  \A i \in 1..n : f[i] = g[i]
<1> DEFINE N == {j \in Nat : j \in 1..n => f[j] = g[j]}
<1>0. /\ \A i \in 1..n : f[i] = IF i = 1 THEN s[i] ELSE f[i - 1] \o s[i]
      /\ \A i \in 1..m : g[i] = IF i = 1 THEN t[i] ELSE g[i - 1] \o t[i]
  BY DEF Flat
<1>1. 0 \in N
  OBVIOUS
<1>2. ASSUME NEW j \in Nat, j \in N PROVE j + 1 \in N
  <2> SUFFICES ASSUME j + 1 \in 1..n PROVE f[j + 1] = g[j + 1]
    OBVIOUS
  <2>1. j + 1 \in 1..n /\ j + 1 \in 1..m /\ s[j + 1] = t[j + 1] /\ (j + 1) - 1 = j
    OBVIOUS
  <2>2. CASE j = 0
    BY <1>0, <2>1, <2>2
  <2>3. CASE j # 0
    <3>1. f[j] = g[j] /\ j + 1 # 1
      BY <1>2, <2>3
    <3> QED BY <1>0, <2>1, <3>1
  <2> QED BY <2>2, <2>3
<1>3. N = Nat
  <2> HIDE DEF N
  <2>1. N \subseteq Nat
    BY DEF N
  <2> QED BY <1>1, <1>2, <2>1, AllNumbers
<1> QED BY <1>3

LEMMA FlattenIs ==
  ASSUME NEW s, Len(s) \in Nat, Len(s) # 0
  PROVE  \E f : Flat(f, s, Len(s)) /\ FlattenSeq(s) = f[Len(s)]
<1>1. FlattenSeq(s) = (CHOOSE f : Flat(f, s, Len(s)))[Len(s)]
  BY DEF FlattenSeq, Flat
<1> QED BY <1>1, FlatThere

LEMMA FlattenEmpty == FlattenSeq(<<>>) = <<>>
  BY DEF FlattenSeq

LEMMA FlattenOne ==
  ASSUME NEW T, NEW x \in Seq(T)
  PROVE  FlattenSeq(<<x>>) = x
<1> DEFINE s == <<x>>
<1>1. Len(s) = 1 /\ s[1] = x /\ Len(s) \in Nat /\ Len(s) # 0
  OBVIOUS
<1> HIDE DEF s
<1>2. PICK f : Flat(f, s, Len(s)) /\ FlattenSeq(s) = f[Len(s)]
  BY <1>1, FlattenIs
<1> QED BY <1>1, <1>2 DEF Flat, s

LEMMA FlattenAppend ==
  ASSUME NEW T, NEW s \in Seq(Seq(T)), NEW x \in Seq(T)
  PROVE  FlattenSeq(Append(s, x)) = FlattenSeq(s) \o x
<1>1. CASE s = <<>>
  <2>1. Append(s, x) = <<x>> /\ <<>> \o x = x
    BY <1>1
  <2> QED BY <1>1, <2>1, FlattenOne, FlattenEmpty
<1>2. CASE s # <<>>
  <2> DEFINE t == Append(s, x)
             n == Len(s)
             m == Len(t)
  <2>1. /\ n \in Nat /\ n # 0 /\ m \in Nat /\ m # 0 /\ m = n + 1
        /\ t[m] = x /\ \A i \in 1..n : s[i] = t[i]
    BY <1>2, EmptySeq, AppendProperties
  <2>2. PICK f : Flat(f, s, n) /\ FlattenSeq(s) = f[n]
    BY <2>1, FlattenIs
  <2>3. PICK g : Flat(g, t, m) /\ FlattenSeq(t) = g[m]
    BY <2>1, FlattenIs
  <2> HIDE DEF t, n, m
  <2>4. f[n] = g[n]
    <3>1. n <= m /\ n \in 1..n
      BY <2>1
    <3>2. \A i \in 1..n : f[i] = g[i]
      BY <2>1, <2>2, <2>3, <3>1, FlatSame
    <3> QED BY <3>1, <3>2
  <2>5. g[m] = g[n] \o t[m]
    <3>1. m \in 1..m /\ m # 1 /\ m - 1 = n
      BY <2>1
    <3> QED BY <2>3, <3>1 DEF Flat
  <2> QED BY <2>1, <2>2, <2>3, <2>4, <2>5 DEF t
<1> QED BY <1>1, <1>2

\* A sequence is its front and its last element.
LEMMA FrontLast ==
  ASSUME NEW T, NEW s \in Seq(T), s # <<>>
  PROVE  /\ Front(s) \in Seq(T) /\ Last(s) \in T
         /\ s = Append(Front(s), Last(s)) /\ Len(Front(s)) = Len(s) - 1
<1>0. Len(s) \in Nat \ {0} /\ \A i \in 1..Len(s) : s[i] \in T
  BY EmptySeq, ElementOfSeq
<1>1. Front(s) = SubSeq(s, 1, Len(s) - 1) /\ Last(s) = s[Len(s)] /\ Last(s) \in T
  BY <1>0 DEF Front, Last
<1>2. /\ Front(s) \in Seq(T) /\ Len(Front(s)) = Len(s) - 1
      /\ \A i \in 1..(Len(s) - 1) : Front(s)[i] = s[i]
  <2> DEFINE n == Len(s) - 1
  <2>1. n \in Int /\ 1 \in Int /\ \A i \in 1..n : s[i] \in T
    BY <1>0
  <2>2. /\ SubSeq(s, 1, n) \in Seq(T)
        /\ Len(SubSeq(s, 1, n)) = IF 1 <= n THEN n - 1 + 1 ELSE 0
        /\ \A i \in 1..(n - 1 + 1) : SubSeq(s, 1, n)[i] = s[1 + i - 1]
    <3> HIDE DEF n
    <3> QED BY <2>1, SubSeqProperties
  <2>3. n \in Nat /\ \A i \in 1..n : 1 + i - 1 = i /\ i \in 1..(n - 1 + 1)
    BY <1>0
  <2>4. Front(s) = SubSeq(s, 1, n)
    BY <1>1
  <2> HIDE DEF n
  <2>5. Front(s) \in Seq(T) /\ Len(Front(s)) = n /\ \A i \in 1..n : Front(s)[i] = s[i]
    BY <2>2, <2>3, <2>4
  <2> QED BY <2>5 DEF n
<1>3. s = Append(Front(s), Last(s))
  <2> DEFINE u == Append(Front(s), Last(s))
  <2>1. /\ u \in Seq(T) /\ Len(u) = Len(s) /\ u[Len(s)] = s[Len(s)]
        /\ \A i \in 1..(Len(s) - 1) : u[i] = s[i]
    BY <1>0, <1>1, <1>2, AppendProperties
  <2> HIDE DEF u
  <2>2. \A i \in 1..Len(s) : s[i] = u[i]
    BY <1>0, <2>1
  <2>3. s = u
    BY <2>1, <2>2, SeqEqual
  <2> QED BY <2>3 DEF u
<1> QED BY <1>1, <1>2, <1>3

\* What holds of the empty sequence, and of a sequence with one more element when it
\* holds without it, holds of all.
LEMMA AllSequences ==
  ASSUME NEW T, NEW P, P \subseteq Seq(T), <<>> \in P,
         \A s \in P, x \in T : Append(s, x) \in P
  PROVE  P = Seq(T)
<1> DEFINE N == {n \in Nat : \A s \in Seq(T) : Len(s) = n => s \in P}
<1>1. 0 \in N
  OBVIOUS
<1>2. ASSUME NEW n \in Nat, n \in N PROVE n + 1 \in N
  <2> SUFFICES ASSUME NEW s \in Seq(T), Len(s) = n + 1 PROVE s \in P
    OBVIOUS
  <2>1. s # <<>>
    BY EmptySeq
  <2>2. PICK u \in Seq(T), x \in T : s = Append(u, x)
    BY <2>1, SequenceEmptyOrAppend
  <2>3. Len(u) = n
    <3>1. Len(s) = Len(u) + 1 /\ Len(u) \in Nat
      BY <2>2, AppendProperties, LenProperties
    <3> QED BY <3>1
  <2>4. u \in P
    BY <1>2, <2>3
  <2> QED BY <2>2, <2>4
<1>3. N = Nat
  <2> HIDE DEF N
  <2>1. N \subseteq Nat
    BY DEF N
  <2> QED BY <1>1, <1>2, <2>1, AllNumbers
<1>4. \A s \in Seq(T) : Len(s) \in Nat
  OBVIOUS
<1> QED BY <1>3, <1>4

LEMMA FlattenType ==
  ASSUME NEW T, NEW s \in Seq(Seq(T))
  PROVE  FlattenSeq(s) \in Seq(T)
<1> DEFINE S == Seq(T)
           P == {u \in Seq(S) : FlattenSeq(u) \in Seq(T)}
<1>1. <<>> \in P
  BY FlattenEmpty, EmptySeq
<1>2. ASSUME NEW u \in P, NEW x \in S
      PROVE  Append(u, x) \in P
  <2>1. FlattenSeq(Append(u, x)) = FlattenSeq(u) \o x /\ FlattenSeq(u) \o x \in Seq(T)
    BY FlattenAppend, ConcatProperties
  <2> QED BY <2>1, AppendProperties
<1>3. P \subseteq Seq(S)
  OBVIOUS
<1> HIDE DEF P
<1>4. P = Seq(S)
  BY <1>1, <1>2, <1>3, AllSequences
<1> QED BY <1>4 DEF P

LEMMA AppendOfConcat ==
  ASSUME NEW T, NEW s \in Seq(T), NEW t \in Seq(T), NEW x \in T
  PROVE  s \o Append(t, x) = Append(s \o t, x)
<1>1. <<x>> \in Seq(T) /\ s \o t \in Seq(T)
  BY ConcatProperties
<1>2. Append(t, x) = t \o <<x>> /\ Append(s \o t, x) = (s \o t) \o <<x>>
  BY <1>1, AppendIsConcat
<1> QED BY <1>1, <1>2, ConcatAssociative

Associative(S) == \A a, b, c \in S : (a \o b) \o c = a \o (b \o c)

LEMMA ConcatOfConcat ==
  ASSUME NEW T
  PROVE  Associative(Seq(T))
<1>1. ASSUME NEW a \in Seq(T), NEW b \in Seq(T), NEW c \in Seq(T)
      PROVE  (a \o b) \o c = a \o (b \o c)
  BY ConcatAssociative
<1> QED BY <1>1 DEF Associative

LEMMA FlattenAfter ==
  ASSUME NEW T, NEW s \in Seq(Seq(T)), NEW u \in Seq(Seq(T)), NEW x \in Seq(T)
  PROVE  (FlattenSeq(s) \o FlattenSeq(u)) \o x = FlattenSeq(s) \o (FlattenSeq(u) \o x)
<1>1. Associative(Seq(T))
  BY ConcatOfConcat
<1>2. FlattenSeq(s) \in Seq(T) /\ FlattenSeq(u) \in Seq(T)
  BY FlattenType
<1> QED BY <1>1, <1>2, Zenon DEF Associative

LEMMA FlattenConcat ==
  ASSUME NEW T, NEW s \in Seq(Seq(T)), NEW t \in Seq(Seq(T))
  PROVE  FlattenSeq(s \o t) = FlattenSeq(s) \o FlattenSeq(t)
<1> DEFINE S == Seq(T)
           P == {u \in Seq(S) : FlattenSeq(s \o u) = FlattenSeq(s) \o FlattenSeq(u)}
<1>1. <<>> \in P
  <2>1. s \o <<>> = s
    BY ConcatEmptySeq
  <2>2. FlattenSeq(s) \o <<>> = FlattenSeq(s)
    BY FlattenType, ConcatEmptySeq
  <2>3. <<>> \in Seq(S)
    BY EmptySeq
  <2> QED BY <2>1, <2>2, <2>3, FlattenEmpty
<1>2. ASSUME NEW u \in P, NEW x \in S
      PROVE  Append(u, x) \in P
  <2>0. u \in Seq(S) /\ Append(u, x) \in Seq(S)
    BY AppendProperties
  <2>1. s \o Append(u, x) = Append(s \o u, x) /\ s \o u \in Seq(S)
    <3>1. x \in S /\ s \in Seq(S)
      OBVIOUS
    <3> HIDE DEF S, P
    <3> QED BY <2>0, <3>1, AppendOfConcat, ConcatProperties
  <2>2. FlattenSeq(s \o Append(u, x)) = FlattenSeq(s \o u) \o x
    BY <2>1, FlattenAppend
  <2>3. FlattenSeq(Append(u, x)) = FlattenSeq(u) \o x
    BY <2>0, FlattenAppend
  <2>5. (FlattenSeq(s) \o FlattenSeq(u)) \o x = FlattenSeq(s) \o (FlattenSeq(u) \o x)
    <3>1. u \in Seq(Seq(T)) /\ x \in Seq(T)
      BY <2>0
    <3> HIDE DEF S, P
    <3> QED BY <3>1, FlattenAfter
  <2>6. FlattenSeq(s \o u) = FlattenSeq(s) \o FlattenSeq(u)
    OBVIOUS
  <2> QED BY <2>0, <2>2, <2>3, <2>5, <2>6
<1>3. P \subseteq Seq(S)
  OBVIOUS
<1> HIDE DEF P
<1>4. P = Seq(S)
  BY <1>1, <1>2, <1>3, AllSequences
<1> QED BY <1>4 DEF P

-----------------------------------------------------------------------------
(* Messages in packets *)

Msg    == [n : Nat, cb : Contexts \cup {Nobody}, flush : BOOLEAN]
Packet == [msgs : Seq(Msg), flush : BOOLEAN]

LEMMA PacketFacts ==
  /\ \A p \in Packet : p.msgs \in Seq(Msg) /\ p.flush \in BOOLEAN
  /\ \A s \in Seq(Msg), b \in BOOLEAN :
       [msgs |-> s, flush |-> b] \in Packet /\ [msgs |-> s, flush |-> b].msgs = s
<1>1. \A p \in Packet : p.msgs \in Seq(Msg) /\ p.flush \in BOOLEAN
  BY DEF Packet
<1>2. \A s \in Seq(Msg), b \in BOOLEAN :
        [msgs |-> s, flush |-> b] \in Packet /\ [msgs |-> s, flush |-> b].msgs = s
  BY DEF Packet
<1> QED BY <1>1, <1>2

Bodies(q) == [i \in 1..Len(q) |-> q[i].msgs]

LEMMA BodiesFacts ==
  ASSUME NEW q \in Seq(Packet)
  PROVE  /\ Bodies(q) \in Seq(Seq(Msg)) /\ Len(Bodies(q)) = Len(q)
         /\ \A i \in 1..Len(q) : Bodies(q)[i] = q[i].msgs
<1>1. Len(q) \in Nat
  BY LenProperties
<1>2. \A i \in 1..Len(q) : q[i].msgs \in Seq(Msg)
  <2> TAKE i \in 1..Len(q)
  <2>1. q[i] \in Packet
    BY ElementOfSeq
  <2> QED BY <2>1 DEF Packet
<1>3. Bodies(q) \in [1..Len(q) -> Seq(Msg)]
  BY <1>2 DEF Bodies
<1>4. Bodies(q) \in Seq(Seq(Msg))
  BY <1>1, <1>3, SeqDef
<1>5. Len(Bodies(q)) = Len(q)
  BY <1>1 DEF Bodies
<1> QED BY <1>4, <1>5 DEF Bodies

LEMMA ContentIs == \A q : Content(q) = FlattenSeq(Bodies(q))
  BY DEF Content, Bodies

LEMMA ContentType ==
  ASSUME NEW q \in Seq(Packet)
  PROVE  Content(q) \in Seq(Msg)
BY ContentIs, BodiesFacts, FlattenType

LEMMA ContentEmpty == Content(<<>>) = <<>>
<1>1. Bodies(<<>>) = <<>>
  BY DEF Bodies
<1> QED BY <1>1, ContentIs, FlattenEmpty

\* The elements of a concatenation, the sequence named.
Joined(u, s, t) ==
  /\ u = s \o t /\ Len(u) = Len(s) + Len(t) /\ Len(s) \in Nat /\ Len(t) \in Nat
  /\ \A i \in 1..Len(s) : u[i] = s[i]
  /\ \A i \in 1..Len(t) : u[Len(s) + i] = t[i]

LEMMA ConcatIs ==
  ASSUME NEW T, NEW s \in Seq(T), NEW t \in Seq(T)
  PROVE  s \o t \in Seq(T) /\ Joined(s \o t, s, t)
<1>1. s \o t \in Seq(T) /\ Len(s \o t) = Len(s) + Len(t) /\ Len(s) \in Nat /\ Len(t) \in Nat
  BY ConcatProperties, LenProperties
<1>2. ASSUME NEW i \in 1..Len(s) PROVE (s \o t)[i] = s[i]
  <2>1. i \in 1..(Len(s) + Len(t)) /\ i <= Len(s)
    BY <1>1
  <2> QED BY <2>1, ConcatProperties
<1>3. ASSUME NEW i \in 1..Len(t) PROVE (s \o t)[Len(s) + i] = t[i]
  <2>1. Len(s) + i \in 1..(Len(s) + Len(t)) /\ ~(Len(s) + i <= Len(s)) /\ (Len(s) + i) - Len(s) = i
    BY <1>1
  <2> QED BY <2>1, ConcatProperties
<1> QED BY <1>1, <1>2, <1>3 DEF Joined

LEMMA ContentConcat ==
  ASSUME NEW q \in Seq(Packet), NEW r \in Seq(Packet)
  PROVE  Content(q \o r) = Content(q) \o Content(r)
<1>1. PICK a \in Seq(Seq(Msg)) : a = Bodies(q) /\ Len(a) = Len(q) /\ \A i \in 1..Len(q) : a[i] = q[i].msgs
  BY BodiesFacts
<1>2. PICK b \in Seq(Seq(Msg)) : b = Bodies(r) /\ Len(b) = Len(r) /\ \A i \in 1..Len(r) : b[i] = r[i].msgs
  BY BodiesFacts
<1>3. PICK s \in Seq(Packet) : s = q \o r /\ Joined(s, q, r)
  BY ConcatIs
<1>4. PICK c \in Seq(Seq(Msg)) : c = Bodies(s) /\ Len(c) = Len(s) /\ \A i \in 1..Len(s) : c[i] = s[i].msgs
  BY BodiesFacts
<1>5. PICK d \in Seq(Seq(Msg)) : d = a \o b /\ Joined(d, a, b)
  BY ConcatIs
<1>6. /\ Len(s) = Len(q) + Len(r) /\ Len(q) \in Nat /\ Len(r) \in Nat
      /\ Len(d) = Len(a) + Len(b) /\ Len(a) \in Nat /\ Len(b) \in Nat
  BY <1>3, <1>5 DEF Joined
<1>7. \A i \in 1..Len(c) : c[i] = d[i]
  <2> SUFFICES ASSUME NEW i \in 1..Len(c) PROVE c[i] = d[i]
    OBVIOUS
  <2>0. i \in 1..Len(s) /\ c[i] = s[i].msgs
    BY <1>4
  <2>1. CASE i <= Len(q)
    <3>1. i \in 1..Len(q) /\ i \in 1..Len(a)
      BY <1>1, <1>6, <2>0, <2>1
    <3>2. s[i] = q[i] /\ a[i] = q[i].msgs /\ d[i] = a[i]
      BY <1>1, <1>3, <1>5, <3>1 DEF Joined
    <3> QED BY <2>0, <3>2
  <2>2. CASE ~(i <= Len(q))
    <3>0. Len(a) = Len(q) /\ Len(b) = Len(r) /\ i \in 1..(Len(q) + Len(r))
      BY <1>1, <1>2, <1>6, <2>0
    <3>1. \A x, y \in Nat : \A z \in 1..(x + y) : ~(z <= x) => \E j \in 1..y : z = x + j
      <4> SUFFICES ASSUME NEW x \in Nat, NEW y \in Nat, NEW z \in 1..(x + y), ~(z <= x)
                   PROVE  \E j \in 1..y : z = x + j
        OBVIOUS
      <4>1. z - x \in 1..y /\ z = x + (z - x)
        OBVIOUS
      <4> QED BY <4>1
    <3>3. PICK j \in 1..Len(r) : i = Len(q) + j
      BY <1>6, <2>2, <3>0, <3>1
    <3>4. j \in 1..Len(r) /\ j \in 1..Len(b) /\ i = Len(q) + j /\ i = Len(a) + j
      BY <3>0, <3>3
    <3>2. s[Len(q) + j] = r[j] /\ b[j] = r[j].msgs /\ d[Len(a) + j] = b[j]
      BY <1>2, <1>3, <1>5, <3>4 DEF Joined
    <3> QED BY <2>0, <3>4, <3>2
  <2> QED BY <2>1, <2>2
<1>8. c = d
  <2>1. Len(c) = Len(d)
    BY <1>1, <1>2, <1>4, <1>6
  <2> QED BY <1>7, <2>1, SeqEqual
<1>9. FlattenSeq(a \o b) = FlattenSeq(a) \o FlattenSeq(b)
  BY FlattenConcat
<1>10. Content(q \o r) = FlattenSeq(c)
  BY <1>3, <1>4, ContentIs
<1>11. Content(q) = FlattenSeq(a) /\ Content(r) = FlattenSeq(b)
  BY <1>1, <1>2, ContentIs
<1> QED BY <1>5, <1>8, <1>9, <1>10, <1>11

LEMMA ContentOne ==
  ASSUME NEW p \in Packet
  PROVE  <<p>> \in Seq(Packet) /\ Content(<<p>>) = p.msgs
<1>1. Bodies(<<p>>) = <<p.msgs>>
  BY DEF Bodies
<1>2. p.msgs \in Seq(Msg)
  BY DEF Packet
<1> QED BY <1>1, <1>2, ContentIs, FlattenOne

LEMMA ContentAppend ==
  ASSUME NEW q \in Seq(Packet), NEW p \in Packet
  PROVE  Append(q, p) \in Seq(Packet) /\ Content(Append(q, p)) = Content(q) \o p.msgs
<1>1. Append(q, p) = q \o <<p>> /\ Append(q, p) \in Seq(Packet)
  BY AppendIsConcat, AppendProperties
<1> QED BY <1>1, ContentOne, ContentConcat

\* A sequence whose last packet becomes p, or gets another flush.
LEMMA ContentLast ==
  ASSUME NEW q \in Seq(Packet), q # <<>>, NEW p \in Packet
  PROVE  /\ Front(q) \o <<p>> \in Seq(Packet)
         /\ Content(Front(q) \o <<p>>) = Content(Front(q)) \o p.msgs
         /\ Content(q) = Content(Front(q)) \o Last(q).msgs
<1>1. PICK a \in Seq(Packet) : a = Front(q)
  BY FrontLast
<1>2. PICK b \in Packet : b = Last(q)
  BY FrontLast
<1>3. q = Append(a, b)
  BY <1>1, <1>2, FrontLast
<1>4. a \o <<p>> = Append(a, p)
  BY AppendIsConcat
<1>5. Append(a, p) \in Seq(Packet) /\ Content(Append(a, p)) = Content(a) \o p.msgs
  BY ContentAppend
<1>6. Content(Append(a, b)) = Content(a) \o b.msgs
  BY ContentAppend
<1> QED BY <1>1, <1>2, <1>3, <1>4, <1>5, <1>6

LEMMA FlushFacts ==
  ASSUME NEW q \in Seq(Packet), q # <<>>
  PROVE  FlushLast(q) \in Seq(Packet) /\ Content(FlushLast(q)) = Content(q)
<1>1. Last(q) \in Packet
  BY FrontLast
<1>2. PICK p \in Packet : p = [msgs |-> Last(q).msgs, flush |-> TRUE] /\ p.msgs = Last(q).msgs
  BY <1>1, PacketFacts
<1>3. FlushLast(q) = Front(q) \o <<p>>
  BY <1>2 DEF FlushLast
<1> QED BY <1>2, <1>3, ContentLast

\* A message that is put into a queue comes last.
LEMMA PutFacts ==
  ASSUME NEW q \in Seq(Packet), NEW m \in Msg
  PROVE  Put(q, m) \in Seq(Packet) /\ Content(Put(q, m)) = Append(Content(q), m)
<1> DEFINE new == [msgs |-> <<m>>, flush |-> m.flush]
<1>1. new \in Packet /\ new.msgs = <<m>> /\ Content(q) \in Seq(Msg)
  <2>1. <<m>> \in Seq(Msg) /\ m.flush \in BOOLEAN
    BY DEF Msg
  <2> QED BY <2>1, PacketFacts, ContentType
<1>2. Content(q) \o <<m>> = Append(Content(q), m)
  BY <1>1, AppendIsConcat
<1>3. CASE q # <<>> /\ Len(Last(q).msgs) < PacketSize
  <2> DEFINE p == [msgs |-> Append(Last(q).msgs, m), flush |-> Last(q).flush \/ m.flush]
  <2>1. Last(q) \in Packet /\ Last(q).msgs \in Seq(Msg) /\ Last(q).flush \in BOOLEAN
    <3>1. Last(q) \in Packet
      BY <1>3, FrontLast
    <3> QED BY <3>1, PacketFacts
  <2>2. p \in Packet /\ p.msgs = Append(Last(q).msgs, m)
    <3>1. Append(Last(q).msgs, m) \in Seq(Msg)
      BY <2>1, AppendProperties
    <3>2. (Last(q).flush \/ m.flush) \in BOOLEAN
      BY DEF Msg
    <3> QED BY <3>1, <3>2, PacketFacts
  <2>3. Put(q, m) = Front(q) \o <<p>>
    BY <1>3 DEF Put
  <2> HIDE DEF p
  <2>4. Put(q, m) \in Seq(Packet) /\ Content(Put(q, m)) = Content(Front(q)) \o Append(Last(q).msgs, m)
    BY <1>3, <2>2, <2>3, ContentLast
  <2>5. Content(q) = Content(Front(q)) \o Last(q).msgs
    BY <1>3, <2>1, ContentLast
  <2>6. Content(Front(q)) \o Append(Last(q).msgs, m) = Append(Content(q), m)
    <3>1. Content(Front(q)) \in Seq(Msg)
      BY <1>3, FrontLast, ContentType
    <3> QED BY <2>1, <2>5, <3>1, AppendOfConcat
  <2> QED BY <2>4, <2>6
<1>4. CASE ~(q # <<>> /\ Len(Last(q).msgs) < PacketSize)
  <2> DEFINE closed == IF q = <<>> THEN q ELSE FlushLast(q)
  <2>1. Put(q, m) = Append(closed, new)
    BY <1>4 DEF Put
  <2>2. closed \in Seq(Packet) /\ Content(closed) = Content(q)
    BY FlushFacts
  <2> HIDE DEF closed, new
  <2>3. Append(closed, new) \in Seq(Packet) /\ Content(Append(closed, new)) = Content(closed) \o new.msgs
    BY <1>1, <2>2, ContentAppend
  <2> QED BY <1>1, <1>2, <2>1, <2>2, <2>3
<1> QED BY <1>3, <1>4

\* What was read and what remains.
LEMMA ReadFacts ==
  ASSUME NEW q \in Seq(Packet), NEW k \in 1..Len(q)
  PROVE  /\ SubSeq(q, 1, k) \in Seq(Packet) /\ Remaining(q, k) \in Seq(Packet)
         /\ Content(q) = Content(SubSeq(q, 1, k)) \o Content(Remaining(q, k))
<1>1. Len(q) \in Nat /\ \A i \in 1..Len(q) : q[i] \in Packet
  BY LenProperties, ElementOfSeq
<1>2. SubSeq(q, 1, k) \in Seq(Packet)
  <2>1. \A i \in 1..k : q[i] \in Packet
    BY <1>1
  <2>2. k \in Int /\ 1 \in Int
    BY <1>1
  <2> QED BY <2>1, <2>2, SubSeqProperties
<1>3. SubSeq(q, k + 1, Len(q)) \in Seq(Packet)
  <2>1. k + 1 \in Int /\ Len(q) \in Int
    BY <1>1
  <2>2. \A i \in (k + 1)..Len(q) : q[i] \in Packet
    BY <1>1
  <2> QED BY <2>1, <2>2, SubSeqProperties
<1>4. SubSeq(q, 1, k) \o SubSeq(q, k + 1, Len(q)) = q
  <2>1. 1 \in 1..Len(q) + 1 /\ k \in 1-1 .. Len(q) /\ Len(q) \in k .. Len(q)
    BY <1>1
  <2>2. SubSeq(q, 1, k) \o SubSeq(q, k + 1, Len(q)) = SubSeq(q, 1, Len(q))
    BY <2>1, ConcatAdjacentSubSeq
  <2> QED BY <2>2, SubSeqFull
<1>5. Content(SubSeq(q, 1, k) \o SubSeq(q, k + 1, Len(q)))
        = Content(SubSeq(q, 1, k)) \o Content(SubSeq(q, k + 1, Len(q)))
  BY <1>2, <1>3, ContentConcat
<1> QED BY <1>2, <1>3, <1>4, <1>5 DEF Remaining

-----------------------------------------------------------------------------
(* Callbacks in messages *)

LEMMA AtFinite ==
  ASSUME NEW s \in Seq(Msg), NEW c
  PROVE  IsFiniteSet(At(c, s)) /\ Times(c, s) \in Nat /\ (Times(c, s) = 0 <=> At(c, s) = {})
<1>1. Len(s) \in Int /\ 1 \in Int
  BY LenProperties
<1>2. IsFiniteSet(1..Len(s))
  BY <1>1, FS_Interval
<1>3. At(c, s) \subseteq 1..Len(s)
  BY DEF At
<1>4. IsFiniteSet(At(c, s))
  BY <1>2, <1>3, FS_Subset
<1>5. Cardinality(At(c, s)) \in Nat
  BY <1>4, FS_CardinalityType
<1>6. Cardinality(At(c, s)) = 0 <=> At(c, s) = {}
  BY <1>4, FS_EmptySet
<1> QED BY <1>4, <1>5, <1>6 DEF Times

LEMMA TimesEmpty ==
  ASSUME NEW c
  PROVE  At(c, <<>>) = {} /\ Times(c, <<>>) = 0
<1>1. At(c, <<>>) = {}
  BY DEF At
<1>2. Cardinality({}) = 0
  BY FS_EmptySet
<1> QED BY <1>1, <1>2 DEF Times

\* A message with the callback c.
Bears(m, c) == IF m.cb = c THEN 1 ELSE 0

LEMMA TimesAppend ==
  ASSUME NEW s \in Seq(Msg), NEW m \in Msg, NEW c
  PROVE  /\ Times(c, Append(s, m)) = Times(c, s) + Bears(m, c)
         /\ At(c, Append(s, m)) = At(c, s) \cup (IF m.cb = c THEN {Len(s) + 1} ELSE {})
<1>1. PICK t \in Seq(Msg) : t = Append(s, m)
  BY AppendProperties
<1>2. /\ Len(s) \in Nat /\ Len(t) = Len(s) + 1 /\ t[Len(s) + 1] = m
      /\ \A i \in 1..Len(s) : t[i] = s[i]
  BY <1>1, AppendProperties, LenProperties
<1>3. At(c, t) = At(c, s) \cup (IF m.cb = c THEN {Len(s) + 1} ELSE {})
  <2>1. ASSUME NEW i, i \in 1..Len(t)
        PROVE  i \in 1..Len(s) \/ i = Len(s) + 1
    BY <1>2, <2>1
  <2>2. ASSUME NEW i, i \in 1..Len(s) \/ i = Len(s) + 1
        PROVE  i \in 1..Len(t)
    BY <1>2, <2>2
  <2>3. ASSUME NEW i, i \in At(c, t)
        PROVE  i \in At(c, s) \cup (IF m.cb = c THEN {Len(s) + 1} ELSE {})
    <3>1. i \in 1..Len(t) /\ t[i].cb = c
      BY <2>3 DEF At
    <3>2. CASE i \in 1..Len(s)
      BY <1>2, <3>1, <3>2 DEF At
    <3>3. CASE i = Len(s) + 1
      BY <1>2, <3>1, <3>3
    <3> QED BY <2>1, <3>1, <3>2, <3>3
  <2>4. ASSUME NEW i, i \in At(c, s) \cup (IF m.cb = c THEN {Len(s) + 1} ELSE {})
        PROVE  i \in At(c, t)
    <3>1. CASE i \in At(c, s)
      <4>1. i \in 1..Len(s) /\ s[i].cb = c
        BY <3>1 DEF At
      <4> QED BY <1>2, <2>2, <4>1 DEF At
    <3>2. CASE i \notin At(c, s)
      <4>1. i = Len(s) + 1 /\ m.cb = c
        BY <2>4, <3>2
      <4>2. i \in 1..Len(t) /\ t[i] = m
        BY <1>2, <2>2, <4>1
      <4> QED BY <4>1, <4>2 DEF At
    <3> QED BY <3>1, <3>2
  <2> QED BY <2>3, <2>4
<1>4. CASE m.cb = c
  <2>1. At(c, t) = At(c, s) \cup {Len(s) + 1}
    BY <1>3, <1>4
  <2>2. Len(s) + 1 \notin At(c, s)
    BY <1>2 DEF At
  <2>3. IsFiniteSet(At(c, s))
    BY AtFinite
  <2>4. Cardinality(At(c, s) \cup {Len(s) + 1}) = Cardinality(At(c, s)) + 1
    BY <2>2, <2>3, FS_AddElement
  <2> QED BY <1>1, <1>3, <1>4, <2>1, <2>4 DEF Times, Bears
<1>5. CASE m.cb # c
  <2>1. At(c, t) = At(c, s)
    BY <1>3, <1>5
  <2>2. Times(c, s) \in Nat
    BY AtFinite
  <2> QED BY <1>1, <1>3, <1>5, <2>1, <2>2 DEF Times, Bears
<1> QED BY <1>4, <1>5

LEMMA TimesConcat ==
  ASSUME NEW s \in Seq(Msg), NEW t \in Seq(Msg), NEW c
  PROVE  Times(c, s \o t) = Times(c, s) + Times(c, t)
<1> DEFINE P == {u \in Seq(Msg) : Times(c, s \o u) = Times(c, s) + Times(c, u)}
<1>1. <<>> \in P
  <2>1. s \o <<>> = s
    BY ConcatEmptySeq
  <2>2. Times(c, s) \in Nat /\ Times(c, <<>>) = 0 /\ <<>> \in Seq(Msg)
    BY AtFinite, TimesEmpty, EmptySeq
  <2> QED BY <2>1, <2>2
<1>2. ASSUME NEW u \in P, NEW m \in Msg
      PROVE  Append(u, m) \in P
  <2>0. u \in Seq(Msg) /\ Append(u, m) \in Seq(Msg) /\ Times(c, s \o u) = Times(c, s) + Times(c, u)
    <3>1. u \in Seq(Msg) /\ Times(c, s \o u) = Times(c, s) + Times(c, u)
      OBVIOUS
    <3> HIDE DEF P
    <3> QED BY <3>1, AppendProperties
  <2>1. s \o Append(u, m) = Append(s \o u, m) /\ s \o u \in Seq(Msg)
    <3> HIDE DEF P
    <3> QED BY <2>0, AppendOfConcat, ConcatProperties
  <2>2. Times(c, Append(s \o u, m)) = Times(c, s \o u) + Bears(m, c)
    <3> HIDE DEF P
    <3> QED BY <2>1, TimesAppend
  <2>3. Times(c, Append(u, m)) = Times(c, u) + Bears(m, c)
    <3> HIDE DEF P
    <3> QED BY <2>0, TimesAppend
  <2>4. Times(c, s) \in Nat /\ Times(c, u) \in Nat /\ Bears(m, c) \in Nat
    BY <2>0, AtFinite DEF Bears
  <2>5. Times(c, s \o Append(u, m)) = Times(c, s) + Times(c, Append(u, m))
    <3> HIDE DEF P
    <3> QED BY <2>0, <2>1, <2>2, <2>3, <2>4
  <2> QED BY <2>0, <2>5
<1>3. P \subseteq Seq(Msg)
  OBVIOUS
<1> HIDE DEF P
<1>4. P = Seq(Msg)
  BY <1>1, <1>2, <1>3, AllSequences
<1> QED BY <1>4 DEF P

\* What is kept of packets has all their callbacks.
Keeps(q) == [i \in 1..Len(q) |-> KeptOf(q[i])]

LEMMA KeptOfFacts ==
  ASSUME NEW p \in Packet
  PROVE  /\ KeptOf(p) \in Seq(Packet)
         /\ \A c \in Contexts : Times(c, Content(KeptOf(p))) = Times(c, p.msgs)
<1>0. p.msgs \in Seq(Msg)
  BY PacketFacts
<1>1. CASE \E j \in 1..Len(p.msgs) : HasCallback(p.msgs[j])
  <2>1. KeptOf(p) = <<p>>
    BY <1>1 DEF KeptOf
  <2> QED BY <2>1, ContentOne
<1>2. CASE ~\E j \in 1..Len(p.msgs) : HasCallback(p.msgs[j])
  <2>1. KeptOf(p) = <<>>
    BY <1>2 DEF KeptOf
  <2>2. <<>> \in Seq(Packet) /\ Content(<<>>) = <<>>
    BY EmptySeq, ContentEmpty
  <2>3. ASSUME NEW c \in Contexts PROVE Times(c, p.msgs) = 0
    <3>1. c # Nobody
      BY MessagesAssumption
    <3>2. At(c, p.msgs) = {}
      BY <1>2, <3>1 DEF At, HasCallback
    <3> QED BY <1>0, <3>2, AtFinite
  <2> QED BY <2>1, <2>2, <2>3, TimesEmpty
<1> QED BY <1>1, <1>2

LEMMA KeepsType ==
  ASSUME NEW q \in Seq(Packet)
  PROVE  Keeps(q) \in Seq(Seq(Packet)) /\ Len(Keeps(q)) = Len(q)
<1>1. Len(q) \in Nat
  BY LenProperties
<1>2. \A i \in 1..Len(q) : KeptOf(q[i]) \in Seq(Packet)
  BY ElementOfSeq, KeptOfFacts
<1>3. Keeps(q) \in [1..Len(q) -> Seq(Packet)]
  BY <1>2 DEF Keeps
<1>4. Keeps(q) \in Seq(Seq(Packet))
  BY <1>1, <1>3, SeqDef
<1>5. Len(Keeps(q)) = Len(q)
  BY <1>1 DEF Keeps
<1> QED BY <1>4, <1>5

LEMMA KeptAppend ==
  ASSUME NEW q \in Seq(Packet), NEW p \in Packet
  PROVE  Kept(Append(q, p)) = Kept(q) \o KeptOf(p)
<1>1. PICK r \in Seq(Packet) : r = Append(q, p)
  BY AppendProperties
<1>2. /\ Len(q) \in Nat /\ Len(r) = Len(q) + 1 /\ r[Len(q) + 1] = p
      /\ \A i \in 1..Len(q) : r[i] = q[i]
  BY <1>1, AppendProperties, LenProperties
<1>3. PICK a \in Seq(Seq(Packet)) : a = Keeps(q) /\ Len(a) = Len(q)
  BY KeepsType
<1>4. PICK b \in Seq(Seq(Packet)) : b = Keeps(r) /\ Len(b) = Len(r)
  BY KeepsType
<1>5. PICK x \in Seq(Packet) : x = KeptOf(p)
  BY KeptOfFacts
<1>6. PICK d \in Seq(Seq(Packet)) : d = Append(a, x)
  BY AppendProperties
<1>7. Len(d) = Len(a) + 1 /\ d[Len(a) + 1] = x /\ \A i \in 1..Len(a) : d[i] = a[i]
  BY <1>6, AppendProperties
<1>8. \A i \in 1..Len(b) : b[i] = d[i]
  <2> SUFFICES ASSUME NEW i \in 1..Len(b) PROVE b[i] = d[i]
    OBVIOUS
  <2>1. b[i] = KeptOf(r[i])
    BY <1>4 DEF Keeps
  <2>2. CASE i = Len(q) + 1
    BY <1>2, <1>3, <1>5, <1>7, <2>1, <2>2
  <2>3. CASE i # Len(q) + 1
    <3>1. i \in 1..Len(q)
      BY <1>2, <1>4, <2>3
    <3>2. a[i] = KeptOf(q[i])
      BY <1>3, <3>1 DEF Keeps
    <3> QED BY <1>2, <1>3, <1>7, <2>1, <3>1, <3>2
  <2> QED BY <2>2, <2>3
<1>9. b = d
  <2>1. Len(b) = Len(d)
    BY <1>2, <1>3, <1>4, <1>7
  <2> QED BY <1>8, <2>1, SeqEqual
<1>10. FlattenSeq(Append(a, x)) = FlattenSeq(a) \o x
  BY FlattenAppend
<1>11. Kept(r) = FlattenSeq(b) /\ Kept(q) = FlattenSeq(a)
  BY <1>3, <1>4 DEF Kept, Keeps
<1> QED BY <1>1, <1>5, <1>6, <1>9, <1>10, <1>11

LEMMA KeptFacts ==
  ASSUME NEW q \in Seq(Packet)
  PROVE  /\ Kept(q) \in Seq(Packet)
         /\ \A c \in Contexts : Times(c, Content(Kept(q))) = Times(c, Content(q))
<1> DEFINE Good(u) == /\ Kept(u) \in Seq(Packet)
                      /\ \A c \in Contexts : Times(c, Content(Kept(u))) = Times(c, Content(u))
           P == {u \in Seq(Packet) : Good(u)}
<1>1. <<>> \in P
  <2>1. Keeps(<<>>) = <<>>
    BY DEF Keeps
  <2>2. Kept(<<>>) = <<>>
    BY <2>1, FlattenEmpty DEF Kept, Keeps
  <2>3. <<>> \in Seq(Packet)
    BY EmptySeq
  <2> QED BY <2>2, <2>3
<1>2. ASSUME NEW u \in P, NEW p \in Packet
      PROVE  Append(u, p) \in P
  <2>0. u \in Seq(Packet) /\ Good(u)
    OBVIOUS
  <2>1. Kept(Append(u, p)) = Kept(u) \o KeptOf(p) /\ KeptOf(p) \in Seq(Packet)
    BY <2>0, KeptAppend, KeptOfFacts
  <2>2. Kept(u) \o KeptOf(p) \in Seq(Packet)
    BY <2>0, <2>1, ConcatProperties
  <2>3. ASSUME NEW c \in Contexts
        PROVE  Times(c, Content(Kept(Append(u, p)))) = Times(c, Content(Append(u, p)))
    <3>1. Content(Kept(u) \o KeptOf(p)) = Content(Kept(u)) \o Content(KeptOf(p))
      BY <2>0, <2>1, ContentConcat
    <3>2. Content(Append(u, p)) = Content(u) \o p.msgs
      BY <2>0, ContentAppend
    <3>3. /\ Content(Kept(u)) \in Seq(Msg) /\ Content(KeptOf(p)) \in Seq(Msg)
          /\ Content(u) \in Seq(Msg) /\ p.msgs \in Seq(Msg)
      BY <2>0, <2>1, ContentType, PacketFacts
    <3>4. Times(c, Content(Kept(u)) \o Content(KeptOf(p))) = Times(c, Content(Kept(u))) + Times(c, Content(KeptOf(p)))
      BY <3>3, TimesConcat
    <3>5. Times(c, Content(u) \o p.msgs) = Times(c, Content(u)) + Times(c, p.msgs)
      BY <3>3, TimesConcat
    <3>6. Times(c, Content(KeptOf(p))) = Times(c, p.msgs)
      BY KeptOfFacts
    <3>7. Times(c, Content(Kept(u))) = Times(c, Content(u))
      BY <2>0
    <3> QED BY <2>1, <3>1, <3>2, <3>4, <3>5, <3>6, <3>7
  <2>4. Append(u, p) \in Seq(Packet)
    BY <2>0, AppendProperties
  <2> QED BY <2>1, <2>2, <2>3, <2>4
<1>3. P \subseteq Seq(Packet)
  OBVIOUS
<1> HIDE DEF P
<1>4. P = Seq(Packet)
  BY <1>1, <1>2, <1>3, AllSequences
<1> QED BY <1>4 DEF P

-----------------------------------------------------------------------------
(* The invariant *)

QueueTypes ==
  /\ packets \in [Fusionees -> Seq(Packet)] /\ prev \in [Fusionees -> Seq(Packet)]
  /\ processing \in [Fusionees -> Seq(Msg)]
  /\ sent \in [Fusionees -> Nat] /\ got \in [Fusionees -> Nat]
  /\ ran \in [Contexts -> Nat]

TaskTypes ==
  /\ pc \in [Tasks -> {"user", "receive", "send", "sync"}]
  /\ obj \in [Tasks -> Fusionees \cup {Nobody}] /\ arg \in [Tasks -> Msg]

Types ==
  /\ live \subseteq Fusionees /\ waiting \in [Fusionees -> BOOLEAN]
  /\ QueueTypes /\ TaskTypes

\* Who left the world is dying; a task reads from its own queue and waits for it.
Places ==
  /\ Fusionees \ live \subseteq killed
  /\ \A t \in Tasks :
       /\ pc[t] = "send" => obj[t] \in Fusionees
       /\ pc[t] \in {"receive", "sync"} => obj[t] = Owner[t]
       /\ pc[t] = "receive" => t \in Dispatchers

\* A queue holds the messages after the n-th, up to the last.
Numbered(q, n, last) ==
  /\ Len(Content(q)) = last - n
  /\ \A i \in 1..Len(Content(q)) : Content(q)[i].n = n + i

Ordered == \A f \in live : Numbered(packets[f], got[f], sent[f])

\* How often the callback of a context is in the packets of a fusionee.
Load(c, f) == Times(c, Content(prev[f])) + Times(c, Content(packets[f]))

\* A callback is nowhere, and ran perhaps; or it is once in one queue; or one task
\* holds it.
Idles(c)     == InHand(c) = {} /\ ran[c] <= 1 /\ \A f \in Fusionees : Load(c, f) = 0
Queued(c)    == /\ InHand(c) = {} /\ ran[c] = 0
                /\ \E g \in Fusionees : \A f \in Fusionees : Load(c, f) = IF f = g THEN 1 ELSE 0
Held(c)      == /\ ran[c] = 0 /\ \A f \in Fusionees : Load(c, f) = 0
                /\ \E t \in Tasks : InHand(c) = {t}
OncePlaced(c) == Idles(c) \/ Queued(c) \/ Held(c)

CallbackInv ==
  \A c \in Contexts :
    /\ OncePlaced(c)
    /\ \A f \in Fusionees : Times(c, processing[f]) = Times(c, Content(prev[f]))

IInv == Types /\ Places /\ Ordered /\ CallbackInv

\* One task reads the messages of a fusionee.
OneDispatcher == \A t, u \in Dispatchers : Owner[t] = Owner[u] => t = u

\* Who waits for messages works on none, and only then the fusionee waits.
WaitInv ==
  /\ \A t \in Tasks : pc[t] = "receive" => processing[Owner[t]] = <<>>
  /\ \A f \in Fusionees : waiting[f] => \E t \in Tasks : Owner[t] = f /\ pc[t] = "receive"

LEMMA NoMessageFacts == NoMessage \in Msg /\ NoMessage.cb = Nobody
  BY DEF NoMessage, Msg

LEMMA Renumber ==
  ASSUME NEW m \in Msg, NEW k \in Nat
  PROVE  [m EXCEPT !.n = k] \in Msg /\ [m EXCEPT !.n = k].n = k /\ [m EXCEPT !.n = k].cb = m.cb
BY DEF Msg

\* What is put into a queue is numbered after the last.
LEMMA NumberedPut ==
  ASSUME NEW q \in Seq(Packet), NEW m \in Msg, NEW g \in Nat, NEW l \in Nat,
         Numbered(q, g, l), m.n = l + 1
  PROVE  Numbered(Put(q, m), g, l + 1)
<1>1. PICK s \in Seq(Msg) : s = Content(q)
  BY ContentType
<1>2. PICK t \in Seq(Msg) : t = Append(s, m)
  BY AppendProperties
<1>3. Content(Put(q, m)) = t
  BY <1>1, <1>2, PutFacts
<1>4. /\ Len(s) \in Nat /\ Len(t) = Len(s) + 1 /\ t[Len(s) + 1] = m
      /\ \A i \in 1..Len(s) : t[i] = s[i]
  BY <1>2, AppendProperties, LenProperties
<1>5. Len(s) = l - g /\ \A i \in 1..Len(s) : s[i].n = g + i
  BY <1>1 DEF Numbered
<1>6. Len(t) = (l + 1) - g
  BY <1>4, <1>5
<1>7. ASSUME NEW i \in 1..Len(t) PROVE t[i].n = g + i
  <2>1. CASE i = Len(s) + 1
    <3>1. t[i].n = l + 1
      BY <1>4, <2>1
    <3>2. l + 1 = g + i
      BY <1>4, <1>5, <2>1
    <3> QED BY <3>1, <3>2
  <2>2. CASE i # Len(s) + 1
    <3>1. i \in 1..Len(s)
      BY <1>4, <2>2
    <3> QED BY <1>4, <1>5, <3>1
  <2> QED BY <2>1, <2>2
<1> QED BY <1>3, <1>6, <1>7 DEF Numbered

\* What remains of a queue is numbered after what was read.
LEMMA NumberedRead ==
  ASSUME NEW q \in Seq(Packet), NEW k \in 1..Len(q), NEW g \in Nat, NEW l \in Nat, Numbered(q, g, l)
  PROVE  Numbered(Remaining(q, k), g + Len(Content(SubSeq(q, 1, k))), l)
<1>1. PICK a \in Seq(Msg) : a = Content(SubSeq(q, 1, k))
  BY ReadFacts, ContentType
<1>2. PICK b \in Seq(Msg) : b = Content(Remaining(q, k))
  BY ReadFacts, ContentType
<1>3. PICK s \in Seq(Msg) : s = a \o b /\ Joined(s, a, b)
  BY ConcatIs
<1>4. Content(q) = s
  BY <1>1, <1>2, <1>3, ReadFacts
<1>5. /\ Len(s) = Len(a) + Len(b) /\ Len(a) \in Nat /\ Len(b) \in Nat
      /\ \A i \in 1..Len(b) : s[Len(a) + i] = b[i]
  BY <1>3 DEF Joined
<1>6. Len(s) = l - g /\ \A i \in 1..Len(s) : s[i].n = g + i
  BY <1>4 DEF Numbered
<1>7. Len(b) = l - (g + Len(a))
  <2>1. Len(s) = l - g
    BY <1>6
  <2>2. Len(a) + Len(b) = l - g
    BY <1>5, <2>1
  <2>3. Len(a) \in Nat /\ Len(b) \in Nat
    BY <1>5
  <2>4. \A x, y \in Nat : x + y = l - g => y = l - (g + x)
    OBVIOUS
  <2> QED BY <2>2, <2>3, <2>4
<1>8. ASSUME NEW i \in 1..Len(b) PROVE b[i].n = (g + Len(a)) + i
  <2>1. PICK j \in Nat : j = Len(a) + i
    BY <1>5
  <2>2. j \in 1..Len(s) /\ g + j = (g + Len(a)) + i
    BY <1>5, <2>1
  <2>3. s[j] = b[i]
    BY <1>5, <2>1
  <2>4. s[j].n = g + j
    BY <1>6, <2>2
  <2> QED BY <2>2, <2>3, <2>4
<1> QED BY <1>1, <1>2, <1>7, <1>8 DEF Numbered

LEMMA NumberedFlush ==
  ASSUME NEW q \in Seq(Packet), q # <<>>, NEW g, NEW l, Numbered(q, g, l)
  PROVE  Numbered(FlushLast(q), g, l)
BY FlushFacts DEF Numbered

\* What a message adds that is put into a queue.
LEMMA TimesPut ==
  ASSUME NEW q \in Seq(Packet), NEW m \in Msg, NEW c
  PROVE  Times(c, Content(Put(q, m))) = Times(c, Content(q)) + Bears(m, c)
<1>1. Content(q) \in Seq(Msg) /\ Content(Put(q, m)) = Append(Content(q), m)
  BY PutFacts, ContentType
<1>2. Times(c, Append(Content(q), m)) = Times(c, Content(q)) + Bears(m, c)
  BY <1>1, TimesAppend
<1> QED BY <1>1, <1>2

LEMMA TimesRead ==
  ASSUME NEW q \in Seq(Packet), NEW k \in 1..Len(q), NEW c
  PROVE  Times(c, Content(q)) = Times(c, Content(SubSeq(q, 1, k))) + Times(c, Content(Remaining(q, k)))
<1>1. /\ Content(SubSeq(q, 1, k)) \in Seq(Msg) /\ Content(Remaining(q, k)) \in Seq(Msg)
      /\ Content(q) = Content(SubSeq(q, 1, k)) \o Content(Remaining(q, k))
  BY ReadFacts, ContentType
<1> QED BY <1>1, TimesConcat

LEMMA TimesPackets ==
  ASSUME NEW q \in Seq(Packet), NEW r \in Seq(Packet), NEW c
  PROVE  /\ Times(c, Content(q \o r)) = Times(c, Content(q)) + Times(c, Content(r))
         /\ Times(c, Content(q)) \in Nat /\ Times(c, Content(r)) \in Nat
<1>1. Content(q) \in Seq(Msg) /\ Content(r) \in Seq(Msg) /\ Content(q \o r) = Content(q) \o Content(r)
  BY ContentType, ContentConcat
<1> QED BY <1>1, TimesConcat, AtFinite

LEMMA LoadType ==
  ASSUME QueueTypes, NEW c, NEW f \in Fusionees
  PROVE  /\ Load(c, f) \in Nat
         /\ Times(c, Content(prev[f])) \in Nat /\ Times(c, Content(packets[f])) \in Nat
<1>1. prev[f] \in Seq(Packet) /\ packets[f] \in Seq(Packet)
  BY DEF QueueTypes
<1>2. Times(c, Content(prev[f])) \in Nat /\ Times(c, Content(packets[f])) \in Nat
  BY <1>1, TimesPackets
<1> QED BY <1>2 DEF Load

LEMMA DeliverStep ==
  ASSUME QueueTypes, NEW f \in Fusionees, NEW m \in Msg, Deliver(f, m)
  PROVE  /\ QueueTypes' /\ ran' = ran /\ prev' = prev /\ processing' = processing
         /\ (Ordered /\ live \subseteq Fusionees /\ live' = live) => Ordered'
         /\ \A c \in Contexts, g \in Fusionees : Load(c, g)' = Load(c, g) + IF g = f THEN Bears(m, c) ELSE 0
<1> DEFINE k == sent[f] + 1
           r == [m EXCEPT !.n = k]
<1>1. /\ packets' = [packets EXCEPT ![f] = Put(@, r)] /\ sent' = [sent EXCEPT ![f] = @ + 1]
      /\ prev' = prev /\ got' = got /\ processing' = processing /\ ran' = ran
  BY DEF Deliver
<1>2. packets[f] \in Seq(Packet) /\ sent[f] \in Nat /\ got[f] \in Nat /\ k \in Nat
  BY DEF QueueTypes
<1>3. r \in Msg /\ r.n = k /\ r.cb = m.cb
  BY <1>2, Renumber
<1> HIDE DEF r, k
<1>4. Put(packets[f], r) \in Seq(Packet)
  BY <1>2, <1>3, PutFacts
<1>5. QueueTypes'
  <2>1. packets' \in [Fusionees -> Seq(Packet)]
    BY <1>1, <1>4 DEF QueueTypes
  <2>2. sent' \in [Fusionees -> Nat]
    BY <1>1, <1>2 DEF QueueTypes, k
  <2> QED BY <1>1, <2>1, <2>2 DEF QueueTypes
<1>6. /\ packets'[f] = Put(packets[f], r) /\ sent'[f] = sent[f] + 1
      /\ \A g \in Fusionees \ {f} : packets'[g] = packets[g] /\ sent'[g] = sent[g]
  BY <1>1 DEF QueueTypes
<1>7. ASSUME Ordered, live' = live, NEW g \in live, live \subseteq Fusionees
      PROVE  Numbered(packets'[g], got'[g], sent'[g])
  <2>1. Numbered(packets[g], got[g], sent[g])
    BY <1>7 DEF Ordered
  <2>2. CASE g = f
    <3>1. Numbered(packets[f], got[f], sent[f]) /\ r.n = sent[f] + 1
      BY <1>3, <2>1, <2>2 DEF k
    <3>2. Numbered(Put(packets[f], r), got[f], sent[f] + 1)
      BY <1>2, <1>3, <3>1, NumberedPut
    <3> QED BY <1>1, <1>6, <2>2, <3>2
  <2>3. CASE g # f
    BY <1>1, <1>6, <1>7, <2>1, <2>3
  <2> QED BY <2>2, <2>3
<1>8. ASSUME NEW c, NEW g \in Fusionees
      PROVE  Load(c, g)' = Load(c, g) + IF g = f THEN Bears(m, c) ELSE 0
  <2>1. /\ Times(c, Content(prev[g])) \in Nat /\ Times(c, Content(packets[g])) \in Nat
        /\ Load(c, g) = Times(c, Content(prev[g])) + Times(c, Content(packets[g]))
    BY LoadType DEF Load
  <2>2. Load(c, g)' = Times(c, Content(prev[g])) + Times(c, Content(packets'[g]))
    BY <1>1 DEF Load
  <2>3. CASE g = f
    <3>1. Times(c, Content(packets'[g])) = Times(c, Content(packets[g])) + Bears(r, c)
      BY <1>2, <1>3, <1>6, <2>3, TimesPut
    <3>2. Bears(r, c) = Bears(m, c) /\ Bears(m, c) \in Nat
      BY <1>3 DEF Bears
    <3> QED BY <2>1, <2>2, <2>3, <3>1, <3>2
  <2>4. CASE g # f
    BY <1>6, <2>1, <2>2, <2>4
  <2> QED BY <2>3, <2>4
<1> QED BY <1>1, <1>5, <1>7, <1>8 DEF Ordered

LEMMA ReadStep ==
  ASSUME QueueTypes, NEW f \in Fusionees, NEW k \in ReadSizes(packets[f]),
         NEW kept \in Seq(Packet), NEW work \in Seq(Msg),
         \A c \in Contexts : Times(c, work) = Times(c, Content(kept)),
         ran' \in [Contexts -> Nat], Read(f, k, kept, work)
  PROVE  /\ QueueTypes'
         /\ (Ordered /\ live \subseteq Fusionees /\ live' = live) => Ordered'
         /\ \A g \in Fusionees \ {f} :
              prev'[g] = prev[g] /\ packets'[g] = packets[g] /\ processing'[g] = processing[g]
         /\ \A c \in Contexts :
              /\ Times(c, Content(prev'[f])) + Times(c, Content(packets'[f]))
                   = Times(c, Content(kept)) + Times(c, Content(packets[f]))
              /\ Times(c, processing'[f]) = Times(c, Content(prev'[f]))
<1>0. PICK q \in Seq(Packet) : q = packets[f]
  BY DEF QueueTypes
<1>1. k \in 1..Len(q)
  BY <1>0 DEF ReadSizes
<1>2. PICK r \in Seq(Packet) : r = SubSeq(q, 1, k)
  BY <1>1, ReadFacts
<1>3. PICK e \in Seq(Packet) : e = Remaining(q, k)
  BY <1>1, ReadFacts
<1>4. PICK p \in Seq(Packet) : p = Kept(r)
  BY KeptFacts
<1>5. PICK m \in Seq(Msg) : m = Content(r)
  BY ContentType
<1>6. /\ packets' = [packets EXCEPT ![f] = e] /\ prev' = [prev EXCEPT ![f] = kept \o p]
      /\ got' = [got EXCEPT ![f] = @ + Len(m)] /\ processing' = [processing EXCEPT ![f] = work \o m]
      /\ sent' = sent
  BY <1>0, <1>2, <1>3, <1>4, <1>5 DEF Read
<1>7. kept \o p \in Seq(Packet) /\ work \o m \in Seq(Msg)
  BY ConcatProperties
<1>8. Len(m) \in Nat
  BY LenProperties
<1>9. QueueTypes'
  <2>1. packets' \in [Fusionees -> Seq(Packet)] /\ prev' \in [Fusionees -> Seq(Packet)]
    BY <1>6, <1>7 DEF QueueTypes
  <2>2. processing' \in [Fusionees -> Seq(Msg)]
    BY <1>6, <1>7 DEF QueueTypes
  <2>3. got' \in [Fusionees -> Nat]
    <3>1. got[f] + Len(m) \in Nat /\ got \in [Fusionees -> Nat]
      BY <1>8 DEF QueueTypes
    <3> QED BY <1>6, <3>1
  <2> QED BY <1>6, <2>1, <2>2, <2>3 DEF QueueTypes
<1>10. /\ packets'[f] = e /\ prev'[f] = kept \o p /\ processing'[f] = work \o m
       /\ got'[f] = got[f] + Len(m) /\ got[f] \in Nat /\ sent[f] \in Nat
  BY <1>6 DEF QueueTypes
<1>11. \A g \in Fusionees \ {f} :
         /\ prev'[g] = prev[g] /\ packets'[g] = packets[g] /\ processing'[g] = processing[g]
         /\ got'[g] = got[g]
  BY <1>6 DEF QueueTypes
<1>12. ASSUME Ordered, live \subseteq Fusionees, live' = live, NEW g \in live
       PROVE  Numbered(packets'[g], got'[g], sent'[g])
  <2>1. Numbered(packets[g], got[g], sent[g]) /\ g \in Fusionees
    BY <1>12 DEF Ordered
  <2>2. CASE g = f
    <3>1. Numbered(q, got[f], sent[f])
      BY <1>0, <2>1, <2>2
    <3>2. Numbered(e, got[f] + Len(m), sent[f])
      BY <1>1, <1>2, <1>3, <1>5, <1>10, <3>1, NumberedRead
    <3> QED BY <1>6, <1>10, <2>2, <3>2
  <2>3. CASE g # f
    BY <1>6, <1>11, <2>1, <2>3
  <2> QED BY <2>2, <2>3
<1>13. ASSUME NEW c \in Contexts
       PROVE  /\ Times(c, Content(prev'[f])) + Times(c, Content(packets'[f]))
                   = Times(c, Content(kept)) + Times(c, Content(packets[f]))
              /\ Times(c, processing'[f]) = Times(c, Content(prev'[f]))
  <2>1. /\ Times(c, Content(kept \o p)) = Times(c, Content(kept)) + Times(c, Content(p))
        /\ Times(c, Content(kept)) \in Nat /\ Times(c, Content(p)) \in Nat
    BY TimesPackets
  <2>2. Times(c, Content(q)) = Times(c, m) + Times(c, Content(e))
    BY <1>1, <1>2, <1>3, <1>5, TimesRead
  <2>3. Times(c, Content(p)) = Times(c, m)
    BY <1>4, <1>5, KeptFacts
  <2>4. Times(c, work \o m) = Times(c, work) + Times(c, m)
    BY TimesConcat
  <2>5. Times(c, Content(e)) \in Nat /\ Times(c, m) \in Nat
    BY ContentType, AtFinite
  <2>6. Times(c, work) = Times(c, Content(kept))
    OBVIOUS
  <2> QED BY <1>0, <1>10, <2>1, <2>2, <2>3, <2>4, <2>5, <2>6
<1> QED BY <1>9, <1>11, <1>12, <1>13 DEF Ordered

\* A queue whose last packet is closed holds the same.
LEMMA FlushStep ==
  ASSUME QueueTypes, NEW f \in Fusionees, packets[f] # <<>>,
         packets' = [packets EXCEPT ![f] = FlushLast(packets[f])],
         UNCHANGED <<prev, sent, got, processing, ran>>
  PROVE  /\ QueueTypes'
         /\ (Ordered /\ live \subseteq Fusionees /\ live' = live) => Ordered'
         /\ \A c \in Contexts, g \in Fusionees : Load(c, g)' = Load(c, g)
<1>1. PICK q \in Seq(Packet) : q = packets[f]
  BY DEF QueueTypes
<1>2. FlushLast(q) \in Seq(Packet) /\ Content(FlushLast(q)) = Content(q)
  BY <1>1, FlushFacts
<1>3. QueueTypes'
  <2>1. packets' \in [Fusionees -> Seq(Packet)]
    BY <1>1, <1>2 DEF QueueTypes
  <2> QED BY <2>1 DEF QueueTypes
<1>4. ASSUME NEW g \in Fusionees PROVE Content(packets'[g]) = Content(packets[g])
  BY <1>1, <1>2 DEF QueueTypes
<1>5. ASSUME Ordered, live \subseteq Fusionees, live' = live PROVE Ordered'
  BY <1>4, <1>5 DEF Ordered, Numbered
<1>6. ASSUME NEW c \in Contexts, NEW g \in Fusionees PROVE Load(c, g)' = Load(c, g)
  BY <1>4 DEF Load
<1> QED BY <1>3, <1>5, <1>6

LEMMA QueuesSame ==
  ASSUME UNCHANGED queues
  PROVE  /\ QueueTypes => QueueTypes'
         /\ (Ordered /\ live \subseteq Fusionees /\ live' = live) => Ordered'
         /\ \A c, g : Load(c, g)' = Load(c, g)
<1>1. /\ packets' = packets /\ prev' = prev /\ sent' = sent /\ got' = got
      /\ processing' = processing /\ ran' = ran
  BY DEF queues
<1>2. \A c, g : Load(c, g)' = Load(c, g)
  BY <1>1 DEF Load
<1> QED BY <1>1, <1>2 DEF QueueTypes, Ordered

LEMMA ReturnStep ==
  ASSUME TaskTypes, Places, NEW t \in Tasks, Return(t), live' = live, killed' = killed
  PROVE  TaskTypes' /\ Places' /\ \A c \in Contexts : InHand(c)' = InHand(c) \ {t}
<1>1. /\ pc' = [pc EXCEPT ![t] = "user"] /\ obj' = [obj EXCEPT ![t] = Nobody]
      /\ arg' = [arg EXCEPT ![t] = NoMessage]
  BY DEF Return
<1>2. TaskTypes'
  BY <1>1, NoMessageFacts DEF TaskTypes
<1>3. /\ pc'[t] = "user"
      /\ \A u \in Tasks \ {t} : pc'[u] = pc[u] /\ obj'[u] = obj[u] /\ arg'[u] = arg[u]
  BY <1>1 DEF TaskTypes
<1>4. Places'
  <2>1. ASSUME NEW u \in Tasks
        PROVE  /\ pc'[u] = "send" => obj'[u] \in Fusionees
               /\ pc'[u] \in {"receive", "sync"} => obj'[u] = Owner[u]
               /\ pc'[u] = "receive" => u \in Dispatchers
    <3>1. CASE u = t
      BY <1>3, <3>1
    <3>2. CASE u # t
      BY <1>3, <3>2 DEF Places
    <3> QED BY <3>1, <3>2
  <2> QED BY <2>1 DEF Places
<1>5. ASSUME NEW c \in Contexts PROVE InHand(c)' = InHand(c) \ {t}
  <2>1. InHand(c)' = {u \in Tasks : pc'[u] = "send" /\ arg'[u].cb = c}
    BY DEF InHand
  <2> QED BY <1>3, <2>1 DEF InHand
<1> QED BY <1>2, <1>4, <1>5

LEMMA SleepStep ==
  ASSUME TaskTypes, Places, NEW t \in Tasks, NEW where \in {"receive", "send", "sync"},
         NEW f \in Fusionees, NEW m \in Msg, Sleep(t, where, f, m),
         where = "send" \/ f = Owner[t], where = "receive" => t \in Dispatchers,
         live' = live, killed' = killed
  PROVE  /\ TaskTypes' /\ Places'
         /\ \A c \in Contexts :
              InHand(c)' = IF where = "send" /\ m.cb = c THEN InHand(c) \cup {t} ELSE InHand(c) \ {t}
<1>1. /\ pc' = [pc EXCEPT ![t] = where] /\ obj' = [obj EXCEPT ![t] = f]
      /\ arg' = [arg EXCEPT ![t] = m]
  BY DEF Sleep
<1>2. TaskTypes'
  BY <1>1 DEF TaskTypes
<1>3. /\ pc'[t] = where /\ obj'[t] = f /\ arg'[t] = m
      /\ \A u \in Tasks \ {t} : pc'[u] = pc[u] /\ obj'[u] = obj[u] /\ arg'[u] = arg[u]
  BY <1>1 DEF TaskTypes
<1>4. Places'
  <2>1. ASSUME NEW u \in Tasks
        PROVE  /\ pc'[u] = "send" => obj'[u] \in Fusionees
               /\ pc'[u] \in {"receive", "sync"} => obj'[u] = Owner[u]
               /\ pc'[u] = "receive" => u \in Dispatchers
    <3>1. CASE u = t
      BY <1>3, <3>1
    <3>2. CASE u # t
      BY <1>3, <3>2 DEF Places
    <3> QED BY <3>1, <3>2
  <2> QED BY <2>1 DEF Places
<1>5. ASSUME NEW c \in Contexts
      PROVE  InHand(c)' = IF where = "send" /\ m.cb = c THEN InHand(c) \cup {t} ELSE InHand(c) \ {t}
  <2>1. InHand(c)' = {u \in Tasks : pc'[u] = "send" /\ arg'[u].cb = c}
    BY DEF InHand
  <2>2. CASE where = "send" /\ m.cb = c
    BY <1>3, <2>1, <2>2 DEF InHand
  <2>3. CASE ~(where = "send" /\ m.cb = c)
    BY <1>3, <2>1, <2>3 DEF InHand
  <2> QED BY <2>2, <2>3
<1> QED BY <1>2, <1>4, <1>5

LEMMA TasksSame ==
  ASSUME UNCHANGED tasks
  PROVE  /\ TaskTypes => TaskTypes'
         /\ (Places /\ live' = live /\ killed \subseteq killed') => Places'
         /\ \A c : InHand(c)' = InHand(c)
<1>1. pc' = pc /\ obj' = obj /\ arg' = arg
  BY DEF tasks
<1>2. \A c : InHand(c)' = InHand(c)
  BY <1>1 DEF InHand
<1>3. ASSUME Places, live' = live, killed \subseteq killed' PROVE Places'
  <2>1. Fusionees \ live' \subseteq killed'
    BY <1>3 DEF Places
  <2> QED BY <1>1, <1>3, <2>1 DEF Places
<1> QED BY <1>1, <1>2, <1>3 DEF TaskTypes

\* Nothing happens to a callback; it runs; it is put into a queue.
LEMMA StaysOnce ==
  ASSUME NEW c \in Contexts, OncePlaced(c), InHand(c)' = InHand(c), ran'[c] = ran[c],
         \A f \in Fusionees : Load(c, f)' = Load(c, f)
  PROVE  OncePlaced(c)'
<1>1. CASE Idles(c)
  BY <1>1 DEF Idles, OncePlaced
<1>2. CASE Queued(c)
  BY <1>2 DEF Queued, OncePlaced
<1>3. CASE Held(c)
  BY <1>3 DEF Held, OncePlaced
<1> QED BY <1>1, <1>2, <1>3 DEF OncePlaced

LEMMA RunsOnce ==
  ASSUME NEW c \in Contexts, OncePlaced(c), InHand(c)' = InHand(c), NEW g \in Fusionees,
         ran[c] \in Nat, NEW x \in Nat, ran'[c] = ran[c] + x,
         \A f \in Fusionees : Load(c, f)' \in Nat,
         Load(c, g) = Load(c, g)' + x, \A f \in Fusionees \ {g} : Load(c, f)' = Load(c, f)
  PROVE  OncePlaced(c)'
<1>1. CASE x = 0
  <2>1. ran'[c] = ran[c] /\ Load(c, g)' = Load(c, g)
    <3>1. Load(c, g)' \in Nat
      OBVIOUS
    <3> QED BY <1>1, <3>1
  <2>2. \A f \in Fusionees : Load(c, f)' = Load(c, f)
    BY <2>1
  <2> QED BY <2>1, <2>2, StaysOnce
<1>2. CASE x # 0
  <2>1. Load(c, g) # 0
    <3>1. Load(c, g)' \in Nat
      OBVIOUS
    <3> QED BY <1>2, <3>1
  <2>2. Queued(c)
    BY <2>1 DEF OncePlaced, Idles, Held
  <2>3. \A f \in Fusionees : Load(c, f) = IF f = g THEN 1 ELSE 0
    BY <2>1, <2>2 DEF Queued
  <2>4. x = 1 /\ Load(c, g)' = 0
    <3>1. Load(c, g)' \in Nat /\ Load(c, g) = 1
      BY <2>3
    <3> QED BY <1>2, <3>1
  <2>5. ran[c] = 0 /\ InHand(c) = {}
    BY <2>2 DEF Queued
  <2>6. \A f \in Fusionees : Load(c, f)' = 0
    BY <2>3, <2>4
  <2>7. ran'[c] <= 1
    BY <2>4, <2>5
  <2> QED BY <2>5, <2>6, <2>7 DEF OncePlaced, Idles
<1> QED BY <1>1, <1>2

LEMMA UnusedIs ==
  ASSUME QueueTypes, NEW c \in Contexts, Unused(c)
  PROVE  InHand(c) = {} /\ ran[c] = 0 /\ \A f \in Fusionees : Load(c, f) = 0
<1>1. ASSUME NEW f \in Fusionees PROVE Load(c, f) = 0
  <2>1. {f} \X At(c, Content(prev[f] \o packets[f])) = {}
    BY DEF Unused, InQueues
  <2>2. At(c, Content(prev[f] \o packets[f])) = {}
    <3>1. \A a \in At(c, Content(prev[f] \o packets[f])) :
            <<f, a>> \in {f} \X At(c, Content(prev[f] \o packets[f]))
      OBVIOUS
    <3> QED BY <2>1, <3>1
  <2>3. prev[f] \in Seq(Packet) /\ packets[f] \in Seq(Packet)
    BY DEF QueueTypes
  <2>4. Content(prev[f] \o packets[f]) \in Seq(Msg)
    <3>1. prev[f] \o packets[f] \in Seq(Packet)
      BY <2>3, ConcatProperties
    <3> QED BY <3>1, ContentType
  <2>5. Times(c, Content(prev[f] \o packets[f])) = 0
    BY <2>2, <2>4, AtFinite
  <2>6. /\ Times(c, Content(prev[f] \o packets[f])) = Times(c, Content(prev[f])) + Times(c, Content(packets[f]))
        /\ Times(c, Content(prev[f])) \in Nat /\ Times(c, Content(packets[f])) \in Nat
    BY <2>3, TimesPackets
  <2> QED BY <2>5, <2>6 DEF Load
<1> QED BY <1>1 DEF Unused

-----------------------------------------------------------------------------
(* Every step keeps the invariant *)

\* A task may send a message when it is alone to hold its callback, if any, and the
\* callback is nowhere else.
MaySend(t, m) ==
  \A c \in Contexts :
    IF m.cb = c
    THEN InHand(c) \subseteq {t} /\ ran[c] = 0 /\ \A f \in Fusionees : Load(c, f) = 0
    ELSE t \notin InHand(c)

LEMMA AttemptStep ==
  ASSUME IInv, NEW t \in Tasks, NEW f \in Fusionees, NEW m \in Msg, MaySend(t, m),
         Attempt(t, f, m), UNCHANGED <<live, readers, killed>>
  PROVE  IInv'
<1>0. /\ QueueTypes /\ TaskTypes /\ Places /\ Ordered /\ live \subseteq Fusionees
      /\ waiting \in [Fusionees -> BOOLEAN]
  BY DEF IInv, Types
<1>a. live' = live /\ killed' = killed /\ waiting' = waiting
  BY DEF readers
<1>1. CASE Throttled(t, f)
  <2>1. Sleep(t, "send", f, m) /\ UNCHANGED queues
    BY <1>1 DEF Attempt
  <2>2. /\ TaskTypes' /\ Places'
        /\ \A c \in Contexts : InHand(c)' = IF m.cb = c THEN InHand(c) \cup {t} ELSE InHand(c) \ {t}
    <3> DEFINE where == "send"
    <3>1. where \in {"receive", "send", "sync"} /\ where = "send" /\ where # "receive" /\ Sleep(t, where, f, m)
      BY <2>1
    <3> HIDE DEF where
    <3> QED BY <1>0, <1>a, <3>1, SleepStep
  <2>3. QueueTypes' /\ Ordered' /\ \A c, g : Load(c, g)' = Load(c, g)
    BY <1>0, <1>a, <2>1, QueuesSame
  <2>4. ran' = ran /\ processing' = processing /\ prev' = prev
    BY <2>1 DEF queues
  <2>5. ASSUME NEW c \in Contexts PROVE OncePlaced(c)'
    <3>1. CASE m.cb = c
      <4>1. InHand(c)' = {t}
        BY <2>2, <3>1 DEF MaySend
      <4>2. ran'[c] = 0 /\ \A g \in Fusionees : Load(c, g)' = 0
        BY <2>3, <2>4, <3>1 DEF MaySend
      <4> QED BY <4>1, <4>2 DEF OncePlaced, Held
    <3>2. CASE m.cb # c
      <4>1. InHand(c)' = InHand(c)
        BY <2>2, <3>2 DEF MaySend
      <4>2. OncePlaced(c)
        BY DEF IInv, CallbackInv
      <4> QED BY <2>3, <2>4, <4>1, <4>2, StaysOnce
    <3> QED BY <3>1, <3>2
  <2> QED BY <1>0, <1>a, <2>2, <2>3, <2>4, <2>5 DEF IInv, Types, CallbackInv
<1>2. CASE ~Throttled(t, f)
  <2>1. Return(t) /\ Deliver(f, m)
    BY <1>2 DEF Attempt
  <2>2. TaskTypes' /\ Places' /\ \A c \in Contexts : InHand(c)' = InHand(c) \ {t}
    BY <1>0, <1>a, <2>1, ReturnStep
  <2>3. /\ QueueTypes' /\ Ordered' /\ ran' = ran /\ prev' = prev /\ processing' = processing
        /\ \A c \in Contexts, g \in Fusionees : Load(c, g)' = Load(c, g) + IF g = f THEN Bears(m, c) ELSE 0
    BY <1>0, <1>a, <2>1, DeliverStep
  <2>4. ASSUME NEW c \in Contexts PROVE OncePlaced(c)'
    <3>1. CASE m.cb = c
      <4>1. InHand(c)' = {} /\ ran'[c] = 0
        BY <2>2, <2>3, <3>1 DEF MaySend
      <4>2. \A g \in Fusionees : Load(c, g)' = IF g = f THEN 1 ELSE 0
        BY <2>3, <3>1 DEF MaySend, Bears
      <4> QED BY <4>1, <4>2 DEF OncePlaced, Queued
    <3>2. CASE m.cb # c
      <4>1. InHand(c)' = InHand(c)
        BY <2>2, <3>2 DEF MaySend
      <4>2. OncePlaced(c)
        BY DEF IInv, CallbackInv
      <4>3. ASSUME NEW g \in Fusionees PROVE Load(c, g)' = Load(c, g)
        <5>1. Load(c, g) \in Nat
          BY <1>0, LoadType
        <5>2. Load(c, g)' = Load(c, g) + 0
          BY <2>3, <3>2 DEF Bears
        <5> QED BY <5>1, <5>2
      <4> QED BY <2>3, <4>1, <4>2, <4>3, StaysOnce
    <3> QED BY <3>1, <3>2
  <2> QED BY <1>0, <1>a, <2>2, <2>3, <2>4 DEF IInv, Types, CallbackInv
<1> QED BY <1>1, <1>2

LEMMA SendStep ==
  ASSUME IInv, NEW t \in Tasks, NEW f \in Fusionees, NEW cb \in Contexts \cup {Nobody},
         NEW flush \in BOOLEAN, cb \in Contexts => Unused(cb), Send(t, f, cb, flush)
  PROVE  IInv'
<1> DEFINE m == [n |-> 0, cb |-> cb, flush |-> flush]
<1>1. m \in Msg /\ m.cb = cb
  BY DEF Msg
<1>2. pc[t] = "user" /\ Attempt(t, f, m) /\ UNCHANGED <<live, readers, killed>>
  BY DEF Send, InUser
<1> HIDE DEF m
<1>3. MaySend(t, m)
  <2> SUFFICES ASSUME NEW c \in Contexts
               PROVE  IF m.cb = c
                      THEN InHand(c) \subseteq {t} /\ ran[c] = 0 /\ \A g \in Fusionees : Load(c, g) = 0
                      ELSE t \notin InHand(c)
    BY DEF MaySend
  <2>1. t \notin InHand(c)
    BY <1>2 DEF InHand
  <2>2. CASE cb = c
    <3>1. InHand(c) = {} /\ ran[c] = 0 /\ \A g \in Fusionees : Load(c, g) = 0
      BY <2>2, UnusedIs DEF IInv, Types
    <3> QED BY <1>1, <2>2, <3>1
  <2> QED BY <1>1, <2>1, <2>2
<1> QED BY <1>1, <1>2, <1>3, AttemptStep

\* A task that returns from the kernel without sending drops its callback.
LEMMA DropsOnce ==
  ASSUME NEW c \in Contexts, OncePlaced(c), NEW t \in Tasks, InHand(c)' = InHand(c) \ {t},
         ran'[c] = ran[c], \A f \in Fusionees : Load(c, f)' = Load(c, f)
  PROVE  OncePlaced(c)'
<1>1. CASE InHand(c)' = InHand(c)
  BY <1>1, StaysOnce
<1>2. CASE InHand(c)' # InHand(c)
  <2>1. Held(c)
    BY <1>2 DEF OncePlaced, Idles, Queued
  <2>2. InHand(c)' = {} /\ ran'[c] <= 1
    BY <1>2, <2>1 DEF Held
  <2> QED BY <2>1, <2>2 DEF OncePlaced, Held, Idles
<1> QED BY <1>1, <1>2

LEMMA DropStep ==
  ASSUME IInv, NEW t \in Tasks, Return(t), UNCHANGED queues, live' = live, killed' = killed,
         waiting' \in [Fusionees -> BOOLEAN]
  PROVE  IInv'
<1>0. QueueTypes /\ TaskTypes /\ Places /\ Ordered /\ live \subseteq Fusionees
  BY DEF IInv, Types
<1>1. TaskTypes' /\ Places' /\ \A c \in Contexts : InHand(c)' = InHand(c) \ {t}
  BY <1>0, ReturnStep
<1>2. QueueTypes' /\ Ordered' /\ \A c, g : Load(c, g)' = Load(c, g)
  BY <1>0, QueuesSame
<1>3. ran' = ran /\ processing' = processing /\ prev' = prev
  BY DEF queues
<1>4. ASSUME NEW c \in Contexts PROVE OncePlaced(c)'
  <2>1. OncePlaced(c)
    BY DEF IInv, CallbackInv
  <2> QED BY <1>1, <1>2, <1>3, <2>1, DropsOnce
<1> QED BY <1>0, <1>1, <1>2, <1>3, <1>4 DEF IInv, Types, CallbackInv

LEMMA ResumeSendStep ==
  ASSUME IInv, NEW t \in Tasks, ResumeSend(t)
  PROVE  IInv'
<1>0. pc[t] = "send" /\ UNCHANGED <<live, readers, killed, ops>>
  BY DEF ResumeSend
<1>1. CASE Owner[t] \in killed
  <2>1. Return(t) /\ UNCHANGED queues /\ live' = live /\ killed' = killed /\ waiting' = waiting
    BY <1>0, <1>1 DEF ResumeSend, readers
  <2>2. waiting' \in [Fusionees -> BOOLEAN]
    BY <2>1 DEF IInv, Types
  <2> QED BY <2>1, <2>2, DropStep
<1>2. CASE Owner[t] \notin killed
  <2>1. Attempt(t, obj[t], arg[t])
    BY <1>2 DEF ResumeSend
  <2>2. PICK f \in Fusionees : f = obj[t]
    BY <1>0 DEF IInv, Places
  <2>3. PICK m \in Msg : m = arg[t]
    BY DEF IInv, Types, TaskTypes
  <2>4. MaySend(t, m)
    <3> SUFFICES ASSUME NEW c \in Contexts
                 PROVE  IF m.cb = c
                        THEN InHand(c) \subseteq {t} /\ ran[c] = 0 /\ \A g \in Fusionees : Load(c, g) = 0
                        ELSE t \notin InHand(c)
      BY DEF MaySend
    <3>1. t \in InHand(c) <=> m.cb = c
      BY <1>0, <2>3 DEF InHand
    <3>2. OncePlaced(c)
      BY DEF IInv, CallbackInv
    <3>3. CASE t \in InHand(c)
      <4>1. Held(c)
        BY <3>2, <3>3 DEF OncePlaced, Idles, Queued
      <4> QED BY <3>1, <3>3, <4>1 DEF Held
    <3> QED BY <3>1, <3>3
  <2> QED BY <1>0, <2>1, <2>2, <2>3, <2>4, AttemptStep
<1> QED BY <1>1, <1>2

LEMMA RunFacts ==
  ASSUME QueueTypes, NEW q \in Seq(Packet), Run(q)
  PROVE  /\ ran' \in [Contexts -> Nat]
         /\ \A c \in Contexts : ran'[c] = ran[c] + Times(c, Content(q)) /\ Times(c, Content(q)) \in Nat
<1>1. \A c \in Contexts : Times(c, Content(q)) \in Nat /\ ran[c] \in Nat
  BY ContentType, AtFinite DEF QueueTypes
<1>2. ran' = [c \in Contexts |-> ran[c] + Times(c, Content(q))]
  BY DEF Run
<1> QED BY <1>1, <1>2

\* What the queues of f and the others have of the callbacks after those of prev ran.
Ran(f) ==
  \A c \in Contexts :
    /\ ran'[c] = ran[c] + Times(c, Content(prev[f]))
    /\ Load(c, f) = Load(c, f)' + Times(c, Content(prev[f]))
    /\ \A g \in Fusionees \ {f} : Load(c, g)' = Load(c, g)

WorkIsKept ==
  \A c \in Contexts, f \in Fusionees : Times(c, processing[f]) = Times(c, Content(prev[f]))

LEMMA ForgetStep ==
  ASSUME QueueTypes, WorkIsKept, NEW f \in Fusionees, Run(prev[f]), prev' = [prev EXCEPT ![f] = <<>>],
         processing' = [processing EXCEPT ![f] = <<>>], UNCHANGED <<packets, sent, got>>
  PROVE  /\ QueueTypes' /\ WorkIsKept' /\ Ran(f)
         /\ (Ordered /\ live' = live) => Ordered'
<1>1. prev[f] \in Seq(Packet)
  BY DEF QueueTypes
<1>2. /\ ran' \in [Contexts -> Nat]
      /\ \A c \in Contexts : ran'[c] = ran[c] + Times(c, Content(prev[f]))
  BY <1>1, RunFacts
<1>3. <<>> \in Seq(Packet) /\ <<>> \in Seq(Msg)
  BY EmptySeq
<1>4. /\ prev'[f] = <<>> /\ processing'[f] = <<>>
      /\ \A g \in Fusionees \ {f} : prev'[g] = prev[g] /\ processing'[g] = processing[g]
  BY DEF QueueTypes
<1>5. QueueTypes'
  <2>1. prev' \in [Fusionees -> Seq(Packet)] /\ processing' \in [Fusionees -> Seq(Msg)]
    BY <1>3 DEF QueueTypes
  <2> QED BY <1>2, <2>1 DEF QueueTypes
<1>6. \A c : Times(c, <<>>) = 0 /\ Times(c, Content(<<>>)) = 0
  BY TimesEmpty, ContentEmpty
<1>7. WorkIsKept'
  <2>1. ASSUME NEW c \in Contexts, NEW g \in Fusionees
        PROVE  Times(c, processing'[g]) = Times(c, Content(prev'[g]))
    <3>1. CASE g = f
      BY <1>4, <1>6, <3>1
    <3>2. CASE g # f
      BY <1>4, <3>2 DEF WorkIsKept
    <3> QED BY <3>1, <3>2
  <2> QED BY <2>1 DEF WorkIsKept
<1>8. Ran(f)
  <2>1. ASSUME NEW c \in Contexts, NEW g \in Fusionees
        PROVE  /\ Load(c, g)' = Times(c, Content(prev'[g])) + Times(c, Content(packets[g]))
               /\ Load(c, g) = Times(c, Content(prev[g])) + Times(c, Content(packets[g]))
               /\ Times(c, Content(prev[g])) \in Nat /\ Times(c, Content(packets[g])) \in Nat
    BY LoadType DEF Load
  <2>2. ASSUME NEW c \in Contexts
        PROVE  Load(c, f) = Load(c, f)' + Times(c, Content(prev[f]))
    <3>1. Times(c, Content(prev'[f])) = 0
      BY <1>4, <1>6
    <3> QED BY <2>1, <3>1
  <2>3. ASSUME NEW c \in Contexts, NEW g \in Fusionees \ {f}
        PROVE  Load(c, g)' = Load(c, g)
    BY <1>4, <2>1
  <2> QED BY <1>2, <2>2, <2>3 DEF Ran
<1> QED BY <1>5, <1>7, <1>8 DEF Ordered

\* Callbacks that ran are not in a queue any more.
LEMMA RanOnce ==
  ASSUME QueueTypes, QueueTypes', NEW f \in Fusionees, Ran(f), NEW c \in Contexts, OncePlaced(c),
         InHand(c)' = InHand(c)
  PROVE  OncePlaced(c)'
<1>1. PICK x \in Nat : x = Times(c, Content(prev[f]))
  BY LoadType
<1>2. \A g \in Fusionees : Load(c, g)' \in Nat
  <2>1. ASSUME NEW g \in Fusionees
        PROVE  /\ Load(c, g)' = Times(c, Content(prev'[g])) + Times(c, Content(packets'[g]))
               /\ prev'[g] \in Seq(Packet) /\ packets'[g] \in Seq(Packet)
    BY DEF Load, QueueTypes
  <2>2. ASSUME NEW g \in Fusionees
        PROVE  Times(c, Content(prev'[g])) \in Nat /\ Times(c, Content(packets'[g])) \in Nat
    BY <2>1, ContentType, AtFinite
  <2> QED BY <2>1, <2>2
<1>3. ran[c] \in Nat
  BY DEF QueueTypes
<1>4. /\ ran'[c] = ran[c] + x /\ Load(c, f) = Load(c, f)' + x
      /\ \A g \in Fusionees \ {f} : Load(c, g)' = Load(c, g)
  BY <1>1 DEF Ran
<1> QED BY <1>2, <1>3, <1>4, RunsOnce

LEMMA ReceiveStep ==
  ASSUME IInv, NEW t \in Tasks, Receive(t)
  PROVE  IInv'
<1> DEFINE f == Owner[t]
<1>1. f \in Fusionees
  BY MessagesAssumption
<1>2. pc[t] = "user" /\ t \in Dispatchers /\ Run(prev[f]) /\ live' = live /\ killed' = killed
  BY DEF Receive, InUser
<1>0. /\ QueueTypes /\ TaskTypes /\ Places /\ Ordered /\ live \subseteq Fusionees
      /\ waiting \in [Fusionees -> BOOLEAN] /\ WorkIsKept
  BY DEF IInv, Types, CallbackInv, WorkIsKept
<1>b. \A c \in Contexts : t \notin InHand(c)
  BY <1>2 DEF InHand
<1>3. CASE Readable(packets[f])
  <2>1. PICK k \in ReadSizes(packets[f]) : Read(f, k, <<>>, <<>>)
    BY <1>3 DEF Receive
  <2>2. UNCHANGED <<waiting, tasks>>
    BY <1>3 DEF Receive
  <2> HIDE DEF f
  <2>3. prev[f] \in Seq(Packet) /\ packets[f] \in Seq(Packet)
    BY <1>0, <1>1 DEF QueueTypes
  <2>4. /\ ran' \in [Contexts -> Nat]
        /\ \A c \in Contexts : ran'[c] = ran[c] + Times(c, Content(prev[f])) /\ Times(c, Content(prev[f])) \in Nat
    BY <1>0, <1>2, <2>3, RunFacts
  <2>5. <<>> \in Seq(Packet) /\ <<>> \in Seq(Msg) /\ \A c : Times(c, <<>>) = 0 /\ Times(c, Content(<<>>)) = 0
    BY EmptySeq, TimesEmpty, ContentEmpty
  <2>6. \A c \in Contexts : Times(c, <<>>) = Times(c, Content(<<>>))
    BY <2>5
  <2>7. /\ QueueTypes' /\ Ordered'
        /\ \A g \in Fusionees \ {f} :
             prev'[g] = prev[g] /\ packets'[g] = packets[g] /\ processing'[g] = processing[g]
        /\ \A c \in Contexts :
             /\ Times(c, Content(prev'[f])) + Times(c, Content(packets'[f]))
                  = Times(c, Content(<<>>)) + Times(c, Content(packets[f]))
             /\ Times(c, processing'[f]) = Times(c, Content(prev'[f]))
    <3>1. PICK e : e = <<>>
      OBVIOUS
    <3>2. e \in Seq(Packet) /\ e \in Seq(Msg) /\ \A c \in Contexts : Times(c, e) = Times(c, Content(e))
      BY <2>5, <2>6, <3>1
    <3>3. Read(f, k, e, e)
      BY <2>1, <3>1
    <3>4. /\ QueueTypes'
          /\ (Ordered /\ live \subseteq Fusionees /\ live' = live) => Ordered'
          /\ \A g \in Fusionees \ {f} :
               prev'[g] = prev[g] /\ packets'[g] = packets[g] /\ processing'[g] = processing[g]
          /\ \A c \in Contexts :
               /\ Times(c, Content(prev'[f])) + Times(c, Content(packets'[f]))
                    = Times(c, Content(e)) + Times(c, Content(packets[f]))
               /\ Times(c, processing'[f]) = Times(c, Content(prev'[f]))
      BY <1>0, <1>1, <2>1, <2>4, <3>2, <3>3, ReadStep
    <3> QED BY <1>0, <1>2, <3>1, <3>4
  <2>8. WorkIsKept'
    BY <1>0, <2>7 DEF WorkIsKept
  <2>9. Ran(f)
    <3>1. ASSUME NEW c \in Contexts
          PROVE  Load(c, f) = Load(c, f)' + Times(c, Content(prev[f]))
      <4>1. Load(c, f)' = 0 + Times(c, Content(packets[f]))
        BY <2>5, <2>7 DEF Load
      <4>2. Times(c, Content(packets[f])) \in Nat /\ Times(c, Content(prev[f])) \in Nat
        BY <1>0, <1>1, LoadType
      <4> QED BY <4>1, <4>2 DEF Load
    <3>2. ASSUME NEW c \in Contexts, NEW g \in Fusionees \ {f} PROVE Load(c, g)' = Load(c, g)
      BY <2>7 DEF Load
    <3> QED BY <2>4, <3>1, <3>2 DEF Ran
  <2>10. TaskTypes' /\ Places' /\ \A c : InHand(c)' = InHand(c)
    BY <1>0, <1>2, <2>2, TasksSame
  <2>11. ASSUME NEW c \in Contexts PROVE OncePlaced(c)'
    <3>1. OncePlaced(c)
      BY DEF IInv, CallbackInv
    <3> QED BY <1>0, <1>1, <2>7, <2>9, <2>10, <3>1, RanOnce
  <2> QED BY <1>0, <1>2, <2>2, <2>7, <2>8, <2>10, <2>11 DEF IInv, Types, CallbackInv, WorkIsKept
<1>4. CASE ~Readable(packets[f])
  <2>1. /\ waiting' = [waiting EXCEPT ![f] = TRUE] /\ prev' = [prev EXCEPT ![f] = <<>>]
        /\ processing' = [processing EXCEPT ![f] = <<>>] /\ Sleep(t, "receive", f, NoMessage)
        /\ UNCHANGED <<packets, sent, got>>
    BY <1>4 DEF Receive
  <2>2. QueueTypes' /\ WorkIsKept' /\ Ran(f) /\ Ordered'
    <3> HIDE DEF f
    <3> QED BY <1>0, <1>1, <1>2, <2>1, ForgetStep
  <2>3. /\ TaskTypes' /\ Places'
        /\ \A c \in Contexts :
             InHand(c)' = IF "receive" = "send" /\ NoMessage.cb = c THEN InHand(c) \cup {t} ELSE InHand(c) \ {t}
    BY <1>0, <1>1, <1>2, <2>1, NoMessageFacts, SleepStep
  <2> HIDE DEF f
  <2>4. \A c \in Contexts : InHand(c)' = InHand(c)
    BY <1>b, <2>3
  <2>5. ASSUME NEW c \in Contexts PROVE OncePlaced(c)'
    <3>1. OncePlaced(c)
      BY DEF IInv, CallbackInv
    <3> QED BY <1>0, <1>1, <2>2, <2>4, <3>1, RanOnce
  <2>6. waiting' \in [Fusionees -> BOOLEAN]
    BY <1>0, <2>1
  <2> QED BY <1>0, <1>2, <2>2, <2>3, <2>5, <2>6 DEF IInv, Types, CallbackInv, WorkIsKept
<1> QED BY <1>3, <1>4

LEMMA PollStep ==
  ASSUME IInv, NEW t \in Tasks, Poll(t)
  PROVE  IInv'
<1> DEFINE f == Owner[t]
<1>1. f \in Fusionees
  BY MessagesAssumption
<1>2. /\ Run(prev[f]) /\ prev' = [prev EXCEPT ![f] = <<>>] /\ processing' = [processing EXCEPT ![f] = <<>>]
      /\ UNCHANGED <<packets, sent, got>> /\ UNCHANGED tasks /\ live' = live /\ killed' = killed
      /\ waiting' = waiting
  BY DEF Poll
<1> HIDE DEF f
<1>0. /\ QueueTypes /\ TaskTypes /\ Places /\ Ordered /\ live \subseteq Fusionees
      /\ waiting \in [Fusionees -> BOOLEAN] /\ WorkIsKept
  BY DEF IInv, Types, CallbackInv, WorkIsKept
<1>3. QueueTypes' /\ WorkIsKept' /\ Ran(f) /\ Ordered'
  BY <1>0, <1>1, <1>2, ForgetStep
<1>4. TaskTypes' /\ Places' /\ \A c : InHand(c)' = InHand(c)
  BY <1>0, <1>2, TasksSame
<1>5. ASSUME NEW c \in Contexts PROVE OncePlaced(c)'
  <2>1. OncePlaced(c)
    BY DEF IInv, CallbackInv
  <2> QED BY <1>0, <1>1, <1>3, <1>4, <2>1, RanOnce
<1> QED BY <1>0, <1>2, <1>3, <1>4, <1>5 DEF IInv, Types, CallbackInv, WorkIsKept

\* Nothing happens to the queues and to the tasks.
LEMMA QuietStep ==
  ASSUME IInv, UNCHANGED <<queues, tasks>>, live' = live, killed \subseteq killed',
         waiting' \in [Fusionees -> BOOLEAN]
  PROVE  IInv'
<1>0. QueueTypes /\ TaskTypes /\ Places /\ Ordered /\ live \subseteq Fusionees
  BY DEF IInv, Types
<1>1. TaskTypes' /\ Places' /\ \A c : InHand(c)' = InHand(c)
  BY <1>0, TasksSame
<1>2. QueueTypes' /\ Ordered' /\ \A c, g : Load(c, g)' = Load(c, g)
  BY <1>0, QueuesSame
<1>3. ran' = ran /\ processing' = processing /\ prev' = prev
  BY DEF queues
<1>4. ASSUME NEW c \in Contexts PROVE OncePlaced(c)'
  <2>1. OncePlaced(c)
    BY DEF IInv, CallbackInv
  <2> QED BY <1>1, <1>2, <1>3, <2>1, StaysOnce
<1> QED BY <1>0, <1>1, <1>2, <1>3, <1>4 DEF IInv, Types, CallbackInv

LEMMA ResumeReceiveStep ==
  ASSUME IInv, NEW t \in Tasks, ResumeReceive(t)
  PROVE  IInv'
<1>0. /\ QueueTypes /\ TaskTypes /\ Places /\ Ordered /\ live \subseteq Fusionees
      /\ waiting \in [Fusionees -> BOOLEAN] /\ WorkIsKept
  BY DEF IInv, Types, CallbackInv, WorkIsKept
<1>1. pc[t] = "receive" /\ live' = live /\ killed' = killed
  BY DEF ResumeReceive
<1>2. PICK f \in Fusionees : f = obj[t]
  <2>1. obj[t] = Owner[t]
    BY <1>0, <1>1 DEF Places
  <2> QED BY <2>1, MessagesAssumption
<1>b. \A c \in Contexts : t \notin InHand(c)
  BY <1>1 DEF InHand
<1>3. CASE Owner[t] \in killed
  <2>1. Return(t) /\ UNCHANGED queues /\ waiting' = [waiting EXCEPT ![f] = FALSE]
    BY <1>2, <1>3 DEF ResumeReceive
  <2>2. waiting' \in [Fusionees -> BOOLEAN]
    BY <1>0, <2>1
  <2> QED BY <1>1, <2>1, <2>2, DropStep
<1>4. CASE Owner[t] \notin killed /\ Readable(packets[f])
  <2>1. Return(t) /\ ran' = ran /\ waiting' = [waiting EXCEPT ![f] = FALSE]
    BY <1>2, <1>4 DEF ResumeReceive
  <2>2. PICK k \in ReadSizes(packets[f]) : Read(f, k, prev[f], processing[f])
    BY <1>2, <1>4 DEF ResumeReceive
  <2>3. PICK p \in Seq(Packet) : p = prev[f]
    BY <1>0 DEF QueueTypes
  <2>4. PICK w \in Seq(Msg) : w = processing[f]
    BY <1>0 DEF QueueTypes
  <2>5. \A c \in Contexts : Times(c, w) = Times(c, Content(p))
    BY <1>0, <2>3, <2>4 DEF WorkIsKept
  <2>6. Read(f, k, p, w) /\ ran' \in [Contexts -> Nat]
    BY <1>0, <2>1, <2>2, <2>3, <2>4 DEF QueueTypes
  <2>7. /\ QueueTypes'
        /\ (Ordered /\ live \subseteq Fusionees /\ live' = live) => Ordered'
        /\ \A g \in Fusionees \ {f} :
             prev'[g] = prev[g] /\ packets'[g] = packets[g] /\ processing'[g] = processing[g]
        /\ \A c \in Contexts :
             /\ Times(c, Content(prev'[f])) + Times(c, Content(packets'[f]))
                  = Times(c, Content(p)) + Times(c, Content(packets[f]))
             /\ Times(c, processing'[f]) = Times(c, Content(prev'[f]))
    BY <1>0, <2>2, <2>5, <2>6, ReadStep
  <2>8. WorkIsKept'
    BY <1>0, <2>7 DEF WorkIsKept
  <2>9. ASSUME NEW c \in Contexts, NEW g \in Fusionees PROVE Load(c, g)' = Load(c, g)
    <3>1. CASE g = f
      BY <2>3, <2>7, <3>1 DEF Load
    <3>2. CASE g # f
      BY <2>7, <3>2 DEF Load
    <3> QED BY <3>1, <3>2
  <2>10. TaskTypes' /\ Places' /\ \A c \in Contexts : InHand(c)' = InHand(c)
    <3>1. TaskTypes' /\ Places' /\ \A c \in Contexts : InHand(c)' = InHand(c) \ {t}
      BY <1>0, <1>1, <2>1, ReturnStep
    <3> QED BY <1>b, <3>1
  <2>11. ASSUME NEW c \in Contexts PROVE OncePlaced(c)'
    <3>1. OncePlaced(c)
      BY DEF IInv, CallbackInv
    <3> QED BY <2>1, <2>9, <2>10, <3>1, StaysOnce
  <2>12. waiting' \in [Fusionees -> BOOLEAN]
    BY <1>0, <2>1
  <2> QED BY <1>0, <1>1, <2>7, <2>8, <2>10, <2>11, <2>12 DEF IInv, Types, CallbackInv, WorkIsKept
<1>5. CASE Owner[t] \notin killed /\ ~Readable(packets[f])
  <2>1. waiting' = [waiting EXCEPT ![f] = TRUE] /\ UNCHANGED <<queues, tasks>>
    BY <1>2, <1>5 DEF ResumeReceive
  <2>2. waiting' \in [Fusionees -> BOOLEAN]
    BY <1>0, <2>1
  <2> QED BY <1>1, <2>1, <2>2, QuietStep
<1> QED BY <1>3, <1>4, <1>5

LEMMA SyncedStep ==
  ASSUME IInv, NEW t \in Tasks, pc[t] # "send", Synced(t, Owner[t]), UNCHANGED <<live, readers, killed>>
  PROVE  IInv'
<1> DEFINE f == Owner[t]
<1>1. f \in Fusionees
  BY MessagesAssumption
<1>2. live' = live /\ killed' = killed /\ waiting' = waiting
  BY DEF readers
<1>0. /\ QueueTypes /\ TaskTypes /\ Places /\ Ordered /\ live \subseteq Fusionees
      /\ waiting \in [Fusionees -> BOOLEAN] /\ WorkIsKept
  BY DEF IInv, Types, CallbackInv, WorkIsKept
<1>3. CASE Idle(f)
  <2>1. Return(t) /\ UNCHANGED queues
    BY <1>3 DEF Synced
  <2> QED BY <1>0, <1>2, <2>1, DropStep
<1>4. CASE ~Idle(f)
  <2>1. /\ packets' = IF packets[f] = <<>> THEN packets ELSE [packets EXCEPT ![f] = FlushLast(packets[f])]
        /\ Sleep(t, "sync", f, NoMessage) /\ UNCHANGED <<prev, sent, got, processing, ran>>
    BY <1>4 DEF Synced
  <2>2. /\ TaskTypes' /\ Places'
        /\ \A c \in Contexts :
             InHand(c)' = IF "sync" = "send" /\ NoMessage.cb = c THEN InHand(c) \cup {t} ELSE InHand(c) \ {t}
    BY <1>0, <1>1, <1>2, <2>1, NoMessageFacts, SleepStep
  <2> HIDE DEF f
  <2>3. \A c \in Contexts : InHand(c)' = InHand(c)
    BY <2>2 DEF InHand
  <2>4. /\ QueueTypes' /\ Ordered'
        /\ \A c \in Contexts, g \in Fusionees : Load(c, g)' = Load(c, g)
    <3>1. CASE packets[f] = <<>>
      <4>1. UNCHANGED queues
        BY <2>1, <3>1 DEF queues
      <4> QED BY <1>0, <1>2, <4>1, QueuesSame
    <3>2. CASE packets[f] # <<>>
      BY <1>0, <1>1, <1>2, <2>1, <3>2, FlushStep
    <3> QED BY <3>1, <3>2
  <2>5. ASSUME NEW c \in Contexts PROVE OncePlaced(c)'
    <3>1. OncePlaced(c)
      BY DEF IInv, CallbackInv
    <3> QED BY <2>1, <2>3, <2>4, <3>1, StaysOnce
  <2> QED BY <1>0, <1>2, <2>1, <2>2, <2>4, <2>5 DEF IInv, Types, CallbackInv
<1> QED BY <1>3, <1>4

LEMMA ReleaseStep ==
  ASSUME IInv, NEW f \in Fusionees, Release(f)
  PROVE  IInv'
<1>0. /\ QueueTypes /\ TaskTypes /\ Places /\ Ordered /\ live \subseteq Fusionees
      /\ waiting \in [Fusionees -> BOOLEAN] /\ WorkIsKept
  BY DEF IInv, Types, CallbackInv, WorkIsKept
<1>1. PICK told : told = IF f = Master THEN {} ELSE live'
  OBVIOUS
<1>2. PICK leave : leave = [n |-> 0, cb |-> Nobody, flush |-> TRUE]
  OBVIOUS
<1>3. leave \in Msg /\ leave.cb = Nobody
  BY <1>2 DEF Msg
<1>4. /\ f \in killed /\ live' = live \ {f} /\ Run(prev[f] \o packets[f])
      /\ prev' = [prev EXCEPT ![f] = <<>>] /\ processing' = [processing EXCEPT ![f] = <<>>]
      /\ got' = got /\ waiting' = waiting /\ UNCHANGED tasks
  BY DEF Release, readers
<1>5. /\ packets' = [g \in Fusionees |-> IF g = f THEN <<>>
                                         ELSE IF g \in told
                                         THEN Put(packets[g], [leave EXCEPT !.n = sent[g] + 1])
                                         ELSE packets[g]]
      /\ sent'    = [g \in Fusionees |-> sent[g] + IF g \in told THEN 1 ELSE 0]
  BY <1>1, <1>2 DEF Release
<1>6. killed \subseteq killed'
  BY DEF Release, Die
<1> DEFINE Leave(g) == [leave EXCEPT !.n = sent[g] + 1]
<1>7. ASSUME NEW g \in Fusionees
      PROVE  /\ Leave(g) \in Msg /\ Leave(g).n = sent[g] + 1 /\ Leave(g).cb = Nobody
             /\ packets[g] \in Seq(Packet) /\ prev[g] \in Seq(Packet) /\ sent[g] \in Nat /\ got[g] \in Nat
  <2>1. packets[g] \in Seq(Packet) /\ prev[g] \in Seq(Packet) /\ sent[g] \in Nat /\ got[g] \in Nat
    BY <1>0 DEF QueueTypes
  <2>2. sent[g] + 1 \in Nat
    BY <2>1
  <2> QED BY <1>3, <2>1, <2>2, Renumber
<1> HIDE DEF Leave
<1>8. ASSUME NEW g \in Fusionees
      PROVE  packets'[g] = IF g = f THEN <<>>
                           ELSE IF g \in told THEN Put(packets[g], Leave(g)) ELSE packets[g]
  BY <1>5 DEF Leave
<1>9. ASSUME NEW g \in Fusionees
      PROVE  /\ packets'[g] \in Seq(Packet)
             /\ \A c \in Contexts :
                  Times(c, Content(packets'[g])) = IF g = f THEN 0 ELSE Times(c, Content(packets[g]))
  <2>1. CASE g = f
    BY <1>8, <2>1, EmptySeq, ContentEmpty, TimesEmpty
  <2>2. CASE g # f /\ g \in told
    <3>1. packets'[g] = Put(packets[g], Leave(g))
      BY <1>8, <2>2
    <3>2. Put(packets[g], Leave(g)) \in Seq(Packet)
      BY <1>7, PutFacts
    <3>3. ASSUME NEW c \in Contexts
          PROVE  Times(c, Content(Put(packets[g], Leave(g)))) = Times(c, Content(packets[g]))
      <4>1. Times(c, Content(Put(packets[g], Leave(g)))) = Times(c, Content(packets[g])) + Bears(Leave(g), c)
        BY <1>7, TimesPut
      <4>2. Bears(Leave(g), c) = 0
        <5>1. c # Nobody
          BY MessagesAssumption
        <5> QED BY <1>7, <5>1 DEF Bears
      <4>3. Times(c, Content(packets[g])) \in Nat
        BY <1>0, LoadType
      <4> QED BY <4>1, <4>2, <4>3
    <3> QED BY <2>2, <3>1, <3>2, <3>3
  <2>3. CASE g # f /\ g \notin told
    BY <1>7, <1>8, <2>3
  <2> QED BY <2>1, <2>2, <2>3
<1>10. PICK q \in Seq(Packet) : q = prev[f] \o packets[f]
  BY <1>7, ConcatProperties
<1>11. /\ ran' \in [Contexts -> Nat]
       /\ \A c \in Contexts : ran'[c] = ran[c] + Times(c, Content(q)) /\ Times(c, Content(q)) \in Nat
  BY <1>0, <1>4, <1>10, RunFacts
<1>12. \A c \in Contexts : Times(c, Content(q)) = Load(c, f)
  BY <1>7, <1>10, TimesPackets DEF Load
<1>13. QueueTypes'
  <2>1. packets' \in [Fusionees -> Seq(Packet)]
    BY <1>5, <1>9
  <2>2. prev' \in [Fusionees -> Seq(Packet)] /\ processing' \in [Fusionees -> Seq(Msg)]
    <3>1. <<>> \in Seq(Packet) /\ <<>> \in Seq(Msg)
      BY EmptySeq
    <3> QED BY <1>0, <1>4, <3>1 DEF QueueTypes
  <2>3. sent' \in [Fusionees -> Nat] /\ got' \in [Fusionees -> Nat]
    BY <1>0, <1>4, <1>5 DEF QueueTypes
  <2> QED BY <1>11, <2>1, <2>2, <2>3 DEF QueueTypes
<1>14. /\ prev'[f] = <<>> /\ processing'[f] = <<>>
       /\ \A g \in Fusionees \ {f} : prev'[g] = prev[g] /\ processing'[g] = processing[g]
  BY <1>0, <1>4 DEF QueueTypes
<1>15. WorkIsKept'
  <2>1. ASSUME NEW c \in Contexts, NEW g \in Fusionees
        PROVE  Times(c, processing'[g]) = Times(c, Content(prev'[g]))
    <3>1. CASE g = f
      BY <1>14, <3>1, ContentEmpty, TimesEmpty
    <3>2. CASE g # f
      BY <1>0, <1>14, <3>2 DEF WorkIsKept
    <3> QED BY <3>1, <3>2
  <2> QED BY <2>1 DEF WorkIsKept
<1>16. ASSUME NEW c \in Contexts, NEW g \in Fusionees
       PROVE  Load(c, g)' = IF g = f THEN 0 ELSE Load(c, g)
  <2>1. Load(c, g)' = Times(c, Content(prev'[g])) + Times(c, Content(packets'[g]))
    BY DEF Load
  <2>2. CASE g = f
    <3>1. Times(c, Content(prev'[g])) = 0 /\ Times(c, Content(packets'[g])) = 0
      BY <1>9, <1>14, <2>2, ContentEmpty, TimesEmpty
    <3> QED BY <2>1, <2>2, <3>1
  <2>3. CASE g # f
    <3>1. Times(c, Content(packets'[g])) = Times(c, Content(packets[g])) /\ prev'[g] = prev[g]
      BY <1>9, <1>14, <2>3
    <3> QED BY <2>1, <2>3, <3>1 DEF Load
  <2> QED BY <2>2, <2>3
<1>17. TaskTypes' /\ \A c : InHand(c)' = InHand(c)
  BY <1>0, <1>4, TasksSame
<1>18. Places'
  <2>1. Fusionees \ live' \subseteq killed'
    BY <1>0, <1>4, <1>6 DEF Places
  <2>2. pc' = pc /\ obj' = obj
    BY <1>4 DEF tasks
  <2> QED BY <1>0, <2>1, <2>2 DEF Places
<1>19. Ordered'
  <2>1. ASSUME NEW g \in live' PROVE Numbered(packets'[g], got'[g], sent'[g])
    <3>1. g # f /\ g \in live /\ g \in Fusionees
      BY <1>0, <1>4
    <3>2. Numbered(packets[g], got[g], sent[g])
      BY <1>0, <3>1 DEF Ordered
    <3>3. CASE g \in told
      <4>1. packets'[g] = Put(packets[g], Leave(g)) /\ sent'[g] = sent[g] + 1 /\ got'[g] = got[g]
        BY <1>4, <1>5, <1>8, <3>1, <3>3
      <4>2. Numbered(Put(packets[g], Leave(g)), got[g], sent[g] + 1)
        BY <1>7, <3>1, <3>2, NumberedPut
      <4> QED BY <4>1, <4>2
    <3>4. CASE g \notin told
      <4>1. packets'[g] = packets[g] /\ sent'[g] = sent[g] /\ got'[g] = got[g]
        BY <1>4, <1>5, <1>7, <1>8, <3>1, <3>4
      <4> QED BY <3>2, <4>1
    <3> QED BY <3>3, <3>4
  <2> QED BY <2>1 DEF Ordered
<1>20. ASSUME NEW c \in Contexts PROVE OncePlaced(c)'
  <2>1. OncePlaced(c)
    BY DEF IInv, CallbackInv
  <2>2. PICK x \in Nat : x = Load(c, f)
    BY <1>0, LoadType
  <2>3. ran[c] \in Nat /\ ran'[c] = ran[c] + x
    BY <1>0, <1>11, <1>12, <2>2 DEF QueueTypes
  <2>4. \A g \in Fusionees : Load(c, g)' \in Nat
    BY <1>0, <1>16, LoadType
  <2>5. Load(c, f) = Load(c, f)' + x /\ \A g \in Fusionees \ {f} : Load(c, g)' = Load(c, g)
    BY <1>16, <2>2
  <2> QED BY <1>17, <2>1, <2>3, <2>4, <2>5, RunsOnce
<1>21. live' \subseteq Fusionees
  BY <1>0, <1>4
<1> QED BY <1>0, <1>4, <1>13, <1>15, <1>17, <1>18, <1>19, <1>20, <1>21
        DEF IInv, Types, CallbackInv, WorkIsKept

LEMMA InitIInv == Init => IInv
<1> SUFFICES ASSUME Init PROVE IInv
  OBVIOUS
<1>0. /\ live = Fusionees
      /\ packets = [f \in Fusionees |-> <<>>] /\ prev = [f \in Fusionees |-> <<>>]
      /\ waiting = [f \in Fusionees |-> FALSE] /\ pc = [t \in Tasks |-> "user"]
      /\ obj = [t \in Tasks |-> Nobody] /\ arg = [t \in Tasks |-> NoMessage]
      /\ sent = [f \in Fusionees |-> 0] /\ got = [f \in Fusionees |-> 0]
      /\ processing = [f \in Fusionees |-> <<>>] /\ ran = [c \in Contexts |-> 0]
  BY DEF Init
<1>1. QueueTypes
  <2>1. <<>> \in Seq(Packet) /\ <<>> \in Seq(Msg)
    BY EmptySeq
  <2> QED BY <1>0, <2>1 DEF QueueTypes
<1>2. TaskTypes
  BY <1>0, NoMessageFacts DEF TaskTypes
<1>3. Places
  BY <1>0 DEF Places
<1>4. Ordered
  <2>1. Len(Content(<<>>)) = 0
    BY ContentEmpty
  <2>2. Numbered(<<>>, 0, 0)
    BY <2>1 DEF Numbered
  <2> QED BY <1>0, <2>2 DEF Ordered
<1>5. ASSUME NEW c \in Contexts
      PROVE  OncePlaced(c) /\ \A f \in Fusionees : Times(c, processing[f]) = Times(c, Content(prev[f]))
  <2>1. Times(c, <<>>) = 0 /\ Times(c, Content(<<>>)) = 0
    BY TimesEmpty, ContentEmpty
  <2>2. \A f \in Fusionees : Load(c, f) = 0
    BY <1>0, <2>1 DEF Load
  <2>3. InHand(c) = {} /\ ran[c] <= 1
    BY <1>0 DEF InHand
  <2> QED BY <1>0, <2>1, <2>2, <2>3 DEF OncePlaced, Idles
<1> QED BY <1>0, <1>1, <1>2, <1>3, <1>4, <1>5 DEF IInv, Types, CallbackInv

LEMMA StepIInv == IInv /\ [Next]_vars => IInv'
<1> SUFFICES ASSUME IInv, [Next]_vars PROVE IInv'
  OBVIOUS
<1>1. ASSUME NEW t \in Senders, Sending(t) PROVE IInv'
  <2>0. t \in Tasks
    BY MessagesAssumption
  <2>1. PICK f \in Fusionees, flush \in BOOLEAN :
          \/ Send(t, f, Nobody, flush)
          \/ \E c \in Contexts : Unused(c) /\ Send(t, f, c, flush)
    BY <1>1 DEF Sending
  <2>2. CASE Send(t, f, Nobody, flush)
    <3>1. Nobody \in Contexts \cup {Nobody} /\ Nobody \notin Contexts
      BY MessagesAssumption
    <3> QED BY <2>0, <2>2, <3>1, SendStep
  <2>3. CASE \E c \in Contexts : Unused(c) /\ Send(t, f, c, flush)
    <3>1. PICK c \in Contexts : Unused(c) /\ Send(t, f, c, flush)
      BY <2>3
    <3>2. c \in Contexts \cup {Nobody}
      OBVIOUS
    <3> QED BY <2>0, <3>1, <3>2, SendStep
  <2> QED BY <2>1, <2>2, <2>3
<1>2. ASSUME NEW t \in Senders, Sync(t) PROVE IInv'
  <2>1. t \in Tasks /\ pc[t] # "send" /\ Synced(t, Owner[t]) /\ UNCHANGED <<live, readers, killed>>
    BY <1>2, MessagesAssumption DEF Sync, InUser
  <2> QED BY <2>1, SyncedStep
<1>3. ASSUME NEW t \in Tasks, Receive(t) PROVE IInv'
  BY <1>3, ReceiveStep
<1>4. ASSUME NEW t \in Tasks, Poll(t) PROVE IInv'
  BY <1>4, PollStep
<1>5. ASSUME NEW t \in Tasks, ResumeSend(t) PROVE IInv'
  BY <1>5, ResumeSendStep
<1>6. ASSUME NEW t \in Tasks, ResumeReceive(t) PROVE IInv'
  BY <1>6, ResumeReceiveStep
<1>7. ASSUME NEW t \in Tasks, ResumeSync(t) PROVE IInv'
  <2>1. pc[t] = "sync" /\ UNCHANGED <<live, readers, killed>>
    BY <1>7 DEF ResumeSync
  <2>2. CASE Owner[t] \in killed
    <3>1. Return(t) /\ UNCHANGED queues /\ live' = live /\ killed' = killed /\ waiting' = waiting
      BY <1>7, <2>1, <2>2 DEF ResumeSync, readers
    <3>2. waiting' \in [Fusionees -> BOOLEAN]
      BY <3>1 DEF IInv, Types
    <3> QED BY <3>1, <3>2, DropStep
  <2>3. CASE Owner[t] \notin killed
    <3>1. Synced(t, obj[t])
      BY <1>7, <2>3 DEF ResumeSync
    <3>2. obj[t] = Owner[t] /\ pc[t] # "send"
      BY <2>1 DEF IInv, Places
    <3> QED BY <2>1, <3>1, <3>2, SyncedStep
  <2> QED BY <2>2, <2>3
<1>8. ASSUME NEW f \in Fusionees, Kill(f) PROVE IInv'
  <2>1. UNCHANGED <<queues, tasks>> /\ live' = live /\ waiting' = waiting /\ killed \subseteq killed'
    BY <1>8 DEF Kill, Die, readers
  <2>2. waiting' \in [Fusionees -> BOOLEAN]
    BY <2>1 DEF IInv, Types
  <2> QED BY <2>1, <2>2, QuietStep
<1>9. ASSUME NEW f \in Fusionees, Release(f) PROVE IInv'
  BY <1>9, ReleaseStep
<1>10. CASE UNCHANGED vars
  <2>1. UNCHANGED <<queues, tasks>> /\ live' = live /\ waiting' = waiting /\ killed \subseteq killed'
    BY <1>10 DEF vars, readers
  <2>2. waiting' \in [Fusionees -> BOOLEAN]
    BY <2>1 DEF IInv, Types
  <2> QED BY <2>1, <2>2, QuietStep
<1> QED BY <1>1, <1>2, <1>3, <1>4, <1>5, <1>6, <1>7, <1>8, <1>9, <1>10 DEF Next, Resume

\* The invariant: what the queues hold, and where each callback is (fusionee.c).
THEOREM MessagesInvariant == Spec => []IInv
<1>1. Init => IInv
  BY InitIInv
<1>2. IInv /\ [Next]_vars => IInv'
  BY StepIInv
<1> QED BY <1>1, <1>2, PTL DEF Spec

-----------------------------------------------------------------------------
(* What follows *)

\* Every message is read once, in the order of sending (fusionee_get_messages,
\* Fusionee_GetPacket).
THEOREM MessagesInOrder == Spec => []ReadInOrder
<1>1. IInv => ReadInOrder
  BY DEF IInv, Ordered, Numbered, ReadInOrder
<1> QED BY <1>1, MessagesInvariant, PTL

LEMMA CountOfPlaces ==
  ASSUME IInv, NEW c \in Contexts
  PROVE  Cardinality(InQueues(c)) + Cardinality(InHand(c)) + ran[c] <= 1
<1>0. QueueTypes /\ OncePlaced(c)
  BY DEF IInv, Types, CallbackInv
<1> DEFINE Here(f) == At(c, Content(prev[f] \o packets[f]))
<1>1. ASSUME NEW f \in Fusionees
      PROVE  IsFiniteSet(Here(f)) /\ Cardinality(Here(f)) = Load(c, f)
  <2>1. prev[f] \in Seq(Packet) /\ packets[f] \in Seq(Packet)
    BY <1>0 DEF QueueTypes
  <2>2. PICK s \in Seq(Msg) : s = Content(prev[f] \o packets[f])
    <3>1. prev[f] \o packets[f] \in Seq(Packet)
      BY <2>1, ConcatProperties
    <3> QED BY <3>1, ContentType
  <2>3. IsFiniteSet(At(c, s)) /\ Cardinality(At(c, s)) = Times(c, s)
    BY AtFinite DEF Times
  <2>4. Times(c, s) = Load(c, f)
    BY <2>1, <2>2, TimesPackets DEF Load
  <2> QED BY <2>2, <2>3, <2>4
<1>2. ASSUME NEW f \in Fusionees, Load(c, f) = 0 PROVE Here(f) = {}
  BY <1>1, <1>2, FS_EmptySet
<1>3. InQueues(c) = UNION {{f} \X Here(f) : f \in Fusionees}
  BY DEF InQueues
<1> HIDE DEF Here
<1>4. ASSUME \A f \in Fusionees : Load(c, f) = 0 PROVE InQueues(c) = {}
  BY <1>2, <1>3, <1>4
<1>5. Cardinality({}) = 0
  BY FS_EmptySet
<1>6. CASE Idles(c)
  <2>1. InQueues(c) = {} /\ InHand(c) = {} /\ ran[c] <= 1 /\ ran[c] \in Nat
    BY <1>0, <1>4, <1>6 DEF Idles, QueueTypes
  <2> QED BY <1>5, <2>1
<1>7. CASE Queued(c)
  <2>1. PICK g \in Fusionees : \A f \in Fusionees : Load(c, f) = IF f = g THEN 1 ELSE 0
    BY <1>7 DEF Queued
  <2>2. PICK i : Here(g) = {i}
    <3>1. IsFiniteSet(Here(g)) /\ Cardinality(Here(g)) = 1
      BY <1>1, <2>1
    <3> QED BY <3>1, FS_Singleton
  <2>3. InQueues(c) = {<<g, i>>}
    BY <1>2, <1>3, <2>1, <2>2
  <2>4. Cardinality(InQueues(c)) = 1
    BY <2>3, FS_Singleton
  <2>5. InHand(c) = {} /\ ran[c] = 0
    BY <1>7 DEF Queued
  <2> QED BY <1>5, <2>4, <2>5
<1>8. CASE Held(c)
  <2>1. InQueues(c) = {} /\ ran[c] = 0
    BY <1>4, <1>8 DEF Held
  <2>2. PICK t \in Tasks : InHand(c) = {t}
    BY <1>8 DEF Held
  <2>3. Cardinality(InHand(c)) = 1
    BY <2>2, FS_Singleton
  <2> QED BY <1>5, <2>1, <2>3
<1> QED BY <1>0, <1>6, <1>7, <1>8 DEF OncePlaced

\* A callback is pending at one place or has run, once; and what is being worked on
\* is what has callbacks that did not run yet (flush_packets, prev_packets).
THEOREM CallbacksOnce == Spec => []CallbackOnceProcessed
<1>1. ASSUME IInv PROVE CallbackOnceProcessed
  <2>1. \A c \in Contexts : Cardinality(InQueues(c)) + Cardinality(InHand(c)) + ran[c] <= 1
    BY <1>1, CountOfPlaces
  <2>2. \A c \in Contexts : \A f \in live : Times(c, processing[f]) = Times(c, Content(prev[f]))
    BY <1>1 DEF IInv, Types, CallbackInv
  <2> QED BY <2>1, <2>2 DEF CallbackOnceProcessed
<1>2. IInv => CallbackOnceProcessed
  BY <1>1
<1> QED BY <1>2, MessagesInvariant, PTL

-----------------------------------------------------------------------------
(* What a task that syncs waits for *)

Reading == {t \in Tasks : pc[t] = "receive"}

LEMMA WaitKept ==
  ASSUME WaitInv, processing' = processing, waiting' = waiting, Reading' = Reading
  PROVE  WaitInv'
<1>1. \A t \in Tasks : pc'[t] = "receive" <=> pc[t] = "receive"
  BY DEF Reading
<1> QED BY <1>1 DEF WaitInv

LEMMA ReadingElse ==
  ASSUME TaskTypes, NEW t \in Tasks, pc[t] # "receive",
         pc' = pc \/ \E where \in {"user", "send", "sync"} : pc' = [pc EXCEPT ![t] = where]
  PROVE  Reading' = Reading
BY DEF Reading, TaskTypes

LEMMA AttemptWait ==
  ASSUME IInv, WaitInv, NEW t \in Tasks, pc[t] # "receive", NEW f, NEW m, Attempt(t, f, m),
         UNCHANGED readers
  PROVE  WaitInv'
<1>1. processing' = processing /\ waiting' = waiting
  BY DEF Attempt, Deliver, queues, readers
<1>2. \E where \in {"user", "send", "sync"} : pc' = [pc EXCEPT ![t] = where]
  BY DEF Attempt, Return, Sleep
<1>3. Reading' = Reading
  BY <1>2, ReadingElse DEF IInv, Types
<1> QED BY <1>1, <1>3, WaitKept

LEMMA SyncedWait ==
  ASSUME IInv, WaitInv, NEW t \in Tasks, pc[t] # "receive", NEW f, Synced(t, f), UNCHANGED readers
  PROVE  WaitInv'
<1>1. processing' = processing /\ waiting' = waiting
  BY DEF Synced, queues, readers
<1>2. \E where \in {"user", "send", "sync"} : pc' = [pc EXCEPT ![t] = where]
  BY DEF Synced, Return, Sleep
<1>3. Reading' = Reading
  BY <1>2, ReadingElse DEF IInv, Types
<1> QED BY <1>1, <1>3, WaitKept

\* The only reader of a fusionee.
LEMMA OnlyReader ==
  ASSUME OneDispatcher, IInv, NEW t \in Dispatchers, NEW u \in Tasks, pc[u] = "receive", Owner[u] = Owner[t]
  PROVE  u = t
<1>1. u \in Dispatchers
  BY DEF IInv, Places
<1> QED BY <1>1 DEF OneDispatcher

LEMMA ReceiveWait ==
  ASSUME OneDispatcher, IInv, WaitInv, NEW t \in Tasks, Receive(t)
  PROVE  WaitInv'
<1> DEFINE f == Owner[t]
<1>0. QueueTypes /\ TaskTypes /\ waiting \in [Fusionees -> BOOLEAN] /\ f \in Fusionees
  BY MessagesAssumption DEF IInv, Types
<1>1. t \in Dispatchers /\ pc[t] = "user"
  BY DEF Receive, InUser
<1>2. \A u \in Tasks : pc[u] = "receive" => Owner[u] # f
  BY <1>1, OnlyReader
<1>3. \A g \in Fusionees : waiting[g] => \E u \in Tasks : Owner[u] = g /\ pc[u] = "receive"
  BY DEF WaitInv
<1>4. \A u \in Tasks : pc[u] = "receive" => processing[Owner[u]] = <<>> /\ Owner[u] \in Fusionees
  BY MessagesAssumption DEF WaitInv
<1>5. CASE Readable(packets[f])
  <2>1. /\ waiting' = waiting /\ pc' = pc
        /\ \E m : processing' = [processing EXCEPT ![f] = m]
    BY <1>5 DEF Receive, Read, tasks
  <2>2. \A u \in Tasks : pc[u] = "receive" => processing'[Owner[u]] = processing[Owner[u]]
    BY <1>0, <1>2, <1>4, <2>1 DEF QueueTypes
  <2> QED BY <1>3, <1>4, <2>1, <2>2 DEF WaitInv
<1>6. CASE ~Readable(packets[f])
  <2>1. /\ waiting' = [waiting EXCEPT ![f] = TRUE] /\ processing' = [processing EXCEPT ![f] = <<>>]
        /\ pc' = [pc EXCEPT ![t] = "receive"]
    BY <1>6 DEF Receive, Sleep
  <2>2. /\ pc'[t] = "receive" /\ \A u \in Tasks \ {t} : pc'[u] = pc[u]
        /\ processing'[f] = <<>>
        /\ \A g \in Fusionees \ {f} : waiting'[g] = waiting[g] /\ processing'[g] = processing[g]
    BY <1>0, <2>1 DEF QueueTypes, TaskTypes
  <2> HIDE DEF f
  <2>3. ASSUME NEW u \in Tasks, pc'[u] = "receive" PROVE processing'[Owner[u]] = <<>>
    <3>1. CASE u = t
      BY <2>2, <3>1 DEF f
    <3>2. CASE u # t
      BY <1>2, <1>4, <2>2, <2>3, <3>2
    <3> QED BY <3>1, <3>2
  <2>4. ASSUME NEW g \in Fusionees, waiting'[g] PROVE \E u \in Tasks : Owner[u] = g /\ pc'[u] = "receive"
    <3>1. CASE g = f
      BY <2>2, <3>1 DEF f
    <3>2. CASE g # f
      <4>1. PICK u \in Tasks : Owner[u] = g /\ pc[u] = "receive"
        BY <1>3, <2>2, <2>4, <3>2
      <4>2. u # t
        BY <1>1, <4>1
      <4> QED BY <2>2, <4>1, <4>2
    <3> QED BY <3>1, <3>2
  <2> QED BY <2>3, <2>4 DEF WaitInv
<1> QED BY <1>5, <1>6

LEMMA ResumeReceiveWait ==
  ASSUME OneDispatcher, IInv, WaitInv, NEW t \in Tasks, ResumeReceive(t)
  PROVE  WaitInv'
<1> DEFINE f == Owner[t]
<1>0. QueueTypes /\ TaskTypes /\ waiting \in [Fusionees -> BOOLEAN] /\ f \in Fusionees
  BY MessagesAssumption DEF IInv, Types
<1>1. pc[t] = "receive" /\ obj[t] = f /\ t \in Dispatchers
  BY DEF ResumeReceive, IInv, Places
<1>2. \A u \in Tasks : pc[u] = "receive" /\ Owner[u] = f => u = t
  BY <1>1, OnlyReader
<1>3. \A g \in Fusionees : waiting[g] => \E u \in Tasks : Owner[u] = g /\ pc[u] = "receive"
  BY DEF WaitInv
<1>4. \A u \in Tasks : pc[u] = "receive" => processing[Owner[u]] = <<>> /\ Owner[u] \in Fusionees
  BY MessagesAssumption DEF WaitInv
<1>5. CASE f \in killed \/ Readable(packets[f])
  <2>1. /\ waiting' = [waiting EXCEPT ![f] = FALSE] /\ pc' = [pc EXCEPT ![t] = "user"]
        /\ processing' = processing \/ \E m : processing' = [processing EXCEPT ![f] = m]
    <3>1. CASE f \in killed
      BY <1>1, <3>1 DEF ResumeReceive, Return, queues
    <3>2. CASE f \notin killed /\ Readable(packets[f])
      BY <1>1, <3>2 DEF ResumeReceive, Return, Read
    <3> QED BY <1>5, <3>1, <3>2
  <2>2. /\ pc'[t] = "user" /\ \A u \in Tasks \ {t} : pc'[u] = pc[u]
        /\ ~waiting'[f]
        /\ \A g \in Fusionees \ {f} : waiting'[g] = waiting[g] /\ processing'[g] = processing[g]
    BY <1>0, <2>1 DEF QueueTypes, TaskTypes
  <2> HIDE DEF f
  <2>3. ASSUME NEW u \in Tasks, pc'[u] = "receive" PROVE processing'[Owner[u]] = <<>>
    <3>1. u # t /\ pc[u] = "receive"
      BY <2>2, <2>3
    <3>2. Owner[u] # f
      BY <1>2, <3>1
    <3> QED BY <1>4, <2>2, <3>1, <3>2
  <2>4. ASSUME NEW g \in Fusionees, waiting'[g] PROVE \E u \in Tasks : Owner[u] = g /\ pc'[u] = "receive"
    <3>1. g # f
      BY <2>2, <2>4
    <3>2. PICK u \in Tasks : Owner[u] = g /\ pc[u] = "receive"
      BY <1>3, <2>2, <2>4, <3>1
    <3>3. u # t
      BY <3>1, <3>2 DEF f
    <3> QED BY <2>2, <3>2, <3>3
  <2> QED BY <2>3, <2>4 DEF WaitInv
<1>6. CASE f \notin killed /\ ~Readable(packets[f])
  <2>1. waiting' = [waiting EXCEPT ![f] = TRUE] /\ processing' = processing /\ pc' = pc
    BY <1>1, <1>6 DEF ResumeReceive, queues, tasks
  <2>2. ASSUME NEW g \in Fusionees, waiting'[g] PROVE \E u \in Tasks : Owner[u] = g /\ pc[u] = "receive"
    <3>1. CASE g = f
      BY <1>1, <3>1
    <3>2. CASE g # f
      <4>1. waiting[g]
        BY <1>0, <2>1, <2>2, <3>2
      <4> QED BY <1>3, <4>1
    <3> QED BY <3>1, <3>2
  <2> QED BY <1>4, <2>1, <2>2 DEF WaitInv
<1> QED BY <1>5, <1>6

\* What is being worked on is done, or the fusionee is gone.
LEMMA DoneWait ==
  ASSUME IInv, WaitInv, NEW f, processing' = [processing EXCEPT ![f] = <<>>],
         waiting' = waiting, pc' = pc
  PROVE  WaitInv'
<1>1. ASSUME NEW u \in Tasks, pc[u] = "receive" PROVE processing'[Owner[u]] = <<>>
  <2>1. Owner[u] \in Fusionees /\ processing[Owner[u]] = <<>>
    BY <1>1, MessagesAssumption DEF WaitInv
  <2> QED BY <2>1 DEF IInv, Types, QueueTypes
<1> QED BY <1>1 DEF WaitInv

LEMMA StepWait ==
  ASSUME OneDispatcher, IInv, WaitInv, [Next]_vars
  PROVE  WaitInv'
<1>1. ASSUME NEW t \in Senders, Sending(t) PROVE WaitInv'
  <2>1. PICK f, m : t \in Tasks /\ pc[t] # "receive" /\ Attempt(t, f, m) /\ UNCHANGED readers
    BY <1>1, MessagesAssumption DEF Sending, Send, InUser
  <2> QED BY <2>1, AttemptWait
<1>2. ASSUME NEW t \in Senders, Sync(t) PROVE WaitInv'
  <2>1. t \in Tasks /\ pc[t] # "receive" /\ Synced(t, Owner[t]) /\ UNCHANGED readers
    BY <1>2, MessagesAssumption DEF Sync, InUser
  <2> QED BY <2>1, SyncedWait
<1>3. ASSUME NEW t \in Tasks, Receive(t) PROVE WaitInv'
  BY <1>3, ReceiveWait
<1>4. ASSUME NEW t \in Tasks, Poll(t) PROVE WaitInv'
  <2>1. /\ processing' = [processing EXCEPT ![Owner[t]] = <<>>]
        /\ waiting' = waiting /\ pc' = pc
    BY <1>4 DEF Poll, tasks
  <2> QED BY <2>1, DoneWait
<1>5. ASSUME NEW t \in Tasks, ResumeSend(t) PROVE WaitInv'
  <2>0. pc[t] # "receive" /\ UNCHANGED readers
    BY <1>5 DEF ResumeSend
  <2>1. CASE Owner[t] \notin killed
    <3>1. PICK f, m : Attempt(t, f, m)
      BY <1>5, <2>1 DEF ResumeSend
    <3> QED BY <2>0, <3>1, AttemptWait
  <2>2. CASE Owner[t] \in killed
    <3>1. /\ processing' = processing /\ waiting' = waiting
          /\ \E where \in {"user", "send", "sync"} : pc' = [pc EXCEPT ![t] = where]
      BY <1>5, <2>0, <2>2 DEF ResumeSend, Return, queues, readers
    <3>2. Reading' = Reading
      BY <2>0, <3>1, ReadingElse DEF IInv, Types
    <3> QED BY <3>1, <3>2, WaitKept
  <2> QED BY <2>1, <2>2
<1>6. ASSUME NEW t \in Tasks, ResumeReceive(t) PROVE WaitInv'
  BY <1>6, ResumeReceiveWait
<1>7. ASSUME NEW t \in Tasks, ResumeSync(t) PROVE WaitInv'
  <2>0. pc[t] # "receive" /\ UNCHANGED readers
    BY <1>7 DEF ResumeSync
  <2>1. CASE Owner[t] \notin killed
    <3>1. Synced(t, obj[t])
      BY <1>7, <2>1 DEF ResumeSync
    <3> QED BY <2>0, <3>1, SyncedWait
  <2>2. CASE Owner[t] \in killed
    <3>1. /\ processing' = processing /\ waiting' = waiting
          /\ \E where \in {"user", "send", "sync"} : pc' = [pc EXCEPT ![t] = where]
      BY <1>7, <2>0, <2>2 DEF ResumeSync, Return, queues, readers
    <3>2. Reading' = Reading
      BY <2>0, <3>1, ReadingElse DEF IInv, Types
    <3> QED BY <3>1, <3>2, WaitKept
  <2> QED BY <2>1, <2>2
<1>8. ASSUME NEW f \in Fusionees, Kill(f) PROVE WaitInv'
  <2>1. processing' = processing /\ waiting' = waiting /\ pc' = pc
    BY <1>8 DEF Kill, queues, readers, tasks
  <2> QED BY <2>1, WaitKept DEF Reading
<1>9. ASSUME NEW f \in Fusionees, Release(f) PROVE WaitInv'
  <2>1. processing' = [processing EXCEPT ![f] = <<>>] /\ waiting' = waiting /\ pc' = pc
    BY <1>9 DEF Release, readers, tasks
  <2> QED BY <2>1, DoneWait
<1>10. CASE UNCHANGED vars
  <2>1. processing' = processing /\ waiting' = waiting /\ pc' = pc
    BY <1>10 DEF vars, queues, readers, tasks
  <2> QED BY <2>1, WaitKept DEF Reading
<1> QED BY <1>1, <1>2, <1>3, <1>4, <1>5, <1>6, <1>7, <1>8, <1>9, <1>10 DEF Next, Resume

\* The queue of a fusionee that is idle was read to its end and processed.
LEMMA IdleIs ==
  ASSUME IInv, WaitInv, NEW f \in live, Idle(f)
  PROVE  got[f] = sent[f] /\ processing[f] = <<>>
<1>0. f \in Fusionees /\ got[f] \in Nat /\ sent[f] \in Nat
  BY DEF IInv, Types, QueueTypes
<1>1. Len(Content(packets[f])) = sent[f] - got[f]
  BY DEF IInv, Ordered, Numbered
<1>2. Len(Content(packets[f])) = 0
  BY ContentEmpty DEF Idle
<1>3. processing[f] = <<>>
  BY <1>0 DEF Idle, WaitInv
<1> QED BY <1>0, <1>1, <1>2, <1>3

LEMMA SyncStep ==
  ASSUME IInv, WaitInv, [Next]_vars, NEW t \in Tasks, pc[t] = "sync", pc'[t] = "user", Owner[t] \notin killed
  PROVE  Idle(Owner[t])
<1>0. TaskTypes
  BY DEF IInv, Types
<1>1. ASSUME NEW u \in Senders, Sending(u) PROVE FALSE
  <2>1. PICK f, m : u \in Tasks /\ pc[u] = "user" /\ Attempt(u, f, m)
    BY <1>1, MessagesAssumption DEF Sending, Send, InUser
  <2>2. \E where : pc' = [pc EXCEPT ![u] = where]
    BY <2>1 DEF Attempt, Return, Sleep
  <2> QED BY <1>0, <2>1, <2>2 DEF TaskTypes
<1>2. ASSUME NEW u \in Senders, Sync(u) PROVE FALSE
  <2>1. u \in Tasks /\ pc[u] = "user" /\ Synced(u, Owner[u])
    BY <1>2, MessagesAssumption DEF Sync, InUser
  <2>2. \E where : pc' = [pc EXCEPT ![u] = where]
    BY <2>1 DEF Synced, Return, Sleep
  <2> QED BY <1>0, <2>1, <2>2 DEF TaskTypes
<1>3. ASSUME NEW u \in Tasks, Receive(u) PROVE FALSE
  <2>1. pc[u] = "user" /\ (pc' = pc \/ \E where : pc' = [pc EXCEPT ![u] = where])
    BY <1>3 DEF Receive, InUser, Sleep, tasks
  <2> QED BY <1>0, <2>1 DEF TaskTypes
<1>4. ASSUME NEW u \in Tasks, Poll(u) PROVE FALSE
  BY <1>4 DEF Poll, tasks
<1>5. ASSUME NEW u \in Tasks, ResumeSend(u) PROVE FALSE
  <2>1. pc[u] = "send" /\ \E where : pc' = [pc EXCEPT ![u] = where]
    BY <1>5 DEF ResumeSend, Attempt, Return, Sleep
  <2> QED BY <1>0, <2>1 DEF TaskTypes
<1>6. ASSUME NEW u \in Tasks, ResumeReceive(u) PROVE FALSE
  <2>1. pc[u] = "receive" /\ (pc' = pc \/ \E where : pc' = [pc EXCEPT ![u] = where])
    BY <1>6 DEF ResumeReceive, Return, tasks
  <2> QED BY <1>0, <2>1 DEF TaskTypes
<1>7. ASSUME NEW u \in Tasks, ResumeSync(u) PROVE Idle(Owner[t])
  <2>1. \E where : pc' = [pc EXCEPT ![u] = where]
    BY <1>7 DEF ResumeSync, Synced, Return, Sleep
  <2>2. u = t
    BY <1>0, <2>1 DEF TaskTypes
  <2>3. Synced(t, obj[t]) /\ obj[t] = Owner[t]
    BY <1>7, <2>2 DEF ResumeSync, IInv, Places
  <2>4. CASE ~Idle(Owner[t])
    <3>1. pc' = [pc EXCEPT ![t] = "sync"]
      BY <2>3, <2>4 DEF Synced, Sleep
    <3> QED BY <1>0, <3>1 DEF TaskTypes
  <2> QED BY <2>4
<1>8. ASSUME NEW f \in Fusionees, Kill(f) PROVE FALSE
  BY <1>8 DEF Kill, tasks
<1>9. ASSUME NEW f \in Fusionees, Release(f) PROVE FALSE
  BY <1>9 DEF Release, tasks
<1>10. CASE UNCHANGED vars
  BY <1>10 DEF vars, tasks
<1> QED BY <1>1, <1>2, <1>3, <1>4, <1>5, <1>6, <1>7, <1>8, <1>9, <1>10 DEF Next, Resume

\* A sync returns when everything was read and processed, if a single task reads the
\* messages of each fusionee (fusionee_sync).
THEOREM SyncsWhenIdle == OneDispatcher /\ Spec => SyncIsIdle
<1>0. SUFFICES ASSUME OneDispatcher PROVE Spec => SyncIsIdle
  OBVIOUS
<1>1. Init => WaitInv
  BY DEF Init, WaitInv
<1>2. IInv /\ WaitInv /\ [Next]_vars => WaitInv'
  BY <1>0, StepWait
<1>3. ASSUME IInv, WaitInv, [Next]_vars
      PROVE  [\A t \in Tasks :
                pc[t] = "sync" /\ pc'[t] = "user" /\ Owner[t] \notin killed
                  => got[Owner[t]] = sent[Owner[t]] /\ processing[Owner[t]] = <<>>]_vars
  <2>1. ASSUME NEW t \in Tasks, pc[t] = "sync", pc'[t] = "user", Owner[t] \notin killed
        PROVE  got[Owner[t]] = sent[Owner[t]] /\ processing[Owner[t]] = <<>>
    <3>1. Idle(Owner[t])
      BY <1>3, <2>1, SyncStep
    <3>2. Owner[t] \in live
      BY <1>3, <2>1, MessagesAssumption DEF IInv, Places
    <3> QED BY <1>3, <3>1, <3>2, IdleIs
  <2> QED BY <2>1
<1>4. IInv /\ WaitInv /\ [Next]_vars =>
        [\A t \in Tasks :
           pc[t] = "sync" /\ pc'[t] = "user" /\ Owner[t] \notin killed
             => got[Owner[t]] = sent[Owner[t]] /\ processing[Owner[t]] = <<>>]_vars
  BY <1>3
<1> QED BY <1>1, <1>2, <1>4, MessagesInvariant, PTL DEF Spec, SyncIsIdle

=============================================================================
