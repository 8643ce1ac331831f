--------------------------- MODULE ProgressProofs ---------------------------
(***************************************************************************)
(* For any operations, texts and channel capacity, and whenever the delay  *)
(* elapses, the progress task counts the operations exactly, shows what is *)
(* going on, and implements WorkDoneProgress towards the client.           *)
(***************************************************************************)
EXTENDS Progress, FiniteSetTheorems, SequenceTheorems, TLAPS

-----------------------------------------------------------------------------
(* The inductive invariant.                                                *)

\* How many of the first k events of the queue q are in E.
EventsIn(q, E, k) == Cardinality({i \in 1 .. k : q[i] \in E})

StartsOf(x) == {[text |-> x, finish |-> FALSE]}
EndsOf(x) == {[text |-> x, finish |-> TRUE]}
AnyStart == [text : Texts, finish : {FALSE}]

\* What a count c of x becomes once the first k events of the channel q are handled.
Balance(c, q, x, k) == c + EventsIn(q, StartsOf(x), k) - EventsIn(q, EndsOf(x), k)

Finishing(x) == {o \in Ops : text[o] = x /\ op[o] = "finishing"}
Starting == {o \in Ops : op[o] = "starting"}

\* A caller knows its text until its call of finish is over.
CallersHaveTexts == \A o \in Ops : op[o] # "idle" => text[o] \in Texts

\* No count ever goes below zero: the end of an operation is behind its start.
NeverShort == \A x \in Texts : \A k \in 0 .. Len(ch) : Balance(count[x], ch, x, k) >= 0

\* The counts and the channel account for the operations; after the cancellation,
\* when start and finish send nothing, still for every call of finish in progress.
Balanced ==
  running => \A x \in Texts :
    /\ Balance(count[x], ch, x, Len(ch)) >= Cardinality(Finishing(x))
    /\ ~canceled => Balance(count[x], ch, x, Len(ch)) = Cardinality(Sent(x))

\* Every token is taken for a start event of its own.
TokensLeft == tokenId + EventsIn(ch, AnyStart, Len(ch)) + Cardinality(Starting) <= starts

\* The ordered map has every counted text once.
KeysAreCounted ==
  /\ ToSet(loading) = {x \in Texts : count[x] > 0}
  /\ \A i, j \in DOMAIN loading : loading[i] = loading[j] => i = j

\* There is a token while there are operations; it has begun once the delay is over,
\* and the delay is not armed any more then.
TokenInUse ==
  /\ token \in {NoToken, tokenId}
  /\ token = NoToken <=> loading = <<>>
  /\ armed => token # NoToken /\ ~fired /\ ~begun
  /\ token # NoToken => (begun <=> fired)

Live == token # NoToken /\ begun

Open(t) == stage[t] \in {"created", "begun"}

\* One indicator at a time, and none after it has been created.
OneOpen ==
  \A t \in Tokens : Open(t) =>
    \A u \in Tokens : u # t => ~Open(u) /\ (u > t => stage[u] = "none")

\* What the client allows next, and what may come behind a message in the queue.
Allowed(st, m) ==
  /\ m.kind = "create" =>
       \A u \in Tokens : st[u] \notin {"created", "begun"} /\ (u >= m.token => st[u] = "none")
  /\ m.kind = "begin" => st[m.token] = "created"
  /\ m.kind \in {"report", "end"} => st[m.token] = "begun"

Follows(l, m) ==
  /\ m.kind = "create" => l.kind = "end" /\ l.token < m.token
  /\ m.kind = "begin" => l.kind = "create" /\ l.token = m.token
  /\ m.kind \in {"report", "end"} => l.kind \in {"begin", "report"} /\ l.token = m.token

Texted(m) == m.kind \in {"begin", "report"} => m.text \in Texts

\* The outgoing queue is a run of the protocol that begins where the client is.
Run(q) ==
  /\ \A k \in 1 .. Len(q) : Texted(q[k])
  /\ \A k \in 2 .. Len(q) : Follows(q[k - 1], q[k])
  /\ q # <<>> => Allowed(stage, q[1])
QueueIsRun == Run(out)

\* And it ends where the task is: with an indicator that shows an active text, or
\* with none.
QueueCatchesUp ==
  LET m == out[Len(out)] IN
  /\ out = <<>> /\ Live => stage[token] = "begun" /\ shown \in ToSet(loading)
  /\ out = <<>> /\ ~Live =>
       /\ shown = NoText
       /\ \A u \in Tokens : ~Open(u) /\ (u > tokenId \/ u = token => stage[u] = "none")
  /\ out # <<>> /\ Live =>
       m.kind \in {"begin", "report"} /\ m.token = token /\ m.text \in ToSet(loading)
  /\ out # <<>> /\ ~Live => m.kind = "end" /\ m.token <= tokenId /\ m.token # token

Counting == NeverShort /\ Balanced /\ TokensLeft
Showing == TokenInUse /\ OneOpen /\ QueueIsRun /\ QueueCatchesUp
IInv == TypeOK /\ CallersHaveTexts /\ KeysAreCounted /\ Counting /\ Showing

-----------------------------------------------------------------------------
(* Counting the events of a queue.                                         *)

\* A count of events is a number.
LEMMA EventsInNat ==
  ASSUME NEW q, NEW E, NEW k \in Nat
  PROVE  EventsIn(q, E, k) \in Nat /\ IsFiniteSet({i \in 1 .. k : q[i] \in E})
         /\ EventsIn(q, E, 0) = 0
<1>1. IsFiniteSet(1 .. k)
  <2>1. 1 \in Int /\ k \in Int
    OBVIOUS
  <2> QED
    BY <2>1, FS_Interval, Zenon
<1>2. {i \in 1 .. k : q[i] \in E} \in SUBSET (1 .. k)
  OBVIOUS
<1>3. IsFiniteSet({i \in 1 .. k : q[i] \in E})
  BY <1>1, <1>2, FS_Subset
<1>4. EventsIn(q, E, k) \in Nat
  BY <1>3, FS_CardinalityType DEF EventsIn
<1>5. {i \in 1 .. 0 : q[i] \in E} = {}
  OBVIOUS
<1>6. EventsIn(q, E, 0) = 0
  BY <1>5, FS_EmptySet DEF EventsIn
<1> QED
  BY <1>3, <1>4, <1>6

\* The next event is counted if it is in E.
LEMMA EventsInStep ==
  ASSUME NEW q, NEW E, NEW k \in Nat
  PROVE  EventsIn(q, E, k + 1) = EventsIn(q, E, k) + (IF q[k + 1] \in E THEN 1 ELSE 0)
<1> DEFINE S == {i \in 1 .. k : q[i] \in E}
           T == {i \in 1 .. k + 1 : q[i] \in E}
<1>1. IsFiniteSet(S) /\ EventsIn(q, E, k) \in Nat
  BY EventsInNat
<1>2. k + 1 \notin S /\ T = IF q[k + 1] \in E THEN S \cup {k + 1} ELSE S
  OBVIOUS
<1>3. EventsIn(q, E, k) = Cardinality(S) /\ EventsIn(q, E, k + 1) = Cardinality(T)
  BY DEF EventsIn
<1> HIDE DEF S, T
<1>4. Cardinality(S \cup {k + 1}) = Cardinality(S) + 1
  BY <1>1, <1>2, FS_AddElement
<1> QED
  BY <1>1, <1>2, <1>3, <1>4

\* An event sent is behind the others.
LEMMA EventsInAppend ==
  ASSUME NEW S, NEW q \in Seq(S), NEW e \in S, NEW E
  PROVE  /\ \A k \in 0 .. Len(q) : EventsIn(Append(q, e), E, k) = EventsIn(q, E, k)
         /\ EventsIn(Append(q, e), E, Len(q) + 1)
              = EventsIn(q, E, Len(q)) + (IF e \in E THEN 1 ELSE 0)
<1> DEFINE r == Append(q, e)
<1>1. Len(q) \in Nat /\ r[Len(q) + 1] = e /\ \A i \in 1 .. Len(q) : r[i] = q[i]
  OBVIOUS
<1> HIDE DEF r
<1>2. ASSUME NEW k \in 0 .. Len(q) PROVE EventsIn(r, E, k) = EventsIn(q, E, k)
  <2>1. \A i \in 1 .. k : r[i] = q[i]
    BY <1>1
  <2>2. {i \in 1 .. k : r[i] \in E} = {i \in 1 .. k : q[i] \in E}
    BY <2>1
  <2> QED
    BY <2>2 DEF EventsIn
<1>3. EventsIn(r, E, Len(q) + 1) = EventsIn(r, E, Len(q)) + (IF e \in E THEN 1 ELSE 0)
  BY <1>1, EventsInStep
<1>4. Len(q) \in 0 .. Len(q)
  BY <1>1
<1> QED
  BY <1>2, <1>3, <1>4 DEF r

\* An event received is no longer in front of the others.
LEMMA EventsInTail ==
  ASSUME NEW S, NEW q \in Seq(S), q # <<>>, NEW E, NEW k \in 0 .. Len(q) - 1
  PROVE  EventsIn(q, E, k + 1) = EventsIn(Tail(q), E, k) + (IF Head(q) \in E THEN 1 ELSE 0)
<1> DEFINE r == Tail(q)
           A == {i \in 1 .. k : r[i] \in E}
           B == {i \in 2 .. k + 1 : q[i] \in E}
           f == [i \in A |-> i + 1]
<1>1. /\ k \in Nat /\ Len(q) \in Nat /\ Head(q) = q[1]
      /\ \A i \in 1 .. k : r[i] = q[i + 1]
  OBVIOUS
<1> HIDE DEF r
<1>2. f \in Bijection(A, B)
  <2>1. \A i \in A : i + 1 \in B
    BY <1>1
  <2>2. \A j \in B : j - 1 \in A /\ (j - 1) + 1 = j
    BY <1>1
  <2>3. f \in [A -> B] /\ \A i \in A : f[i] = i + 1
    BY <2>1
  <2>4. \A i, j \in A : f[i] = f[j] => i = j
    BY <2>3
  <2>5. \A j \in B : \E i \in A : f[i] = j
    BY <2>2, <2>3
  <2> HIDE DEF A, B, f
  <2> QED
    BY <2>3, <2>4, <2>5 DEF Bijection, Injection, Surjection, IsInjective
<1>3. IsFiniteSet(A) /\ EventsIn(r, E, k) = Cardinality(A)
  BY <1>1, EventsInNat DEF EventsIn
<1>4. IsFiniteSet(B) /\ Cardinality(B) = Cardinality(A)
  <2> HIDE DEF A, B, f
  <2>1. ExistsBijection(A, B)
    BY <1>2 DEF ExistsBijection
  <2> QED
    BY <1>3, <2>1, FS_Bijection
<1>5. {i \in 1 .. k + 1 : q[i] \in E} = IF Head(q) \in E THEN B \cup {1} ELSE B
  BY <1>1
<1>6. 1 \notin B
  OBVIOUS
<1>7. EventsIn(q, E, k + 1) = Cardinality(IF Head(q) \in E THEN B \cup {1} ELSE B)
  BY <1>5 DEF EventsIn
<1> HIDE DEF A, B, f
<1>8. Cardinality(B \cup {1}) = Cardinality(B) + 1
  BY <1>4, <1>6, FS_AddElement
<1>9. Cardinality(A) \in Nat
  BY <1>3, FS_CardinalityType
<1> QED
  BY <1>3, <1>4, <1>7, <1>8, <1>9 DEF r

-----------------------------------------------------------------------------
(* The ordered map.                                                        *)

\* A text goes and the others stay, in their order and once each.
LEMMA DeleteKeepsOthers ==
  ASSUME NEW x, loading \in Seq(Texts),
         \A i, j \in DOMAIN loading : loading[i] = loading[j] => i = j
  PROVE  /\ Delete(x) \in Seq(Texts)
         /\ ToSet(Delete(x)) = ToSet(loading) \ {x}
         /\ \A i, j \in DOMAIN Delete(x) : Delete(x)[i] = Delete(x)[j] => i = j
<1> DEFINE n == Len(loading)
<1>0. n \in Nat /\ DOMAIN loading = 1 .. n /\ \A i \in 1 .. n : loading[i] \in Texts
  OBVIOUS
<1>1. CASE ~Contains(loading, x)
  <2>1. Delete(x) = loading /\ x \notin ToSet(loading)
    BY <1>0, <1>1 DEF Delete, Contains, ToSet
  <2> QED
    BY <2>1
<1>2. CASE Contains(loading, x)
  <2>1. PICK p \in DOMAIN loading : loading[p] = x /\ Delete(x) = RemoveAt(loading, p)
    BY <1>0, <1>2 DEF Delete, Contains
  <2> DEFINE a == SubSeq(loading, 1, p - 1)
             b == SubSeq(loading, p + 1, n)
             d == Delete(x)
  <2>2. p \in 1 .. n /\ p \in Nat
    BY <1>0, <2>1
  <2>3. a \in Seq(Texts) /\ Len(a) = p - 1 /\ \A i \in 1 .. p - 1 : a[i] = loading[i]
    <3>1. 1 \in Int /\ p - 1 \in Int /\ \A i \in 1 .. p - 1 : loading[i] \in Texts
      BY <1>0, <2>2
    <3>2. /\ a \in Seq(Texts) /\ Len(a) = (IF 1 <= p - 1 THEN p - 1 - 1 + 1 ELSE 0)
          /\ \A i \in 1 .. p - 1 - 1 + 1 : a[i] = loading[1 + i - 1]
      BY <3>1, SubSeqProperties
    <3> HIDE DEF a
    <3> QED
      BY <2>2, <3>2
  <2>4. b \in Seq(Texts) /\ Len(b) = n - p /\ \A i \in 1 .. n - p : b[i] = loading[p + i]
    <3>1. p + 1 \in Int /\ n \in Int /\ \A i \in p + 1 .. n : loading[i] \in Texts
      BY <1>0, <2>2
    <3>2. /\ b \in Seq(Texts) /\ Len(b) = (IF p + 1 <= n THEN n - (p + 1) + 1 ELSE 0)
          /\ \A i \in 1 .. n - (p + 1) + 1 : b[i] = loading[p + 1 + i - 1]
      BY <3>1, SubSeqProperties
    <3> HIDE DEF b
    <3>3. n - (p + 1) + 1 = n - p /\ \A i \in 1 .. n - p : p + 1 + i - 1 = p + i
      BY <1>0, <2>2
    <3> QED
      BY <1>0, <2>2, <3>2, <3>3
  <2>5. d = a \o b
    BY <2>1 DEF RemoveAt
  <2> HIDE DEF a, b, d
  <2>6. /\ d \in Seq(Texts) /\ Len(d) = n - 1
        /\ \A i \in 1 .. n - 1 : d[i] = IF i <= p - 1 THEN a[i] ELSE b[i - (p - 1)]
    <3>1. /\ a \o b \in Seq(Texts) /\ Len(a \o b) = Len(a) + Len(b)
          /\ \A i \in 1 .. Len(a) + Len(b) :
               (a \o b)[i] = IF i <= Len(a) THEN a[i] ELSE b[i - Len(a)]
      BY <2>3, <2>4, ConcatProperties
    <3>2. Len(a) + Len(b) = n - 1
      BY <1>0, <2>2, <2>3, <2>4
    <3> QED
      BY <2>3, <2>5, <3>1, <3>2
  <2> DEFINE h(i) == IF i < p THEN i ELSE i + 1
  <2>7. \A i \in 1 .. n - 1 : h(i) \in 1 .. n /\ h(i) # p /\ d[i] = loading[h(i)]
    <3> SUFFICES ASSUME NEW i \in 1 .. n - 1
                 PROVE  h(i) \in 1 .. n /\ h(i) # p /\ d[i] = loading[h(i)]
      OBVIOUS
    <3>1. CASE i < p
      BY <1>0, <2>2, <2>3, <2>6, <3>1
    <3>2. CASE ~ (i < p)
      <4>1. i - (p - 1) \in 1 .. n - p /\ p + (i - (p - 1)) = i + 1
        BY <1>0, <2>2, <3>2
      <4>2. d[i] = b[i - (p - 1)]
        BY <1>0, <2>2, <2>6, <3>2
      <4>3. d[i] = loading[i + 1]
        BY <2>4, <4>1, <4>2
      <4> QED
        BY <1>0, <2>2, <3>2, <4>3
    <3> QED
      BY <3>1, <3>2
  <2>8. \A j \in 1 .. n : j # p => \E i \in 1 .. n - 1 : h(i) = j
    <3> SUFFICES ASSUME NEW j \in 1 .. n, j # p PROVE \E i \in 1 .. n - 1 : h(i) = j
      OBVIOUS
    <3>1. CASE j < p
      <4>1. j \in 1 .. n - 1 /\ h(j) = j
        BY <1>0, <2>2, <3>1
      <4> QED
        BY <4>1
    <3>2. CASE j > p
      <4>1. j - 1 \in 1 .. n - 1 /\ h(j - 1) = j
        BY <1>0, <2>2, <3>2
      <4> QED
        BY <4>1
    <3> QED
      BY <1>0, <2>2, <3>1, <3>2
  <2>9. \A i, j \in 1 .. n - 1 : h(i) = h(j) => i = j
    BY <1>0, <2>2
  <2>10. DOMAIN d = 1 .. n - 1
    BY <2>6
  <2> HIDE DEF h
  <2>11. ToSet(d) = ToSet(loading) \ {x}
    <3>1. \A y \in ToSet(d) : y \in ToSet(loading) /\ y # x
      BY <1>0, <2>1, <2>2, <2>7, <2>10 DEF ToSet
    <3>2. \A y \in ToSet(loading) : y # x => y \in ToSet(d)
      <4> SUFFICES ASSUME NEW j \in 1 .. n, loading[j] # x PROVE loading[j] \in ToSet(d)
        BY <1>0 DEF ToSet
      <4>1. PICK i \in 1 .. n - 1 : h(i) = j
        BY <2>1, <2>8
      <4> QED
        BY <2>7, <2>10, <4>1 DEF ToSet
    <3> QED
      BY <3>1, <3>2
  <2>12. \A i, j \in DOMAIN d : d[i] = d[j] => i = j
    BY <1>0, <2>7, <2>9, <2>10
  <2> QED
    BY <2>6, <2>11, <2>12 DEF d
<1> QED
  BY <1>1, <1>2

\* A text counted for the first time comes last.
LEMMA AppendAddsKey ==
  ASSUME NEW x \in Texts, loading \in Seq(Texts), x \notin ToSet(loading),
         \A i, j \in DOMAIN loading : loading[i] = loading[j] => i = j
  PROVE  /\ Append(loading, x) \in Seq(Texts)
         /\ ToSet(Append(loading, x)) = ToSet(loading) \cup {x}
         /\ \A i, j \in DOMAIN Append(loading, x) :
              Append(loading, x)[i] = Append(loading, x)[j] => i = j
<1> DEFINE a == Append(loading, x)
           n == Len(loading)
<1>1. /\ n \in Nat /\ DOMAIN loading = 1 .. n /\ a \in Seq(Texts) /\ DOMAIN a = 1 .. n + 1
      /\ a[n + 1] = x /\ \A i \in 1 .. n : a[i] = loading[i]
  OBVIOUS
<1> HIDE DEF a, n
<1>2. /\ DOMAIN a = DOMAIN loading \cup {n + 1}
      /\ \A i \in DOMAIN loading : a[i] = loading[i]
  BY <1>1
<1>3. ToSet(a) = ToSet(loading) \cup {x}
  BY <1>1, <1>2 DEF ToSet
<1>4. \A i \in DOMAIN loading : loading[i] # x
  BY DEF ToSet
<1>5. \A i, j \in DOMAIN a : a[i] = a[j] => i = j
  BY <1>1, <1>2, <1>4
<1> QED
  BY <1>1, <1>3, <1>5 DEF a

\* A sequence without repetition is as long as its set of elements is large.
LEMMA LenOfKeys ==
  ASSUME loading \in Seq(Texts),
         \A i, j \in DOMAIN loading : loading[i] = loading[j] => i = j
  PROVE  Len(loading) = Cardinality(ToSet(loading))
<1> DEFINE n == Len(loading)
<1>1. n \in Nat /\ DOMAIN loading = 1 .. n /\ loading = [i \in 1 .. n |-> loading[i]]
  OBVIOUS
<1>2. \A i \in 1 .. n : loading[i] \in ToSet(loading)
  BY <1>1 DEF ToSet
<1>3. loading \in [1 .. n -> ToSet(loading)]
  BY <1>1, <1>2
<1>4. \A y \in ToSet(loading) : \E i \in 1 .. n : loading[i] = y
  BY <1>1 DEF ToSet
<1>5. loading \in Bijection(1 .. n, ToSet(loading))
  BY <1>1, <1>3, <1>4 DEF Bijection, Injection, Surjection, IsInjective
<1>6. ExistsBijection(1 .. n, ToSet(loading))
  BY <1>5 DEF ExistsBijection
<1> HIDE DEF n
<1>7. Cardinality(ToSet(loading)) = n
  BY <1>1, <1>6, FS_CountingElements
<1> QED
  BY <1>7 DEF n


-----------------------------------------------------------------------------
(* What the steps keep needing.                                            *)

\* An event counts for its own text and its own kind.
LEMMA EventKinds ==
  ASSUME NEW x \in Texts, NEW e \in Event
  PROVE  /\ e \in StartsOf(x) <=> e.text = x /\ ~e.finish
         /\ e \in EndsOf(x) <=> e.text = x /\ e.finish
         /\ e \in AnyStart <=> ~e.finish
         /\ e.text \in Texts /\ e.finish \in BOOLEAN
<1>1. /\ e.text \in Texts /\ e.finish \in BOOLEAN
      /\ e = [text |-> e.text, finish |-> e.finish]
  BY DEF Event
<1>2. e \in StartsOf(x) <=> e.text = x /\ ~e.finish
  BY <1>1 DEF StartsOf
<1>3. e \in EndsOf(x) <=> e.text = x /\ e.finish
  BY <1>1 DEF EndsOf
<1>4. e \in AnyStart <=> ~e.finish
  BY <1>1 DEF AnyStart
<1> QED
  BY <1>1, <1>2, <1>3, <1>4

\* A balance is a number.
LEMMA BalanceInt ==
  ASSUME NEW c \in Nat, NEW q, NEW x, NEW k \in Nat
  PROVE  /\ Balance(c, q, x, k) \in Int /\ Balance(c, q, x, 0) = c
         /\ Balance(c, q, x, k) = c + EventsIn(q, StartsOf(x), k) - EventsIn(q, EndsOf(x), k)
         /\ EventsIn(q, StartsOf(x), k) \in Nat /\ EventsIn(q, EndsOf(x), k) \in Nat
<1>1. EventsIn(q, StartsOf(x), k) \in Nat /\ EventsIn(q, EndsOf(x), k) \in Nat
  BY EventsInNat
<1>2. EventsIn(q, StartsOf(x), 0) = 0 /\ EventsIn(q, EndsOf(x), 0) = 0
  BY EventsInNat
<1>3. Balance(c, q, x, k) = c + EventsIn(q, StartsOf(x), k) - EventsIn(q, EndsOf(x), k)
  BY DEF Balance
<1>4. Balance(c, q, x, 0) = c + EventsIn(q, StartsOf(x), 0) - EventsIn(q, EndsOf(x), 0)
  BY DEF Balance
<1> QED
  BY <1>1, <1>2, <1>3, <1>4

\* The channel has a length, and the start events in it are counted by a number.
LEMMA ChannelIsCounted ==
  ASSUME TypeOK
  PROVE  Len(ch) \in Nat /\ EventsIn(ch, AnyStart, Len(ch)) \in Nat /\ tokenId \in Nat
         /\ starts \in Nat
<1>1. Len(ch) \in Nat
  BY LenProperties DEF TypeOK
<1>2. EventsIn(ch, AnyStart, Len(ch)) \in Nat
  BY <1>1, EventsInNat
<1>3. tokenId \in Nat /\ starts \in Nat
  BY DEF TypeOK, Tokens, NoToken
<1> QED
  BY <1>1, <1>2, <1>3

\* The callers of a kind are finitely many.
LEMMA CallersAreNumbers ==
  ASSUME NEW x
  PROVE  /\ IsFiniteSet(Finishing(x)) /\ Cardinality(Finishing(x)) \in Nat
         /\ IsFiniteSet(Sent(x)) /\ Cardinality(Sent(x)) \in Nat
         /\ IsFiniteSet(Starting) /\ Cardinality(Starting) \in Nat
         /\ Cardinality(Finishing(x)) <= Cardinality(Sent(x))
<1>1. /\ Finishing(x) \in SUBSET Sent(x) /\ Sent(x) \in SUBSET Ops /\ Starting \in SUBSET Ops
      /\ Finishing(x) \in SUBSET Ops
  BY DEF Finishing, Sent, Starting
<1>2. IsFiniteSet(Finishing(x)) /\ IsFiniteSet(Sent(x)) /\ IsFiniteSet(Starting)
  BY <1>1, FS_Subset, OpsAssumption
<1>3. Cardinality(Finishing(x)) <= Cardinality(Sent(x))
  BY <1>1, <1>2, FS_Subset
<1> QED
  BY <1>2, <1>3, FS_CardinalityType

\* Nobody is in progress at first, and nothing is shown.
LEMMA InitInv == Init => IInv
<1> SUFFICES ASSUME Init PROVE IInv
  OBVIOUS
<1>1. TypeOK
  <2>1. ch \in Seq(Event) /\ out \in Seq(Message) /\ loading \in Seq(Texts) /\ Len(ch) = 0
    BY EmptySeq DEF Init
  <2>2. /\ op \in [Ops -> OpStage] /\ text \in [Ops -> Texts \cup {NoText}]
        /\ count \in [Texts -> Nat]
        /\ stage \in [Tokens -> {"none", "created", "begun", "ended"}]
    BY DEF Init, OpStage
  <2> QED
    <3>1. 0 \in 0 .. MaxStarts /\ 0 <= Capacity
      BY CapacityAssumption, StartsAssumption
    <3>2. /\ starts = 0 /\ canceled \in BOOLEAN /\ zeroDelay \in BOOLEAN /\ running \in BOOLEAN
          /\ token = NoToken /\ tokenId = NoToken /\ shown = NoText
          /\ begun \in BOOLEAN /\ armed \in BOOLEAN /\ fired \in BOOLEAN
      BY DEF Init
    <3> QED
      BY <2>1, <2>2, <3>1, <3>2 DEF TypeOK
<1>2. CallersHaveTexts
  BY DEF Init, CallersHaveTexts
<1>3. KeysAreCounted
  <2>1. ToSet(loading) = {} /\ DOMAIN loading = {}
    BY DEF Init, ToSet
  <2>2. {x \in Texts : count[x] > 0} = {}
    BY DEF Init
  <2> QED
    BY <2>1, <2>2 DEF KeysAreCounted
<1>4. Len(ch) = 0 /\ \A x \in Texts : count[x] = 0
  BY DEF Init
<1>5. \A x \in Texts : Balance(count[x], ch, x, 0) = 0
  BY <1>4, BalanceInt
<1>6. /\ \A x : Cardinality(Finishing(x)) = 0 /\ Cardinality(Sent(x)) = 0
      /\ Cardinality(Starting) = 0
  <2>1. \A x : Finishing(x) = {} /\ Sent(x) = {}
    BY DEF Init, Finishing, Sent
  <2>2. Starting = {}
    BY DEF Init, Starting
  <2> QED
    BY <2>1, <2>2, FS_EmptySet
<1>7. Counting
  <2>1. NeverShort
    BY <1>4, <1>5 DEF NeverShort
  <2>2. Balanced
    BY <1>4, <1>5, <1>6 DEF Balanced
  <2>3. EventsIn(ch, AnyStart, 0) = 0
    BY EventsInNat
  <2>4. TokensLeft
    <3>1. tokenId = 0 /\ starts = 0
      BY DEF Init, NoToken
    <3> QED
      BY <1>4, <1>6, <2>3, <3>1 DEF TokensLeft
  <2> QED
    BY <2>1, <2>2, <2>4 DEF Counting
<1>8. Showing
  <2>1. TokenInUse /\ OneOpen
    BY DEF Init, TokenInUse, OneOpen, Open
  <2>2. Len(out) = 0 /\ out = <<>>
    BY DEF Init
  <2>3. QueueIsRun
    BY <2>2 DEF QueueIsRun, Run
  <2>4. QueueCatchesUp
    BY DEF QueueCatchesUp, Live, Init, Open
  <2> QED
    BY <2>1, <2>3, <2>4 DEF Showing
<1> QED
  BY <1>1, <1>2, <1>3, <1>7, <1>8 DEF IInv

-----------------------------------------------------------------------------
(* The callers.  They leave the task, the outgoing queue and the client    *)
(* alone.                                                                  *)

\* What depends on the task, its queue and the client only.
LEMMA ShowingKept ==
  ASSUME KeysAreCounted, Showing, armed' => armed,
         UNCHANGED <<loading, count, token, tokenId, begun, fired, out, stage, shown>>
  PROVE  KeysAreCounted' /\ Showing'
<1>1. KeysAreCounted' /\ TokenInUse' /\ OneOpen'
  BY DEF KeysAreCounted, Showing, TokenInUse, OneOpen, Open
<1>2. \A m : Allowed(stage', m) <=> Allowed(stage, m)
  OBVIOUS
<1>3. QueueIsRun'
  BY <1>2 DEF Showing, QueueIsRun, Run
<1>4. Live' <=> Live
  BY DEF Live
<1>5. \A t : Open(t)' <=> Open(t)
  BY DEF Open
<1>6. QueueCatchesUp'
  BY <1>4, <1>5 DEF Showing, QueueCatchesUp
<1> QED
  BY <1>1, <1>3, <1>6 DEF Showing

\* A start waits to send its event, or sends none after the cancellation.
LEMMA StartKeeps ==
  ASSUME IInv, NEW o \in Ops, NEW x \in Texts, Start(o, x)
  PROVE  IInv'
<1>1. /\ op[o] = "idle" /\ starts < MaxStarts /\ starts' = starts + 1
      /\ text' = [text EXCEPT ![o] = x]
      /\ op' = [op EXCEPT ![o] = IF canceled THEN "working" ELSE "starting"]
      /\ UNCHANGED <<canceled, zeroDelay, ch, running, loading, count, token, tokenId, begun,
                     armed, fired, out, stage, shown>>
  BY DEF Start, taskVars, clientVars
<1>2. TypeOK /\ CallersHaveTexts /\ NeverShort /\ Balanced /\ TokensLeft
  BY DEF IInv, Counting
<1>3. op \in [Ops -> OpStage] /\ text \in [Ops -> Texts \cup {NoText}]
  BY <1>2 DEF TypeOK
<1>4. TypeOK'
  <2>1. op' \in [Ops -> OpStage] /\ text' \in [Ops -> Texts \cup {NoText}]
    BY <1>1, <1>3 DEF OpStage
  <2>2. starts' \in 0 .. MaxStarts
    BY <1>1, <1>2, StartsAssumption DEF TypeOK
  <2> QED
    BY <1>1, <1>2, <2>1, <2>2 DEF TypeOK
<1>5. CallersHaveTexts'
  BY <1>1, <1>2, <1>3 DEF CallersHaveTexts
<1>6. NeverShort'
  BY <1>1, <1>2 DEF NeverShort
<1>7. \A y : Finishing(y)' = Finishing(y)
  BY <1>1, <1>3 DEF Finishing
<1>8. ~canceled => \A y : Sent(y)' = Sent(y)
  BY <1>1, <1>3 DEF Sent
<1>9. Balanced'
  BY <1>1, <1>2, <1>7, <1>8 DEF Balanced
<1>10. TokensLeft'
  <2>1. Starting' = IF canceled THEN Starting ELSE Starting \cup {o}
    BY <1>1, <1>3 DEF Starting
  <2>2. o \notin Starting
    BY <1>1 DEF Starting
  <2>3. IsFiniteSet(Starting) /\ Cardinality(Starting) \in Nat
    BY CallersAreNumbers
  <2>4. Cardinality(Starting \cup {o}) = Cardinality(Starting) + 1
    BY <2>2, <2>3, FS_AddElement
  <2>5. Cardinality(Starting') <= Cardinality(Starting) + 1 /\ Cardinality(Starting') \in Nat
    BY <2>1, <2>3, <2>4
  <2>6. /\ starts \in Nat /\ tokenId \in Nat /\ Len(ch) \in Nat
        /\ EventsIn(ch, AnyStart, Len(ch)) \in Nat
    BY <1>2, ChannelIsCounted
  <2>7. tokenId + EventsIn(ch, AnyStart, Len(ch)) + Cardinality(Starting) <= starts
    BY <1>2 DEF TokensLeft
  <2>8. tokenId + EventsIn(ch, AnyStart, Len(ch)) + Cardinality(Starting') <= starts + 1
    BY <2>3, <2>5, <2>6, <2>7
  <2> QED
    BY <1>1, <2>8 DEF TokensLeft
<1>11. KeysAreCounted' /\ Showing'
  BY <1>1, ShowingKept DEF IInv
<1> QED
  BY <1>4, <1>5, <1>6, <1>9, <1>10, <1>11 DEF IInv, Counting


\* A caller that leaves a stage other than "idle", for the others of TextAfter.
LEMMA CallerMoves ==
  ASSUME TypeOK, CallersHaveTexts, NEW o \in Ops, NEW s \in OpStage,
         op' = [op EXCEPT ![o] = s], text' = TextAfter(o), op[o] # "idle"
  PROVE  /\ op' \in [Ops -> OpStage] /\ text' \in [Ops -> Texts \cup {NoText}]
         /\ CallersHaveTexts'
         /\ \A u \in Ops : u # o => op'[u] = op[u] /\ text'[u] = text[u]
         /\ op'[o] = s /\ text'[o] = IF s = "idle" THEN NoText ELSE text[o]
<1>1. op \in [Ops -> OpStage] /\ text \in [Ops -> Texts \cup {NoText}] /\ text[o] \in Texts
  BY DEF TypeOK, CallersHaveTexts
<1>2. op'[o] = s /\ \A u \in Ops : u # o => op'[u] = op[u]
  BY <1>1
<1>3. text' = [text EXCEPT ![o] = IF s = "idle" THEN NoText ELSE text[o]]
  BY <1>1, <1>2 DEF TextAfter
<1>4. /\ op' \in [Ops -> OpStage] /\ text' \in [Ops -> Texts \cup {NoText}]
      /\ \A u \in Ops : u # o => text'[u] = text[u]
      /\ text'[o] = IF s = "idle" THEN NoText ELSE text[o]
  BY <1>1, <1>3
<1>5. CallersHaveTexts'
  BY <1>1, <1>2, <1>4 DEF CallersHaveTexts
<1> QED
  BY <1>2, <1>4, <1>5

\* The call of finish of an operation with a start in the channel or in the count.
LEMMA FinishKeeps ==
  ASSUME IInv, NEW o \in Ops, Finish(o)
  PROVE  IInv'
<1> DEFINE s == IF canceled THEN "idle" ELSE "finishing"
<1>1. /\ op[o] = "working" /\ op' = [op EXCEPT ![o] = s] /\ text' = TextAfter(o)
      /\ UNCHANGED <<starts, canceled, zeroDelay, ch, running, loading, count, token, tokenId,
                     begun, armed, fired, out, stage, shown>>
  BY DEF Finish, taskVars, clientVars
<1>2. TypeOK /\ CallersHaveTexts /\ NeverShort /\ Balanced /\ TokensLeft
  BY DEF IInv, Counting
<1>3. s \in OpStage /\ op[o] # "idle"
  BY <1>1 DEF OpStage
<1>4. /\ op' \in [Ops -> OpStage] /\ text' \in [Ops -> Texts \cup {NoText}]
      /\ CallersHaveTexts'
      /\ \A u \in Ops : u # o => op'[u] = op[u] /\ text'[u] = text[u]
      /\ op'[o] = s /\ text'[o] = IF s = "idle" THEN NoText ELSE text[o]
  <2> HIDE DEF s
  <2> QED
    BY <1>1, <1>2, <1>3, CallerMoves
<1>5. TypeOK'
  BY <1>1, <1>2, <1>4 DEF TypeOK
<1>6. NeverShort'
  BY <1>1, <1>2 DEF NeverShort
<1>7. Starting' = Starting
  BY <1>1, <1>4 DEF Starting
<1>8. TokensLeft'
  BY <1>1, <1>2, <1>7 DEF TokensLeft
<1>9. Balanced'
  <2> SUFFICES ASSUME running, NEW x \in Texts
               PROVE  /\ Balance(count[x], ch, x, Len(ch)) >= Cardinality(Finishing(x)')
                      /\ ~canceled => Balance(count[x], ch, x, Len(ch)) = Cardinality(Sent(x)')
    BY <1>1 DEF Balanced
  <2>1. CASE canceled
    <3>1. Finishing(x)' = Finishing(x)
      BY <1>1, <1>4, <2>1 DEF Finishing
    <3> QED
      BY <1>2, <2>1, <3>1 DEF Balanced
  <2>2. CASE ~canceled
    <3>1. Sent(x)' = Sent(x) /\ Finishing(x)' \in SUBSET Sent(x)
      BY <1>1, <1>4, <2>2 DEF Sent, Finishing
    <3>2. Cardinality(Finishing(x)') <= Cardinality(Sent(x))
      BY <3>1, CallersAreNumbers, FS_Subset
    <3>3. Balance(count[x], ch, x, Len(ch)) = Cardinality(Sent(x))
      BY <1>2, <2>2 DEF Balanced
    <3>4. Cardinality(Sent(x)) \in Nat /\ IsFiniteSet(Sent(x))
      BY CallersAreNumbers
    <3>5. Cardinality(Finishing(x)') \in Nat
      BY <3>1, <3>4, FS_Subset, FS_CardinalityType
    <3> QED
      BY <3>1, <3>2, <3>3, <3>4, <3>5
  <2> QED
    BY <2>1, <2>2
<1>10. KeysAreCounted' /\ Showing'
  BY <1>1, ShowingKept DEF IInv
<1> QED
  BY <1>4, <1>5, <1>6, <1>8, <1>9, <1>10 DEF IInv, Counting

\* A send that fails changes nothing but the caller's stage; nothing is counted any
\* more then.
LEMMA SendFailsKeeps ==
  ASSUME IInv, NEW o \in Ops, SendFails(o)
  PROVE  IInv'
<1> DEFINE s == AfterSend(o)
<1>1. /\ op[o] \in {"starting", "finishing"} /\ ~running
      /\ op' = [op EXCEPT ![o] = s] /\ text' = TextAfter(o)
      /\ UNCHANGED <<starts, canceled, zeroDelay, ch, running, loading, count, token, tokenId,
                     begun, armed, fired, out, stage, shown>>
  BY DEF SendFails, taskVars, clientVars
<1>2. TypeOK /\ CallersHaveTexts /\ NeverShort /\ Balanced /\ TokensLeft
  BY DEF IInv, Counting
<1>3. s \in {"working", "idle"} /\ s \in OpStage /\ op[o] # "idle"
  BY <1>1 DEF OpStage, AfterSend
<1> HIDE DEF s
<1>4. /\ op' \in [Ops -> OpStage] /\ text' \in [Ops -> Texts \cup {NoText}]
      /\ CallersHaveTexts'
      /\ \A u \in Ops : u # o => op'[u] = op[u] /\ text'[u] = text[u]
      /\ op'[o] = s /\ text'[o] = IF s = "idle" THEN NoText ELSE text[o]
  BY <1>1, <1>2, <1>3, CallerMoves
<1>5. TypeOK'
  BY <1>1, <1>2, <1>4 DEF TypeOK
<1>6. NeverShort' /\ Balanced'
  BY <1>1, <1>2 DEF NeverShort, Balanced
<1>7. TokensLeft'
  <2>1. Starting' \in SUBSET Starting
    BY <1>3, <1>4 DEF Starting
  <2>2. IsFiniteSet(Starting) /\ Cardinality(Starting) \in Nat
    BY CallersAreNumbers
  <2>3. Cardinality(Starting') <= Cardinality(Starting) /\ IsFiniteSet(Starting')
    BY <2>1, <2>2, FS_Subset
  <2>4. Cardinality(Starting') \in Nat
    BY <2>3, FS_CardinalityType
  <2>5. /\ EventsIn(ch, AnyStart, Len(ch)) \in Nat /\ tokenId \in Nat /\ starts \in Nat
        /\ tokenId + EventsIn(ch, AnyStart, Len(ch)) + Cardinality(Starting) <= starts
    BY <1>2, ChannelIsCounted DEF TokensLeft
  <2>6. tokenId + EventsIn(ch, AnyStart, Len(ch)) + Cardinality(Starting') <= starts
    BY <2>2, <2>3, <2>4, <2>5
  <2> QED
    BY <1>1, <2>6 DEF TokensLeft
<1>8. KeysAreCounted' /\ Showing'
  BY <1>1, ShowingKept DEF IInv
<1> QED
  BY <1>4, <1>5, <1>6, <1>7, <1>8 DEF IInv, Counting

\* A send puts the event behind the others; the end of an operation finds it counted,
\* in the map or in the channel.
LEMMA SendKeeps ==
  ASSUME IInv, NEW o \in Ops, Send(o)
  PROVE  IInv'
<1> DEFINE s == AfterSend(o)
           e == [text |-> text[o], finish |-> op[o] = "finishing"]
           n == Len(ch)
<1>1. /\ op[o] \in {"starting", "finishing"} /\ running /\ Len(ch) < Capacity
      /\ ch' = Append(ch, e)
      /\ op' = [op EXCEPT ![o] = s] /\ text' = TextAfter(o)
      /\ UNCHANGED <<starts, canceled, zeroDelay, running, loading, count, token, tokenId,
                     begun, armed, fired, out, stage, shown>>
  BY DEF Send, taskVars, clientVars
<1>2. TypeOK /\ CallersHaveTexts /\ NeverShort /\ Balanced /\ TokensLeft
  BY DEF IInv, Counting
<1>3. s \in {"working", "idle"} /\ s \in OpStage /\ op[o] # "idle"
  BY <1>1 DEF OpStage, AfterSend
<1>4. text[o] \in Texts /\ e \in Event /\ e.text = text[o] /\ e.finish = (op[o] = "finishing")
  BY <1>1, <1>2 DEF CallersHaveTexts, Event
<1>5. s = "working" <=> op[o] = "starting"
  BY <1>1 DEF AfterSend
<1> HIDE DEF s, e
<1>6. /\ op' \in [Ops -> OpStage] /\ text' \in [Ops -> Texts \cup {NoText}]
      /\ CallersHaveTexts'
      /\ \A u \in Ops : u # o => op'[u] = op[u] /\ text'[u] = text[u]
      /\ op'[o] = s /\ text'[o] = IF s = "idle" THEN NoText ELSE text[o]
  BY <1>1, <1>2, <1>3, CallerMoves
<1>7. ch \in Seq(Event) /\ n \in Nat /\ count \in [Texts -> Nat]
  BY <1>2, ChannelIsCounted DEF TypeOK
<1>8. ch' \in Seq(Event) /\ Len(ch') = n + 1
  BY <1>1, <1>4, <1>7
<1>9. TypeOK'
  <2>1. Len(ch') <= Capacity
    BY <1>1, <1>7, <1>8, CapacityAssumption
  <2> QED
    BY <1>1, <1>2, <1>6, <1>8, <2>1 DEF TypeOK
<1> HIDE DEF n
<1>10. ASSUME NEW E
       PROVE  /\ \A k \in 0 .. n : EventsIn(ch', E, k) = EventsIn(ch, E, k)
              /\ EventsIn(ch', E, n + 1) = EventsIn(ch, E, n) + (IF e \in E THEN 1 ELSE 0)
  <2>1. /\ \A k \in 0 .. Len(ch) : EventsIn(Append(ch, e), E, k) = EventsIn(ch, E, k)
        /\ EventsIn(Append(ch, e), E, Len(ch) + 1)
             = EventsIn(ch, E, Len(ch)) + (IF e \in E THEN 1 ELSE 0)
    BY <1>4, <1>7, EventsInAppend
  <2> QED
    BY <1>1, <2>1 DEF n
<1>11. \A x \in Texts : \A k \in 0 .. n : Balance(count[x], ch', x, k) = Balance(count[x], ch, x, k)
  BY <1>10 DEF Balance
<1>12. ASSUME NEW x \in Texts
       PROVE  LET b == Balance(count[x], ch, x, n)
                  c == Balance(count[x], ch', x, n + 1)
              IN  /\ b \in Int
                  /\ x # text[o] => c = b
                  /\ x = text[o] /\ op[o] = "starting" => c = b + 1
                  /\ x = text[o] /\ op[o] = "finishing" => c = b - 1
  <2>1. /\ e \in StartsOf(x) <=> e.text = x /\ ~e.finish
        /\ e \in EndsOf(x) <=> e.text = x /\ e.finish
    BY <1>4, EventKinds
  <2>2. /\ count[x] \in Nat /\ EventsIn(ch, StartsOf(x), n) \in Nat
        /\ EventsIn(ch, EndsOf(x), n) \in Nat
    BY <1>7, EventsInNat
  <2>3. /\ EventsIn(ch', StartsOf(x), n + 1)
             = EventsIn(ch, StartsOf(x), n) + (IF e \in StartsOf(x) THEN 1 ELSE 0)
        /\ EventsIn(ch', EndsOf(x), n + 1)
             = EventsIn(ch, EndsOf(x), n) + (IF e \in EndsOf(x) THEN 1 ELSE 0)
    BY <1>10
  <2> QED
    <3>1. /\ Balance(count[x], ch, x, n)
               = count[x] + EventsIn(ch, StartsOf(x), n) - EventsIn(ch, EndsOf(x), n)
          /\ Balance(count[x], ch', x, n + 1)
               = count[x] + EventsIn(ch', StartsOf(x), n + 1) - EventsIn(ch', EndsOf(x), n + 1)
      BY DEF Balance
    <3>2. /\ e \in StartsOf(x) <=> text[o] = x /\ op[o] = "starting"
          /\ e \in EndsOf(x) <=> text[o] = x /\ op[o] = "finishing"
          /\ ~ (op[o] = "starting" /\ op[o] = "finishing")
      BY <1>1, <1>4, <2>1
    <3> QED
      BY <2>2, <2>3, <3>1, <3>2
<1>13. \A x : /\ x # text[o] => Finishing(x)' = Finishing(x) /\ Sent(x)' = Sent(x)
              /\ x = text[o] /\ op[o] = "starting"
                   => /\ Finishing(x)' = Finishing(x)
                      /\ o \notin Sent(x) /\ Sent(x)' = Sent(x) \cup {o}
              /\ x = text[o] /\ op[o] = "finishing"
                   => /\ o \in Finishing(x) /\ Finishing(x)' = Finishing(x) \ {o}
                      /\ o \in Sent(x) /\ Sent(x)' = Sent(x) \ {o}
  BY <1>1, <1>3, <1>4, <1>5, <1>6, TextsAssumption DEF Finishing, Sent
<1>14. ASSUME NEW x \in Texts
       PROVE  LET b == Balance(count[x], ch, x, n)
                  c == Balance(count[x], ch', x, n + 1)
              IN  /\ c >= 0 /\ c >= Cardinality(Finishing(x)')
                  /\ ~canceled => c = Cardinality(Sent(x)')
  <2> DEFINE b == Balance(count[x], ch, x, n)
             c == Balance(count[x], ch', x, n + 1)
             f == Cardinality(Finishing(x))
             t == Cardinality(Sent(x))
  <2>1. /\ IsFiniteSet(Finishing(x)) /\ f \in Nat /\ IsFiniteSet(Sent(x)) /\ t \in Nat
    BY CallersAreNumbers
  <2>2. b >= f /\ (~canceled => b = t)
    BY <1>1, <1>2 DEF Balanced, n
  <2>3. /\ b \in Int
        /\ x # text[o] => c = b
        /\ x = text[o] /\ op[o] = "starting" => c = b + 1
        /\ x = text[o] /\ op[o] = "finishing" => c = b - 1
    BY <1>12
  <2>4. /\ Cardinality(Sent(x) \cup {o}) = IF o \in Sent(x) THEN t ELSE t + 1
        /\ Cardinality(Sent(x) \ {o}) = IF o \in Sent(x) THEN t - 1 ELSE t
        /\ Cardinality(Finishing(x) \ {o}) = IF o \in Finishing(x) THEN f - 1 ELSE f
    BY <2>1, FS_AddElement, FS_RemoveElement
  <2>5. o \in Finishing(x) => f >= 1
    BY <2>1, FS_EmptySet
  <2> HIDE DEF b, c, f, t
  <2>6. CASE x # text[o]
    <3>1. Cardinality(Finishing(x)') = f /\ Cardinality(Sent(x)') = t
      BY <1>13, <2>6 DEF f, t
    <3>2. c >= 0 /\ c >= f /\ (~canceled => c = t)
      BY <2>1, <2>2, <2>3, <2>6
    <3> QED
      BY <3>1, <3>2 DEF c
  <2>7. CASE x = text[o] /\ op[o] = "starting"
    <3>1. Cardinality(Finishing(x)') = f /\ Cardinality(Sent(x)') = t + 1
      BY <1>13, <2>4, <2>7 DEF f, t
    <3>2. c >= 0 /\ c >= f /\ (~canceled => c = t + 1)
      BY <2>1, <2>2, <2>3, <2>7
    <3> QED
      BY <3>1, <3>2 DEF c
  <2>8. CASE x = text[o] /\ op[o] = "finishing"
    <3>1. /\ Cardinality(Finishing(x)') = f - 1 /\ Cardinality(Sent(x)') = t - 1
          /\ o \in Finishing(x)
      BY <1>13, <2>4, <2>8 DEF f, t
    <3>2. c >= 0 /\ c >= f - 1 /\ (~canceled => c = t - 1)
      BY <2>1, <2>2, <2>3, <2>5, <2>8, <3>1
    <3> QED
      BY <3>1, <3>2 DEF c
  <2> QED
    BY <1>1, <2>6, <2>7, <2>8
<1>15. NeverShort'
  <2> SUFFICES ASSUME NEW x \in Texts, NEW k \in 0 .. n + 1
               PROVE  Balance(count[x], ch', x, k) >= 0
    BY <1>1, <1>8 DEF NeverShort
  <2>1. CASE k = n + 1
    BY <1>14, <2>1
  <2>2. CASE k \in 0 .. n
    BY <1>2, <1>11, <2>2 DEF NeverShort, n
  <2> QED
    BY <1>7, <2>1, <2>2
<1>16. Balanced'
  BY <1>1, <1>8, <1>14 DEF Balanced
<1>17. TokensLeft'
  <2>1. Starting' = IF op[o] = "starting" THEN Starting \ {o} ELSE Starting
    BY <1>1, <1>3, <1>6 DEF Starting
  <2>2. o \in Starting <=> op[o] = "starting"
    BY DEF Starting
  <2>3. IsFiniteSet(Starting) /\ Cardinality(Starting) \in Nat
    BY CallersAreNumbers
  <2>4. Cardinality(Starting \ {o}) = IF o \in Starting THEN Cardinality(Starting) - 1
                                      ELSE Cardinality(Starting)
    BY <2>3, FS_RemoveElement
  <2>5. e \in AnyStart <=> op[o] = "starting"
    BY <1>1, <1>4, EventKinds
  <2>6. EventsIn(ch', AnyStart, n + 1)
          = EventsIn(ch, AnyStart, n) + (IF e \in AnyStart THEN 1 ELSE 0)
    BY <1>10
  <2>7. /\ EventsIn(ch, AnyStart, n) \in Nat /\ tokenId \in Nat /\ starts \in Nat
        /\ tokenId + EventsIn(ch, AnyStart, n) + Cardinality(Starting) <= starts
    BY <1>2, ChannelIsCounted DEF TokensLeft, n
  <2>8. tokenId + EventsIn(ch', AnyStart, n + 1) + Cardinality(Starting') <= starts
    BY <2>1, <2>2, <2>3, <2>4, <2>5, <2>6, <2>7
  <2> QED
    BY <1>1, <1>8, <2>8 DEF TokensLeft
<1>18. KeysAreCounted' /\ Showing'
  BY <1>1, ShowingKept DEF IInv
<1> QED
  BY <1>6, <1>9, <1>15, <1>16, <1>17, <1>18 DEF IInv, Counting

\* The cancellation: what is counted still covers the calls of finish in progress.
LEMMA CancelKeeps ==
  ASSUME IInv, Cancel
  PROVE  IInv'
<1>1. /\ canceled' = TRUE
      /\ UNCHANGED <<op, text, starts, zeroDelay, ch, running, loading, count, token, tokenId,
                     begun, armed, fired, out, stage, shown>>
  BY DEF Cancel, opVars, taskVars, clientVars
<1>2. TypeOK' /\ CallersHaveTexts'
  BY <1>1 DEF IInv, TypeOK, CallersHaveTexts
<1>3. \A x : Finishing(x)' = Finishing(x) /\ Starting' = Starting
  BY <1>1 DEF Finishing, Starting
<1>4. NeverShort' /\ Balanced' /\ TokensLeft'
  BY <1>1, <1>3 DEF IInv, Counting, NeverShort, Balanced, TokensLeft
<1>5. KeysAreCounted' /\ Showing'
  BY <1>1, ShowingKept DEF IInv
<1> QED
  BY <1>2, <1>4, <1>5 DEF IInv, Counting


-----------------------------------------------------------------------------
(* The task.                                                               *)

\* The task ends with the events it has not handled.
LEMMA TaskStopsKeeps ==
  ASSUME IInv, TaskStops
  PROVE  IInv'
<1>1. /\ running' = FALSE /\ armed' = FALSE /\ ch' = <<>>
      /\ UNCHANGED <<op, text, starts, canceled, zeroDelay, loading, count, token, tokenId,
                     begun, fired, out, stage, shown>>
  BY DEF TaskStops, opVars, clientVars
<1>2. TypeOK /\ NeverShort /\ TokensLeft
  BY DEF IInv, Counting
<1>3. Len(ch') = 0 /\ ch' \in Seq(Event)
  BY <1>1, EmptySeq
<1>4. TypeOK' /\ CallersHaveTexts'
  <2>1. Len(ch') <= Capacity
    BY <1>3, CapacityAssumption
  <2> QED
    BY <1>1, <1>3, <2>1 DEF IInv, TypeOK, CallersHaveTexts
<1>5. NeverShort'
  <2> SUFFICES ASSUME NEW x \in Texts PROVE Balance(count[x], ch', x, 0) >= 0
    BY <1>1, <1>3 DEF NeverShort
  <2>1. count[x] \in Nat
    BY <1>2 DEF TypeOK
  <2>2. Balance(count[x], ch', x, 0) = count[x]
    BY <2>1, BalanceInt
  <2> QED
    BY <2>1, <2>2
<1>6. Balanced'
  BY <1>1 DEF Balanced
<1>7. TokensLeft'
  <2>1. Starting' = Starting /\ Cardinality(Starting) \in Nat
    BY <1>1, CallersAreNumbers DEF Starting
  <2>2. EventsIn(ch', AnyStart, 0) = 0
    BY EventsInNat
  <2>3. /\ EventsIn(ch, AnyStart, Len(ch)) \in Nat /\ tokenId \in Nat /\ starts \in Nat
        /\ tokenId + EventsIn(ch, AnyStart, Len(ch)) + Cardinality(Starting) <= starts
    BY <1>2, ChannelIsCounted DEF TokensLeft
  <2>4. tokenId + 0 + Cardinality(Starting) <= starts
    BY <2>1, <2>3
  <2> QED
    BY <1>1, <1>3, <2>1, <2>2, <2>4 DEF TokensLeft
<1>8. KeysAreCounted' /\ Showing'
  BY <1>1, ShowingKept DEF IInv
<1> QED
  BY <1>4, <1>5, <1>6, <1>7, <1>8 DEF IInv, Counting

\* The messages the task sends.
LEMMA MessageFields ==
  ASSUME NEW k \in {"create", "begin", "report", "end"}, NEW t \in Tokens,
         NEW x \in Texts \cup {NoText}
  PROVE  /\ Msg(k, t, x) \in Message
         /\ Msg(k, t, x).kind = k /\ Msg(k, t, x).token = t /\ Msg(k, t, x).text = x
  BY DEF Msg, Message

\* A message that may follow extends a run.
LEMMA RunAppend ==
  ASSUME NEW q \in Seq(Message), Run(q), NEW m \in Message, Texted(m),
         q = <<>> => Allowed(stage, m), q # <<>> => Follows(q[Len(q)], m)
  PROVE  /\ Append(q, m) \in Seq(Message) /\ Run(Append(q, m)) /\ Append(q, m) # <<>>
         /\ Append(q, m)[Len(Append(q, m))] = m
<1> DEFINE r == Append(q, m)
           n == Len(q)
<1>1. /\ n \in Nat /\ r \in Seq(Message) /\ Len(r) = n + 1 /\ r[n + 1] = m /\ r # <<>>
      /\ \A k \in 1 .. n : r[k] = q[k]
      /\ q = <<>> <=> n = 0
  BY AppendProperties, EmptySeq, LenProperties
<1> HIDE DEF r, n
<1>2. /\ \A k \in 1 .. n : Texted(q[k])
      /\ \A k \in 2 .. n : Follows(q[k - 1], q[k])
      /\ q # <<>> => Allowed(stage, q[1])
      /\ q # <<>> => Follows(q[n], m)
  BY DEF Run, n
<1>3. \A k \in 1 .. n + 1 : Texted(r[k])
  BY <1>1, <1>2
<1>4. \A k \in 2 .. n + 1 : Follows(r[k - 1], r[k])
  <2> SUFFICES ASSUME NEW k \in 2 .. n + 1 PROVE Follows(r[k - 1], r[k])
    OBVIOUS
  <2>1. CASE k = n + 1
    BY <1>1, <1>2, <2>1
  <2>2. CASE k \in 2 .. n
    <3>1. r[k] = q[k] /\ r[k - 1] = q[k - 1]
      BY <1>1, <2>2
    <3> QED
      BY <1>2, <2>2, <3>1
  <2> QED
    BY <1>1, <2>1, <2>2
<1>5. Allowed(stage, r[1])
  BY <1>1, <1>2
<1>6. Run(r)
  BY <1>1, <1>3, <1>4, <1>5 DEF Run
<1> QED
  BY <1>1, <1>6 DEF r

\* When nothing is shown, a new token may be created and begun.
LEMMA ShowNew ==
  ASSUME TypeOK, Showing, ~Live, NEW t \in Tokens, t > tokenId \/ t = token, NEW x \in Texts
  PROVE  LET q == out \o << Msg("create", t, NoText), Msg("begin", t, x) >>
         IN  q \in Seq(Message) /\ q # <<>> /\ Run(q) /\ q[Len(q)] = Msg("begin", t, x)
<1> DEFINE c == Msg("create", t, NoText)
           b == Msg("begin", t, x)
           r == Append(out, c)
<1>1. /\ c \in Message /\ c.kind = "create" /\ c.token = t
      /\ b \in Message /\ b.kind = "begin" /\ b.token = t /\ b.text = x
  BY MessageFields
<1>2. /\ out \in Seq(Message) /\ tokenId \in Nat /\ t \in Nat /\ token \in {NoToken, tokenId}
      /\ Run(out) /\ QueueCatchesUp /\ NoToken = 0 /\ t # NoToken
  BY DEF TypeOK, Showing, QueueIsRun, TokenInUse, NoToken, Tokens
<1> HIDE DEF c, b
<1>3. out = <<>> => Allowed(stage, c)
  <2> SUFFICES ASSUME out = <<>>, NEW u \in Tokens
               PROVE  ~Open(u) /\ (u >= t => stage[u] = "none")
    BY <1>1 DEF Allowed, Open
  <2>1. ~Open(u) /\ (u > tokenId \/ u = token => stage[u] = "none")
    BY <1>2 DEF QueueCatchesUp
  <2>2. u >= t => u > tokenId \/ u = token
    BY <1>2 DEF Tokens
  <2> QED
    BY <2>1, <2>2
<1>4. out # <<>> => Follows(out[Len(out)], c)
  <2> SUFFICES ASSUME out # <<>> PROVE Follows(out[Len(out)], c)
    OBVIOUS
  <2> DEFINE l == out[Len(out)]
  <2>1. l.kind = "end" /\ l.token <= tokenId /\ l.token # token
    BY <1>2 DEF QueueCatchesUp
  <2>2. l.token \in Tokens
    <3>1. Len(out) \in 1 .. Len(out)
      BY <1>2, EmptySeq
    <3>2. l \in Message
      BY <1>2, <3>1, ElementOfSeq
    <3> QED
      BY <3>2 DEF Message
  <2> HIDE DEF l
  <2>3. l.token < t
    BY <1>2, <2>1, <2>2 DEF Tokens
  <2>4. Follows(l, c)
    BY <1>1, <2>1, <2>3 DEF Follows
  <2> QED
    BY <2>4 DEF l
<1>5. Texted(c) /\ Texted(b)
  BY <1>1 DEF Texted
<1>6. r \in Seq(Message) /\ Run(r) /\ r # <<>> /\ r[Len(r)] = c
  BY <1>1, <1>2, <1>3, <1>4, <1>5, RunAppend
<1>7. out \o <<c, b>> = Append(r, b)
  BY <1>1, <1>2
<1> HIDE DEF r
<1>8. Follows(c, b)
  BY <1>1 DEF Follows
<1>9. /\ Append(r, b) \in Seq(Message) /\ Run(Append(r, b)) /\ Append(r, b) # <<>>
      /\ Append(r, b)[Len(Append(r, b))] = b
  BY <1>1, <1>5, <1>6, <1>8, RunAppend
<1> QED
  BY <1>7, <1>9 DEF c, b

\* A token that is shown may be reported on or ended.
LEMMA ShowMore ==
  ASSUME TypeOK, Showing, Live, NEW m \in Message, m.kind \in {"report", "end"},
         m.token = token, Texted(m)
  PROVE  LET q == out \o << m >>
         IN  q \in Seq(Message) /\ q # <<>> /\ Run(q) /\ q[Len(q)] = m
<1>1. out \in Seq(Message) /\ Run(out) /\ QueueCatchesUp
  BY DEF TypeOK, Showing, QueueIsRun
<1>2. out = <<>> => Allowed(stage, m)
  BY <1>1 DEF QueueCatchesUp, Allowed
<1>3. out # <<>> => Follows(out[Len(out)], m)
  BY <1>1 DEF QueueCatchesUp, Follows
<1>4. /\ Append(out, m) \in Seq(Message) /\ Run(Append(out, m)) /\ Append(out, m) # <<>>
      /\ Append(out, m)[Len(Append(out, m))] = m
  BY <1>1, <1>2, <1>3, RunAppend
<1>5. out \o <<m>> = Append(out, m)
  BY <1>1
<1> QED
  BY <1>4, <1>5

\* What the client has seen only changes with a write.
LEMMA RunIsKept ==
  ASSUME stage' = stage
  PROVE  /\ OneOpen => OneOpen'
         /\ \A t : Open(t)' <=> Open(t)
         /\ Run(out') => QueueIsRun'
<1>1. \A t : Open(t)' <=> Open(t)
  BY DEF Open
<1>2. OneOpen => OneOpen'
  BY <1>1 DEF OneOpen
<1>3. \A m : Allowed(stage', m) <=> Allowed(stage, m)
  OBVIOUS
<1>4. Run(out') => QueueIsRun'
  BY <1>3 DEF Run, QueueIsRun
<1> QED
  BY <1>1, <1>2, <1>4

\* The delay shows the first of the texts that have come meanwhile.
LEMMA DelayElapsedKeeps ==
  ASSUME IInv, DelayElapsed
  PROVE  IInv'
<1>1. /\ armed /\ fired' = TRUE /\ armed' = FALSE
      /\ UNCHANGED <<op, text, starts, canceled, zeroDelay, ch, running, loading, count, token,
                     tokenId, stage, shown>>
  BY DEF DelayElapsed, opVars, clientVars
<1>2. TypeOK /\ Showing /\ TokenInUse /\ KeysAreCounted
  BY DEF IInv, Showing
<1>3. token # NoToken /\ loading # <<>> /\ ~begun /\ token = tokenId
  BY <1>1, <1>2 DEF TokenInUse
<1> DEFINE x == Head(loading)
<1>4. /\ out' = out \o << Msg("create", token, NoText), Msg("begin", token, x) >>
      /\ begun' = TRUE
  BY <1>3 DEF DelayElapsed, BeginOrReport
<1>5. x \in Texts /\ x \in ToSet(loading) /\ token \in Tokens
  <2>1. loading \in Seq(Texts)
    BY <1>2 DEF TypeOK
  <2>2. x \in Texts /\ x = loading[1] /\ 1 \in DOMAIN loading
    BY <1>3, <2>1
  <2> QED
    BY <1>2, <1>3, <2>2 DEF ToSet, TypeOK
<1>6. ~Live
  BY <1>3 DEF Live
<1> HIDE DEF x
<1>7. /\ out' \in Seq(Message) /\ out' # <<>> /\ Run(out')
      /\ out'[Len(out')] = Msg("begin", token, x)
  BY <1>2, <1>4, <1>5, <1>6, ShowNew
<1>8. TypeOK' /\ CallersHaveTexts'
  <2>1. fired' \in BOOLEAN /\ armed' \in BOOLEAN /\ begun' \in BOOLEAN
    BY <1>1, <1>4
  <2> QED
    BY <1>1, <1>7, <2>1 DEF IInv, TypeOK, CallersHaveTexts
<1>9. KeysAreCounted'
  BY <1>1, <1>2 DEF KeysAreCounted
<1>10. Counting'
  <2>1. \A y : Finishing(y)' = Finishing(y) /\ Sent(y)' = Sent(y)
    BY <1>1 DEF Finishing, Sent
  <2>2. Starting' = Starting
    BY <1>1 DEF Starting
  <2>3. NeverShort' /\ TokensLeft'
    BY <1>1, <2>2 DEF IInv, Counting, NeverShort, TokensLeft
  <2>4. Balanced'
    BY <1>1, <2>1 DEF IInv, Counting, Balanced
  <2> QED
    BY <2>3, <2>4 DEF Counting
<1>11. TokenInUse'
  BY <1>1, <1>2, <1>3, <1>4 DEF TokenInUse
<1>12. QueueCatchesUp'
  <2>1. Live'
    BY <1>1, <1>3, <1>4 DEF Live
  <2>2. Msg("begin", token, x).kind = "begin" /\ Msg("begin", token, x).token = token
        /\ Msg("begin", token, x).text = x
    BY <1>5, MessageFields
  <2> QED
    BY <1>1, <1>5, <1>7, <2>1, <2>2 DEF QueueCatchesUp
<1>13. Showing'
  BY <1>1, <1>2, <1>7, <1>11, <1>12, RunIsKept DEF Showing
<1> QED
  BY <1>8, <1>9, <1>10, <1>13 DEF IInv


\* An event handled moves from the channel to the count.
LEMMA ReceiveCounts ==
  ASSUME TypeOK, Counting, ch # <<>>, ch' = Tail(ch), count' \in [Texts -> Nat],
         \A y \in Texts : count'[y] = count[y] + (IF Head(ch) \in StartsOf(y) THEN 1 ELSE 0)
                                               - (IF Head(ch) \in EndsOf(y) THEN 1 ELSE 0),
         tokenId' \in Nat, tokenId' <= tokenId + (IF Head(ch) \in AnyStart THEN 1 ELSE 0),
         UNCHANGED <<op, text, starts, canceled, running>>
  PROVE  Counting'
<1> DEFINE n == Len(ch) - 1
<1>1. /\ ch \in Seq(Event) /\ n \in Nat /\ Len(ch') = n /\ Len(ch) = n + 1
      /\ count \in [Texts -> Nat]
  BY EmptySeq, HeadTailProperties DEF TypeOK
<1> HIDE DEF n
<1>2. ASSUME NEW E, NEW k \in 0 .. n
      PROVE  EventsIn(ch, E, k + 1) = EventsIn(ch', E, k) + (IF Head(ch) \in E THEN 1 ELSE 0)
  BY <1>1, EventsInTail DEF n
<1>3. ASSUME NEW y \in Texts, NEW k \in 0 .. n
      PROVE  Balance(count'[y], ch', y, k) = Balance(count[y], ch, y, k + 1)
  <2>1. /\ EventsIn(ch, StartsOf(y), k + 1)
             = EventsIn(ch', StartsOf(y), k) + (IF Head(ch) \in StartsOf(y) THEN 1 ELSE 0)
        /\ EventsIn(ch, EndsOf(y), k + 1)
             = EventsIn(ch', EndsOf(y), k) + (IF Head(ch) \in EndsOf(y) THEN 1 ELSE 0)
    BY <1>2
  <2>2. EventsIn(ch', StartsOf(y), k) \in Nat /\ EventsIn(ch', EndsOf(y), k) \in Nat
    <3>1. k \in Nat
      BY <1>1
    <3> QED
      BY <3>1, EventsInNat
  <2>3. count[y] \in Nat /\ count'[y] \in Nat
    BY <1>1
  <2>4. /\ Balance(count'[y], ch', y, k)
             = count'[y] + EventsIn(ch', StartsOf(y), k) - EventsIn(ch', EndsOf(y), k)
        /\ Balance(count[y], ch, y, k + 1)
             = count[y] + EventsIn(ch, StartsOf(y), k + 1) - EventsIn(ch, EndsOf(y), k + 1)
    BY DEF Balance
  <2> QED
    BY <2>1, <2>2, <2>3, <2>4
<1>4. NeverShort'
  <2> SUFFICES ASSUME NEW y \in Texts, NEW k \in 0 .. n
               PROVE  Balance(count'[y], ch', y, k) >= 0
    BY <1>1 DEF NeverShort
  <2>1. k + 1 \in 0 .. Len(ch)
    BY <1>1
  <2>2. Balance(count[y], ch, y, k + 1) >= 0
    BY <2>1 DEF Counting, NeverShort
  <2> QED
    BY <1>3, <2>2
<1>5. Balanced'
  <2>1. \A y : Finishing(y)' = Finishing(y) /\ Sent(y)' = Sent(y)
    BY DEF Finishing, Sent
  <2>2. n \in 0 .. n
    BY <1>1
  <2>3. \A y \in Texts : Balance(count'[y], ch', y, Len(ch')) = Balance(count[y], ch, y, Len(ch))
    BY <1>1, <1>3, <2>2
  <2> QED
    BY <2>1, <2>3 DEF Counting, Balanced
<1>6. TokensLeft'
  <2>1. Starting' = Starting /\ Cardinality(Starting) \in Nat
    BY CallersAreNumbers DEF Starting
  <2>2. n \in 0 .. n
    BY <1>1
  <2>3. EventsIn(ch, AnyStart, Len(ch))
          = EventsIn(ch', AnyStart, n) + (IF Head(ch) \in AnyStart THEN 1 ELSE 0)
    BY <1>1, <1>2, <2>2
  <2>4. EventsIn(ch', AnyStart, n) \in Nat
    BY <1>1, EventsInNat
  <2>5. /\ tokenId \in Nat /\ starts \in Nat
        /\ tokenId + EventsIn(ch, AnyStart, Len(ch)) + Cardinality(Starting) <= starts
    BY ChannelIsCounted DEF Counting, TokensLeft
  <2>6. tokenId' + EventsIn(ch', AnyStart, n) + Cardinality(Starting) <= starts
    BY <2>1, <2>3, <2>4, <2>5
  <2> QED
    BY <1>1, <2>1, <2>6 DEF TokensLeft
<1> QED
  BY <1>4, <1>5, <1>6 DEF Counting

\* The first start takes a token and shows its text, now or after the delay; a later
\* one shows its text once the delay is over.
LEMMA RecvStartKeeps ==
  ASSUME IInv, RecvStart
  PROVE  IInv'
<1> DEFINE x == Head(ch).text
           fresh == token = NoToken
           t == IF fresh THEN tokenId + 1 ELSE token
           b == ~fresh /\ begun
<1>1. /\ running /\ ch # <<>> /\ ~Head(ch).finish /\ ch' = Tail(ch)
      /\ loading' = IF count[x] = 0 THEN Append(loading, x) ELSE loading
      /\ count' = [count EXCEPT ![x] = @ + 1]
      /\ token' = t
      /\ tokenId' = IF fresh THEN tokenId + 1 ELSE tokenId
      /\ armed' = IF fresh /\ ~zeroDelay THEN TRUE ELSE armed
      /\ fired' = IF fresh THEN zeroDelay ELSE fired
      /\ begun' = (b \/ fired')
      /\ UNCHANGED <<op, text, starts, canceled, zeroDelay, running, stage, shown>>
  BY DEF RecvStart, opVars, clientVars
<1>2. out' = out \o (IF fresh /\ zeroDelay THEN << Msg("create", t, NoText) >> ELSE <<>>)
                 \o (IF fired' THEN << BeginOrReport(t, x, b) >> ELSE <<>>)
  BY DEF RecvStart
<1>3. TypeOK /\ KeysAreCounted /\ Counting /\ Showing /\ TokenInUse
  BY DEF IInv, Showing
<1>4. /\ ch \in Seq(Event) /\ loading \in Seq(Texts) /\ count \in [Texts -> Nat]
      /\ out \in Seq(Message) /\ tokenId \in Nat /\ NoToken = 0
      /\ zeroDelay \in BOOLEAN /\ armed \in BOOLEAN /\ fired \in BOOLEAN /\ begun \in BOOLEAN
  BY <1>3 DEF TypeOK, Tokens, NoToken
<1>5. /\ Head(ch) \in Event /\ ch' \in Seq(Event) /\ Len(ch') = Len(ch) - 1
  BY <1>1, <1>4, HeadTailProperties
<1>6. /\ x \in Texts /\ Head(ch) \in AnyStart
      /\ \A y \in Texts : /\ Head(ch) \in StartsOf(y) <=> x = y
                          /\ Head(ch) \notin EndsOf(y)
  <2>1. x \in Texts
    BY <1>5 DEF Event
  <2>2. Head(ch) \in AnyStart
    BY <1>1, <1>5, <2>1, EventKinds
  <2>3. ASSUME NEW y \in Texts
        PROVE  (Head(ch) \in StartsOf(y) <=> x = y) /\ Head(ch) \notin EndsOf(y)
    BY <1>1, <1>5, EventKinds
  <2> QED
    BY <2>1, <2>2, <2>3
<1> HIDE DEF x
<1>7. count' \in [Texts -> Nat] /\ \A y \in Texts : count'[y] = IF y = x THEN count[y] + 1 ELSE count[y]
  BY <1>1, <1>4, <1>6
<1>8. Counting'
  <2>1. \A y \in Texts : count'[y] = count[y] + (IF Head(ch) \in StartsOf(y) THEN 1 ELSE 0)
                                              - (IF Head(ch) \in EndsOf(y) THEN 1 ELSE 0)
    BY <1>4, <1>6, <1>7
  <2>2. tokenId' \in Nat /\ tokenId' <= tokenId + (IF Head(ch) \in AnyStart THEN 1 ELSE 0)
    BY <1>1, <1>4, <1>6
  <2> QED
    BY <1>1, <1>3, <1>7, <2>1, <2>2, ReceiveCounts
<1>9. tokenId' \in Tokens \cup {NoToken} /\ t \in Tokens /\ t = tokenId'
  <2>1. Len(ch') \in Nat
    BY <1>5, LenProperties
  <2>2. EventsIn(ch', AnyStart, Len(ch')) \in Nat
    BY <2>1, EventsInNat
  <2>3. Starting' = Starting /\ Cardinality(Starting) \in Nat
    BY <1>1, CallersAreNumbers DEF Starting
  <2>4. tokenId' + EventsIn(ch', AnyStart, Len(ch')) + Cardinality(Starting) <= starts
    BY <1>1, <1>8, <2>3 DEF Counting, TokensLeft
  <2>5. starts \in 0 .. MaxStarts /\ MaxStarts \in Nat
    BY <1>3, StartsAssumption DEF TypeOK
  <2>6. tokenId' \in 0 .. MaxStarts
    BY <1>1, <1>4, <2>2, <2>3, <2>4, <2>5
  <2>7. t = tokenId' /\ t # 0
    BY <1>1, <1>3, <1>4 DEF TokenInUse
  <2> QED
    BY <1>4, <2>5, <2>6, <2>7 DEF Tokens
<1>10. /\ loading' \in Seq(Texts) /\ ToSet(loading') = ToSet(loading) \cup {x}
       /\ \A i, j \in DOMAIN loading' : loading'[i] = loading'[j] => i = j
  <2>1. /\ ToSet(loading) = {y \in Texts : count[y] > 0}
        /\ \A i, j \in DOMAIN loading : loading[i] = loading[j] => i = j
    BY <1>3 DEF KeysAreCounted
  <2>2. CASE count[x] = 0
    <3>1. x \notin ToSet(loading)
      BY <2>1, <2>2
    <3> QED
      BY <1>1, <1>4, <1>6, <2>1, <2>2, <3>1, AppendAddsKey
  <2>3. CASE count[x] # 0
    <3>1. x \in ToSet(loading)
      BY <1>4, <1>6, <2>1, <2>3
    <3> QED
      BY <1>1, <1>4, <2>1, <2>3, <3>1
  <2> QED
    BY <2>2, <2>3
<1>11. KeysAreCounted'
  <2>1. {y \in Texts : count'[y] > 0} = {y \in Texts : count[y] > 0} \cup {x}
    BY <1>4, <1>6, <1>7
  <2> QED
    BY <1>3, <1>10, <2>1 DEF KeysAreCounted
<1>12. loading' # <<>>
  <2>1. x \in ToSet(loading')
    BY <1>10
  <2> QED
    BY <2>1 DEF ToSet
<1>13. TokenInUse'
  <2>1. token' = tokenId' /\ token' # NoToken
    <3>1. 0 \notin Tokens /\ token' = t
      BY <1>1 DEF Tokens
    <3> HIDE DEF t
    <3> QED
      BY <1>4, <1>9, <3>1
  <2>2. armed' => ~fired' /\ ~begun'
    BY <1>1, <1>3 DEF TokenInUse
  <2>3. begun' <=> fired'
    BY <1>1, <1>3 DEF TokenInUse
  <2> QED
    BY <1>12, <2>1, <2>2, <2>3 DEF TokenInUse
<1>14. out' \in Seq(Message) /\ Run(out') /\ QueueCatchesUp'
  <2>1. token' # NoToken /\ (Live' <=> fired') /\ Run(out) /\ QueueCatchesUp
    BY <1>3, <1>12, <1>13 DEF Live, TokenInUse, Showing, QueueIsRun
  <2>2. \A u : Open(u)' <=> Open(u)
    BY <1>1, RunIsKept
  <2>3. CASE ~fired'
    <3>1. out' = out
      BY <1>1, <1>2, <1>4, <2>3, ConcatEmptySeq
    <3>2. ~Live /\ ~Live'
      BY <1>1, <1>3, <2>1, <2>3 DEF Live, TokenInUse
    <3>3. out = <<>> => shown' = NoText /\ \A u \in Tokens :
             ~Open(u)' /\ (u > tokenId' \/ u = token' => stage'[u] = "none")
      <4> SUFFICES ASSUME out = <<>>
                   PROVE  shown = NoText /\ \A u \in Tokens :
                            ~Open(u) /\ (u > tokenId' \/ u = token' => stage[u] = "none")
        BY <1>1, <2>2
      <4>1. shown = NoText /\ \A u \in Tokens :
              ~Open(u) /\ (u > tokenId \/ u = token => stage[u] = "none")
        BY <2>1, <3>2 DEF QueueCatchesUp
      <4>2. \A u \in Tokens : u > tokenId' \/ u = token' => u > tokenId \/ u = token
        BY <1>1, <1>4 DEF Tokens
      <4> QED
        BY <4>1, <4>2
    <3>4. out # <<>> => LET m == out[Len(out)] IN
             m.kind = "end" /\ m.token <= tokenId' /\ m.token # token'
      <4> SUFFICES ASSUME out # <<>>
                   PROVE  LET m == out[Len(out)] IN
                          m.kind = "end" /\ m.token <= tokenId' /\ m.token # token'
        OBVIOUS
      <4> DEFINE m == out[Len(out)]
      <4>1. m.kind = "end" /\ m.token <= tokenId /\ m.token # token
        BY <2>1, <3>2 DEF QueueCatchesUp
      <4>2. m.token \in Tokens
        <5>1. Len(out) \in 1 .. Len(out)
          BY <1>4, EmptySeq
        <5>2. m \in Message
          BY <1>4, <5>1, ElementOfSeq
        <5> QED
          BY <5>2 DEF Message
      <4> HIDE DEF m
      <4>3. m.token <= tokenId' /\ m.token # token'
        BY <1>1, <1>4, <4>1, <4>2 DEF Tokens
      <4> QED
        BY <4>1, <4>3 DEF m
    <3>5. QueueCatchesUp'
      BY <3>1, <3>2, <3>3, <3>4 DEF QueueCatchesUp
    <3> QED
      BY <1>4, <2>1, <3>1, <3>5
  <2>4. CASE fired' /\ fresh
    <3>1. zeroDelay /\ ~b
      BY <1>1, <2>4
    <3>2. out' = out \o << Msg("create", t, NoText), Msg("begin", t, x) >>
      <4>1. out' = out \o << Msg("create", t, NoText) >> \o << Msg("begin", t, x) >>
        BY <1>2, <2>4, <3>1 DEF BeginOrReport
      <4>2. Msg("create", t, NoText) \in Message /\ Msg("begin", t, x) \in Message
        BY <1>6, <1>9, MessageFields
      <4> QED
        BY <1>4, <4>1, <4>2
    <3>3. ~Live /\ t > tokenId
      BY <1>4, <2>4 DEF Live
    <3> HIDE DEF t, b, fresh
    <3>4. /\ out' \in Seq(Message) /\ out' # <<>> /\ Run(out')
          /\ out'[Len(out')] = Msg("begin", t, x)
      BY <1>3, <1>6, <1>9, <3>2, <3>3, ShowNew
    <3>5. Msg("begin", t, x).kind = "begin" /\ Msg("begin", t, x).token = t
          /\ Msg("begin", t, x).text = x
      BY <1>6, <1>9, MessageFields
    <3>6. QueueCatchesUp'
      BY <1>1, <1>10, <2>1, <2>4, <3>4, <3>5 DEF QueueCatchesUp
    <3> QED
      BY <3>4, <3>6
  <2>5. CASE fired' /\ ~fresh
    <3> DEFINE m == Msg("report", token, x)
    <3>1. fired /\ begun /\ t = token /\ Live /\ b
      BY <1>1, <1>3, <2>5 DEF TokenInUse, Live
    <3>2. /\ m \in Message /\ m.kind = "report" /\ m.token = token /\ m.text = x
      BY <1>6, <1>9, <3>1, MessageFields
    <3>3. out' = out \o << m >>
      <4>1. out' = out \o <<>> \o << m >>
        BY <1>2, <2>5, <3>1 DEF BeginOrReport
      <4>2. out \o <<>> = out
        BY <1>4, ConcatEmptySeq
      <4> QED
        BY <4>1, <4>2
    <3>4. Texted(m)
      BY <1>6, <3>2 DEF Texted
    <3> HIDE DEF m
    <3>5. out' \in Seq(Message) /\ out' # <<>> /\ Run(out') /\ out'[Len(out')] = m
      BY <1>3, <3>1, <3>2, <3>3, <3>4, ShowMore
    <3>6. QueueCatchesUp'
      BY <1>1, <1>10, <2>1, <2>5, <3>1, <3>2, <3>5 DEF QueueCatchesUp
    <3> QED
      BY <3>5, <3>6
  <2> QED
    BY <2>3, <2>4, <2>5
<1>15. TypeOK'
  <2>1. Len(ch') <= Capacity
    BY <1>3, <1>4, <1>5, LenProperties, CapacityAssumption DEF TypeOK
  <2>2. token' \in Tokens \cup {NoToken} /\ tokenId' \in Tokens \cup {NoToken}
    BY <1>1, <1>9
  <2>3. fired' \in BOOLEAN /\ armed' \in BOOLEAN /\ begun' \in BOOLEAN
    BY <1>1, <1>4
  <2> QED
    BY <1>1, <1>3, <1>5, <1>7, <1>10, <1>14, <2>1, <2>2, <2>3 DEF TypeOK
<1>16. CallersHaveTexts'
  BY <1>1 DEF IInv, CallersHaveTexts
<1>17. Showing'
  BY <1>1, <1>3, <1>13, <1>14, RunIsKept DEF Showing
<1> QED
  BY <1>8, <1>11, <1>15, <1>16, <1>17 DEF IInv


\* The end of an operation finds it counted; the last one ends an indicator that has
\* begun, and the others leave the first remaining text on it.
LEMMA RecvFinishKeeps ==
  ASSUME IInv, RecvFinish
  PROVE  IInv'
<1> DEFINE x == Head(ch).text
<1>1. /\ running /\ ch # <<>> /\ Head(ch).finish /\ ch' = Tail(ch)
      /\ loading' = LoadingAfterFinish(x)
      /\ count' = [count EXCEPT ![x] = IF @ <= 1 THEN 0 ELSE @ - 1]
      /\ out' = out \o FinishMessages(x)
      /\ UNCHANGED <<op, text, starts, canceled, zeroDelay, running, tokenId, begun, fired,
                     stage, shown>>
  BY DEF RecvFinish, opVars, clientVars
<1>2. IF token # NoToken /\ loading' = <<>> THEN armed' = FALSE /\ token' = NoToken
      ELSE armed' = armed /\ token' = token
  BY DEF RecvFinish
<1>3. TypeOK /\ KeysAreCounted /\ Counting /\ Showing /\ TokenInUse
  BY DEF IInv, Showing
<1>4. /\ ch \in Seq(Event) /\ loading \in Seq(Texts) /\ count \in [Texts -> Nat]
      /\ out \in Seq(Message) /\ tokenId \in Nat /\ NoToken = 0 /\ token \in Tokens \cup {NoToken}
      /\ armed \in BOOLEAN /\ fired \in BOOLEAN /\ begun \in BOOLEAN
  BY <1>3 DEF TypeOK, Tokens, NoToken
<1>5. /\ Head(ch) \in Event /\ ch' \in Seq(Event) /\ Len(ch') = Len(ch) - 1 /\ Len(ch) \in Nat
      /\ Head(ch) = ch[1] /\ Len(ch) >= 1
  BY <1>1, <1>4, HeadTailProperties
<1>6. /\ x \in Texts /\ Head(ch) \notin AnyStart
      /\ \A y \in Texts : /\ Head(ch) \in EndsOf(y) <=> x = y
                          /\ Head(ch) \notin StartsOf(y)
  <2>1. x \in Texts
    BY <1>5 DEF Event
  <2>2. Head(ch) \notin AnyStart
    BY <1>1, <1>5, <2>1, EventKinds
  <2>3. ASSUME NEW y \in Texts
        PROVE  (Head(ch) \in EndsOf(y) <=> x = y) /\ Head(ch) \notin StartsOf(y)
    BY <1>1, <1>5, EventKinds
  <2> QED
    BY <2>1, <2>2, <2>3
<1> HIDE DEF x
<1>7. count[x] \in Nat /\ count[x] >= 1
  <2>1. Balance(count[x], ch, x, 1) >= 0
    <3>1. 1 \in 0 .. Len(ch)
      BY <1>5
    <3> QED
      BY <1>3, <1>6, <3>1 DEF Counting, NeverShort
  <2>2. /\ EventsIn(ch, StartsOf(x), 0 + 1)
             = EventsIn(ch, StartsOf(x), 0) + (IF ch[0 + 1] \in StartsOf(x) THEN 1 ELSE 0)
        /\ EventsIn(ch, EndsOf(x), 0 + 1)
             = EventsIn(ch, EndsOf(x), 0) + (IF ch[0 + 1] \in EndsOf(x) THEN 1 ELSE 0)
    BY EventsInStep
  <2>3. EventsIn(ch, StartsOf(x), 0) = 0 /\ EventsIn(ch, EndsOf(x), 0) = 0
    BY EventsInNat
  <2>4. 0 + 1 = 1 /\ ch[1] \in EndsOf(x) /\ ch[1] \notin StartsOf(x)
    BY <1>5, <1>6
  <2>5. EventsIn(ch, StartsOf(x), 1) = 0 /\ EventsIn(ch, EndsOf(x), 1) = 1
    BY <2>2, <2>3, <2>4
  <2>6. Balance(count[x], ch, x, 1) = count[x] + 0 - 1
    BY <2>5 DEF Balance
  <2> QED
    BY <1>4, <1>6, <2>1, <2>6
<1>8. count' \in [Texts -> Nat] /\ \A y \in Texts : count'[y] = IF y = x THEN count[y] - 1 ELSE count[y]
  BY <1>1, <1>4, <1>6, <1>7
<1>9. Counting'
  <2>1. \A y \in Texts : count'[y] = count[y] + (IF Head(ch) \in StartsOf(y) THEN 1 ELSE 0)
                                              - (IF Head(ch) \in EndsOf(y) THEN 1 ELSE 0)
    BY <1>4, <1>6, <1>8
  <2>2. tokenId' \in Nat /\ tokenId' <= tokenId + (IF Head(ch) \in AnyStart THEN 1 ELSE 0)
    BY <1>1, <1>4, <1>6
  <2> QED
    BY <1>1, <1>3, <1>8, <2>1, <2>2, ReceiveCounts
<1>10. /\ loading' \in Seq(Texts)
       /\ ToSet(loading') = IF count[x] = 1 THEN ToSet(loading) \ {x} ELSE ToSet(loading)
       /\ \A i, j \in DOMAIN loading' : loading'[i] = loading'[j] => i = j
  <2>1. \A i, j \in DOMAIN loading : loading[i] = loading[j] => i = j
    BY <1>3 DEF KeysAreCounted
  <2>2. loading' = IF count[x] = 1 THEN Delete(x) ELSE loading
    BY <1>1, <1>7 DEF LoadingAfterFinish
  <2> QED
    BY <1>4, <2>1, <2>2, DeleteKeepsOthers
<1>11. KeysAreCounted'
  <2>1. ToSet(loading) = {y \in Texts : count[y] > 0}
    BY <1>3 DEF KeysAreCounted
  <2>2. ToSet(loading') = {y \in Texts : count'[y] > 0}
    <3>1. CASE count[x] = 1
      BY <1>4, <1>6, <1>8, <1>10, <2>1, <3>1
    <3>2. CASE count[x] # 1
      <4>1. \A y \in Texts : count'[y] > 0 <=> count[y] > 0
        <5> SUFFICES ASSUME NEW y \in Texts PROVE count'[y] > 0 <=> count[y] > 0
          OBVIOUS
        <5>1. CASE y = x
          <6>1. count'[y] = count[x] - 1 /\ count[y] = count[x]
            BY <1>8, <5>1
          <6> QED
            BY <1>7, <3>2, <6>1
        <5>2. CASE y # x
          BY <1>8, <5>2
        <5> QED
          BY <5>1, <5>2
      <4> QED
        BY <1>10, <2>1, <3>2, <4>1
    <3> QED
      BY <3>1, <3>2
  <2> QED
    BY <1>10, <2>2 DEF KeysAreCounted
<1>12. token # NoToken /\ token = tokenId /\ token \in Tokens
  <2>1. x \in ToSet(loading)
    BY <1>3, <1>6, <1>7 DEF KeysAreCounted
  <2>2. loading # <<>>
    BY <2>1 DEF ToSet
  <2> QED
    BY <1>3, <1>4, <2>2 DEF TokenInUse
<1>13. TokenInUse'
  BY <1>1, <1>2, <1>3, <1>4, <1>12 DEF TokenInUse
<1>14. out' \in Seq(Message) /\ Run(out') /\ QueueCatchesUp'
  <2>0. Run(out) /\ QueueCatchesUp /\ (begun <=> fired)
    BY <1>3, <1>12 DEF Showing, QueueIsRun, TokenInUse
  <2>1. \A u : Open(u)' <=> Open(u)
    BY <1>1, RunIsKept
  <2>2. CASE ~begun
    <3>1. FinishMessages(x) = <<>>
      BY <2>0, <2>2 DEF FinishMessages
    <3>2. out' = out
      BY <1>1, <1>4, <3>1, ConcatEmptySeq
    <3>3. ~Live /\ ~Live' /\ tokenId' = tokenId /\ token' \in {token, NoToken}
      BY <1>1, <1>2, <2>2 DEF Live
    <3>4. QueueCatchesUp'
      <4>1. out = <<>> => shown' = NoText /\ \A u \in Tokens :
               ~Open(u)' /\ (u > tokenId' \/ u = token' => stage'[u] = "none")
        <5>1. NoToken \notin Tokens
          BY <1>4 DEF Tokens
        <5> QED
          BY <1>1, <2>0, <2>1, <3>3, <5>1 DEF QueueCatchesUp
      <4>2. out # <<>> => LET m == out[Len(out)] IN
               m.kind = "end" /\ m.token <= tokenId' /\ m.token # token'
        <5> SUFFICES ASSUME out # <<>>
                     PROVE  LET m == out[Len(out)] IN
                            m.kind = "end" /\ m.token <= tokenId' /\ m.token # token'
          OBVIOUS
        <5> DEFINE m == out[Len(out)]
        <5>1. m.kind = "end" /\ m.token <= tokenId /\ m.token # token
          BY <2>0, <3>3 DEF QueueCatchesUp
        <5>2. m.token # NoToken
          <6>1. Len(out) \in 1 .. Len(out)
            BY <1>4, EmptySeq
          <6>2. m \in Message
            BY <1>4, <6>1, ElementOfSeq
          <6> HIDE DEF m
          <6>3. m.token \in Tokens /\ NoToken \notin Tokens
            BY <1>4, <6>2 DEF Message, Tokens
          <6> QED
            BY <6>3
        <5> HIDE DEF m
        <5>3. m.kind = "end" /\ m.token <= tokenId' /\ m.token # token'
          BY <3>3, <5>1, <5>2
        <5> QED
          BY <5>3 DEF m
      <4> QED
        BY <3>2, <3>3, <4>1, <4>2 DEF QueueCatchesUp
    <3> QED
      BY <1>4, <2>0, <3>2, <3>4
  <2>3. CASE begun /\ loading' = <<>>
    <3> DEFINE m == Msg("end", token, NoText)
    <3>1. Live /\ ~Live' /\ token' = NoToken /\ tokenId' = tokenId
      BY <1>1, <1>2, <1>12, <2>3 DEF Live
    <3>2. m \in Message /\ m.kind = "end" /\ m.token = token
      BY <1>12, MessageFields
    <3>3. out' = out \o << m >>
      BY <1>1, <1>12, <2>3 DEF FinishMessages
    <3>4. Texted(m)
      BY <3>2 DEF Texted
    <3> HIDE DEF m
    <3>5. out' \in Seq(Message) /\ out' # <<>> /\ Run(out') /\ out'[Len(out')] = m
      BY <1>3, <3>1, <3>2, <3>3, <3>4, ShowMore
    <3>6. m.token <= tokenId' /\ m.token # token'
      BY <1>4, <1>12, <3>1, <3>2
    <3>7. QueueCatchesUp'
      BY <3>1, <3>2, <3>5, <3>6 DEF QueueCatchesUp
    <3> QED
      BY <3>5, <3>7
  <2>4. CASE begun /\ loading' # <<>>
    <3> DEFINE y == Head(loading')
               m == Msg("report", token, y)
    <3>1. Live /\ Live' /\ token' = token
      BY <1>1, <1>2, <1>12, <2>4 DEF Live
    <3>2. y \in Texts /\ y \in ToSet(loading')
      <4>1. y \in Texts /\ y = loading'[1] /\ 1 \in DOMAIN loading'
        BY <1>10, <2>4
      <4> QED
        BY <4>1 DEF ToSet
    <3>3. out' = out \o << m >>
      BY <1>1, <1>12, <2>0, <2>4 DEF FinishMessages
    <3> HIDE DEF y
    <3>4. m \in Message /\ m.kind = "report" /\ m.token = token /\ m.text = y
      BY <1>12, <3>2, MessageFields
    <3>5. Texted(m)
      BY <3>2, <3>4 DEF Texted
    <3> HIDE DEF m
    <3>6. out' \in Seq(Message) /\ out' # <<>> /\ Run(out') /\ out'[Len(out')] = m
      BY <1>3, <3>1, <3>3, <3>4, <3>5, ShowMore
    <3>7. QueueCatchesUp'
      BY <3>1, <3>2, <3>4, <3>6 DEF QueueCatchesUp
    <3> QED
      BY <3>6, <3>7
  <2> QED
    BY <1>4, <2>2, <2>3, <2>4
<1>15. TypeOK'
  <2>1. Len(ch') <= Capacity
    BY <1>3, <1>5, CapacityAssumption DEF TypeOK
  <2>2. token' \in Tokens \cup {NoToken} /\ armed' \in BOOLEAN
    BY <1>2, <1>4
  <2> QED
    BY <1>1, <1>3, <1>5, <1>8, <1>10, <1>14, <2>1, <2>2 DEF TypeOK
<1>16. CallersHaveTexts'
  BY <1>1 DEF IInv, CallersHaveTexts
<1>17. Showing'
  BY <1>1, <1>3, <1>13, <1>14, RunIsKept DEF Showing
<1> QED
  BY <1>9, <1>11, <1>15, <1>16, <1>17 DEF IInv

-----------------------------------------------------------------------------
(* The client.                                                             *)

\* The message written is one the client allows, and a step of the protocol.
LEMMA WriteImplements ==
  ASSUME IInv, Write
  PROVE  WDP!Next
<1> DEFINE m == Head(out)
           t == m.token
<1>1. /\ out # <<>>
      /\ stage' = [stage EXCEPT ![t] =
                    CASE m.kind = "create" -> "created"
                      [] m.kind = "begin"  -> "begun"
                      [] m.kind = "report" -> @
                      [] m.kind = "end"    -> "ended"]
      /\ shown' = CASE m.kind = "create" -> shown
                    [] m.kind \in {"begin", "report"} -> m.text
                    [] m.kind = "end" -> NoText
  BY DEF Write
<1>2. out \in Seq(Message) /\ Run(out) /\ stage \in [Tokens -> {"none", "created", "begun", "ended"}]
  BY DEF IInv, TypeOK, Showing, QueueIsRun
<1>3. /\ m = out[1] /\ m \in Message /\ 1 \in 1 .. Len(out)
  BY <1>1, <1>2
<1>4. /\ m.kind \in {"create", "begin", "report", "end"} /\ t \in Tokens /\ Allowed(stage, m) /\ Texted(m)
  BY <1>1, <1>2, <1>3 DEF Run, Message
<1> HIDE DEF m
<1>5. CASE m.kind = "create"
  <2>1. /\ stage' = [stage EXCEPT ![t] = "created"] /\ shown' = shown
    BY <1>1, <1>5
  <2>2. stage[t] = "none" /\ \A u \in Tokens : ~WDP!Open(u) /\ (u > t => stage[u] = "none")
    BY <1>4, <1>5 DEF Allowed, Open, WDP!Open, Tokens
  <2>3. WDP!Create(t)
    BY <2>1, <2>2 DEF WDP!Create
  <2> QED
    BY <1>4, <2>3 DEF WDP!Next
<1>6. CASE m.kind = "begin"
  <2>1. /\ stage' = [stage EXCEPT ![t] = "begun"] /\ shown' = m.text
    BY <1>1, <1>6
  <2>2. stage[t] = "created" /\ m.text \in Texts
    BY <1>4, <1>6 DEF Allowed, Texted
  <2>3. WDP!Begin(t, m.text)
    BY <2>1, <2>2 DEF WDP!Begin
  <2> QED
    BY <1>4, <2>2, <2>3 DEF WDP!Next
<1>7. CASE m.kind = "report"
  <2>1. /\ stage' = [stage EXCEPT ![t] = stage[t]] /\ shown' = m.text
    BY <1>1, <1>7
  <2>2. stage[t] = "begun" /\ m.text \in Texts /\ stage' = stage
    BY <1>2, <1>4, <1>7, <2>1 DEF Allowed, Texted
  <2>3. WDP!Report(t, m.text)
    BY <2>1, <2>2 DEF WDP!Report
  <2> QED
    BY <1>4, <2>2, <2>3 DEF WDP!Next
<1>8. CASE m.kind = "end"
  <2>1. /\ stage' = [stage EXCEPT ![t] = "ended"] /\ shown' = NoText
    BY <1>1, <1>8
  <2>2. stage[t] = "begun"
    BY <1>4, <1>8 DEF Allowed
  <2>3. WDP!End(t)
    BY <2>1, <2>2 DEF WDP!End
  <2> QED
    BY <1>4, <2>3 DEF WDP!Next
<1> QED
  BY <1>4, <1>5, <1>6, <1>7, <1>8


\* The client is one message further, and the queue goes on from there.
LEMMA WriteKeeps ==
  ASSUME IInv, Write
  PROVE  IInv'
<1> DEFINE m == Head(out)
           t == m.token
           n == Len(out) - 1
           s == CASE m.kind = "create" -> "created"
                  [] m.kind = "begin"  -> "begun"
                  [] m.kind = "report" -> stage[t]
                  [] m.kind = "end"    -> "ended"
<1>1. /\ out # <<>> /\ out' = Tail(out)
      /\ stage' = [stage EXCEPT ![t] = s]
      /\ shown' = CASE m.kind = "create" -> shown
                    [] m.kind \in {"begin", "report"} -> m.text
                    [] m.kind = "end" -> NoText
      /\ UNCHANGED <<op, text, starts, canceled, zeroDelay, ch, running, loading, count, token,
                     tokenId, begun, armed, fired>>
  BY DEF Write, opVars, taskVars
<1>2. /\ TypeOK /\ out \in Seq(Message) /\ Run(out) /\ OneOpen /\ QueueCatchesUp /\ TokenInUse
      /\ stage \in [Tokens -> {"none", "created", "begun", "ended"}]
  BY DEF IInv, TypeOK, Showing, QueueIsRun
<1>3. /\ m = out[1] /\ m \in Message /\ n \in Nat /\ Len(out) = n + 1
      /\ out' \in Seq(Message) /\ Len(out') = n /\ (out' = <<>> <=> n = 0)
      /\ \A k \in 1 .. n : out'[k] = out[k + 1]
  <2>1. /\ m \in Message /\ out' \in Seq(Message) /\ Len(out') = n
        /\ \A k \in 1 .. Len(out') : out'[k] = out[k + 1]
    BY <1>1, <1>2, HeadTailProperties
  <2>2. m = out[1] /\ n \in Nat /\ Len(out) = n + 1
    BY <1>1, <1>2
  <2>3. out' = <<>> <=> Len(out') = 0
    BY <2>1
  <2> QED
    BY <2>1, <2>2, <2>3
<1> HIDE DEF n
<1>4. /\ \A k \in 1 .. n + 1 : Texted(out[k])
      /\ \A k \in 2 .. n + 1 : Follows(out[k - 1], out[k])
      /\ Allowed(stage, m)
  BY <1>1, <1>2, <1>3 DEF Run
<1>5. /\ m.kind \in {"create", "begin", "report", "end"} /\ t \in Tokens
      /\ m.text \in Texts \cup {NoText}
      /\ m.kind \in {"begin", "report"} => m.text \in Texts
  <2>1. 1 \in 1 .. n + 1
    BY <1>3
  <2>2. Texted(m)
    BY <1>3, <1>4, <2>1
  <2> QED
    BY <1>3, <2>2 DEF Message, Texted
<1>6. /\ m.kind = "create" => s = "created" /\ stage[t] = "none"
      /\ m.kind = "begin" => s = "begun" /\ stage[t] = "created"
      /\ m.kind = "report" => s = "begun" /\ stage[t] = "begun"
      /\ m.kind = "end" => s = "ended" /\ stage[t] = "begun"
  <2>1. t >= t
    BY <1>5 DEF Tokens
  <2>2. /\ m.kind = "create" => stage[t] = "none"
        /\ m.kind = "begin" => stage[t] = "created"
        /\ m.kind \in {"report", "end"} => stage[t] = "begun"
    BY <1>4, <1>5, <2>1 DEF Allowed
  <2> QED
    BY <1>5, <2>2
<1>7. s \in {"created", "begun", "ended"}
  BY <1>5, <1>6
<1> HIDE DEF s, m
<1>8. /\ stage' \in [Tokens -> {"none", "created", "begun", "ended"}]
      /\ stage'[t] = s /\ \A u \in Tokens : u # t => stage'[u] = stage[u]
  BY <1>1, <1>2, <1>5, <1>7
<1>9. TypeOK' /\ CallersHaveTexts' /\ KeysAreCounted'
  <2>1. shown' \in Texts \cup {NoText}
    BY <1>1, <1>2, <1>5 DEF TypeOK
  <2>2. TypeOK'
    BY <1>1, <1>2, <1>3, <1>8, <2>1 DEF TypeOK
  <2> QED
    BY <1>1, <2>2 DEF IInv, CallersHaveTexts, KeysAreCounted
<1>10. Counting'
  <2>1. \A y : Finishing(y)' = Finishing(y) /\ Sent(y)' = Sent(y)
    BY <1>1 DEF Finishing, Sent
  <2>2. Starting' = Starting
    BY <1>1 DEF Starting
  <2>3. NeverShort' /\ TokensLeft'
    BY <1>1, <2>2 DEF IInv, Counting, NeverShort, TokensLeft
  <2>4. Balanced'
    BY <1>1, <2>1 DEF IInv, Counting, Balanced
  <2> QED
    BY <2>3, <2>4 DEF Counting
<1>11. TokenInUse'
  BY <1>1, <1>2 DEF TokenInUse
<1>12. \A u \in Tokens : u # t => ~Open(u)' /\ ~Open(u) /\ (u > t => stage'[u] = "none")
  <2> SUFFICES ASSUME NEW u \in Tokens, u # t
               PROVE  ~Open(u)' /\ ~Open(u) /\ (u > t => stage'[u] = "none")
    OBVIOUS
  <2>1. Open(u)' <=> Open(u)
    BY <1>8 DEF Open
  <2>2. CASE m.kind = "create"
    <3>1. u > t => u >= t
      BY <1>5 DEF Tokens
    <3> QED
      BY <1>4, <1>8, <2>1, <2>2, <3>1 DEF Allowed, Open
  <2>3. CASE m.kind # "create"
    <3>1. Open(t)
      BY <1>5, <1>6, <2>3 DEF Open
    <3> QED
      BY <1>2, <1>5, <1>8, <2>1, <3>1 DEF OneOpen
  <2> QED
    BY <2>2, <2>3
<1>13. OneOpen'
  <2> SUFFICES ASSUME NEW v \in Tokens, Open(v)', NEW u \in Tokens, u # v
               PROVE  ~Open(u)' /\ (u > v => stage'[u] = "none")
    BY DEF OneOpen
  <2>1. v = t
    BY <1>12
  <2> QED
    BY <1>12, <2>1
<1>14. n > 0 => Allowed(stage', out'[1])
  <2> SUFFICES ASSUME n > 0 PROVE Allowed(stage', out'[1])
    OBVIOUS
  <2> DEFINE l == out'[1]
  <2>1. 2 \in 2 .. n + 1 /\ 2 - 1 = 1 /\ 1 \in 1 .. n /\ 1 + 1 = 2
    BY <1>3
  <2>2. l = out[2] /\ Follows(m, l)
    BY <1>3, <1>4, <2>1
  <2>3. l \in Message
    BY <1>3, <2>1, ElementOfSeq
  <2> HIDE DEF l
  <2>4. l.kind \in {"create", "begin", "report", "end"} /\ l.token \in Tokens
    BY <2>3 DEF Message
  <2>5. CASE l.kind = "create"
    <3>1. m.kind = "end" /\ t < l.token
      BY <2>2, <2>5 DEF Follows
    <3>2. stage'[t] = "ended"
      BY <1>6, <1>8, <3>1
    <3>3. \A u \in Tokens : /\ stage'[u] \notin {"created", "begun"}
                            /\ u >= l.token => u # t /\ u > t
      BY <1>5, <1>12, <2>4, <3>1, <3>2 DEF Open, Tokens
    <3> QED
      BY <1>12, <2>5, <3>3 DEF Allowed, l
  <2>6. CASE l.kind = "begin"
    <3>1. m.kind = "create" /\ t = l.token
      BY <2>2, <2>6 DEF Follows
    <3> QED
      BY <1>6, <1>8, <2>6, <3>1 DEF Allowed, l
  <2>7. CASE l.kind \in {"report", "end"}
    <3>1. m.kind \in {"begin", "report"} /\ t = l.token
      BY <2>2, <2>7 DEF Follows
    <3> QED
      BY <1>6, <1>8, <2>7, <3>1 DEF Allowed, l
  <2> QED
    BY <2>4, <2>5, <2>6, <2>7 DEF l
<1>15. QueueIsRun'
  <2>1. \A k \in 1 .. n : Texted(out'[k])
    <3>1. \A k \in 1 .. n : k + 1 \in 1 .. n + 1
      BY <1>3
    <3> QED
      BY <1>3, <1>4, <3>1
  <2>2. \A k \in 2 .. n : Follows(out'[k - 1], out'[k])
    <3> SUFFICES ASSUME NEW k \in 2 .. n PROVE Follows(out'[k - 1], out'[k])
      OBVIOUS
    <3>1. k \in 1 .. n /\ k - 1 \in 1 .. n /\ (k - 1) + 1 = k /\ k + 1 \in 2 .. n + 1 /\ (k + 1) - 1 = k
      BY <1>3
    <3>2. out'[k] = out[k + 1] /\ out'[k - 1] = out[k]
      BY <1>3, <3>1
    <3>3. Follows(out[(k + 1) - 1], out[k + 1])
      BY <1>4, <3>1
    <3> QED
      BY <3>1, <3>2, <3>3
  <2>3. out' # <<>> => Allowed(stage', out'[1])
    BY <1>3, <1>14
  <2> QED
    BY <1>3, <2>1, <2>2, <2>3 DEF QueueIsRun, Run
<1>16. QueueCatchesUp'
  <2>1. Live' <=> Live
    BY <1>1 DEF Live
  <2> DEFINE l == out[Len(out)]
  <2>2. CASE n = 0
    <3>1. l = m /\ out' = <<>>
      BY <1>3, <2>2
    <3>2. CASE Live
      <4>1. m.kind \in {"begin", "report"} /\ t = token /\ m.text \in ToSet(loading)
        BY <1>1, <1>2, <3>1, <3>2 DEF QueueCatchesUp
      <4>2. shown' = m.text /\ stage'[token] = "begun"
        BY <1>1, <1>6, <1>8, <4>1
      <4> QED
        BY <1>1, <2>1, <3>1, <3>2, <4>1, <4>2 DEF QueueCatchesUp
    <3>3. CASE ~Live
      <4>1. m.kind = "end" /\ t <= tokenId /\ t # token
        BY <1>1, <1>2, <3>1, <3>3 DEF QueueCatchesUp
      <4>2. shown' = NoText /\ stage'[t] = "ended"
        BY <1>1, <1>6, <1>8, <4>1
      <4>3. tokenId \in Nat /\ token \in {NoToken, tokenId} /\ NoToken \notin Tokens
        BY <1>2 DEF TypeOK, TokenInUse, Tokens, NoToken
      <4>4. \A u \in Tokens : u > tokenId \/ u = token => u # t /\ u > t
        BY <1>5, <4>1, <4>3 DEF Tokens
      <4>5. \A u \in Tokens : ~Open(u)' /\ (u > tokenId \/ u = token => stage'[u] = "none")
        BY <1>12, <4>2, <4>4 DEF Open
      <4> QED
        BY <1>1, <2>1, <3>1, <3>3, <4>2, <4>5 DEF QueueCatchesUp
    <3> QED
      BY <3>2, <3>3
  <2>3. CASE n > 0
    <3>1. n \in 1 .. n
      BY <1>3, <2>3
    <3>2. out' # <<>> /\ out'[Len(out')] = l
      BY <1>3, <2>3, <3>1
    <3> HIDE DEF l
    <3>3. /\ Live => l.kind \in {"begin", "report"} /\ l.token = token /\ l.text \in ToSet(loading)
          /\ ~Live => l.kind = "end" /\ l.token <= tokenId /\ l.token # token
      BY <1>1, <1>2 DEF QueueCatchesUp, l
    <3> QED
      BY <1>1, <2>1, <3>2, <3>3 DEF QueueCatchesUp
  <2> QED
    BY <1>3, <2>2, <2>3
<1> QED
  BY <1>9, <1>10, <1>11, <1>13, <1>15, <1>16 DEF IInv, Showing

-----------------------------------------------------------------------------

\* Every step keeps the invariant.
LEMMA NextKeeps == IInv /\ [Next]_vars => IInv'
<1> SUFFICES ASSUME IInv, [Next]_vars PROVE IInv'
  OBVIOUS
<1>1. CASE UNCHANGED vars
  <2>1. UNCHANGED <<op, text, starts, canceled, zeroDelay, ch, running, loading, count, token,
                    tokenId, begun, armed, fired, out, stage, shown>>
    BY <1>1 DEF vars, opVars, taskVars, clientVars
  <2>2. TypeOK' /\ CallersHaveTexts'
    BY <2>1 DEF IInv, TypeOK, CallersHaveTexts
  <2>3. /\ \A x : Finishing(x)' = Finishing(x) /\ Sent(x)' = Sent(x)
        /\ Starting' = Starting
    BY <2>1 DEF Finishing, Sent, Starting
  <2>4. Counting'
    BY <2>1, <2>3 DEF IInv, Counting, NeverShort, Balanced, TokensLeft
  <2>5. KeysAreCounted' /\ Showing'
    BY <2>1, ShowingKept DEF IInv
  <2> QED
    BY <2>2, <2>4, <2>5 DEF IInv
<1> QED
  BY <1>1, StartKeeps, FinishKeeps, SendKeeps, SendFailsKeeps, CancelKeeps, TaskStopsKeeps,
     DelayElapsedKeeps, RecvStartKeeps, RecvFinishKeeps, WriteKeeps DEF Next

\* The events in the channel that CountsMatch speaks of.
LEMMA EventsOfText ==
  ASSUME NEW x \in Texts
  PROVE  /\ Events(x, FALSE) = EventsIn(ch, StartsOf(x), Len(ch))
         /\ Events(x, TRUE) = EventsIn(ch, EndsOf(x), Len(ch))
<1>1. /\ {i \in 1 .. Len(ch) : ch[i] = [text |-> x, finish |-> FALSE]}
           = {i \in 1 .. Len(ch) : ch[i] \in StartsOf(x)}
      /\ {i \in 1 .. Len(ch) : ch[i] = [text |-> x, finish |-> TRUE]}
           = {i \in 1 .. Len(ch) : ch[i] \in EndsOf(x)}
  BY DEF StartsOf, EndsOf
<1> QED
  BY <1>1 DEF Events, EventsIn

\* The invariant holds of every behaviour.
THEOREM ProgressInvariant == Spec => []IInv
  BY InitInv, NextKeeps, PTL DEF Spec

\* The task's counts, with the events still in the channel, are the operations in
\* progress, whatever the capacity of the channel and the texts: no event is lost,
\* handled twice, or handled before the start it ends.
THEOREM ProgressCountsMatch == Spec => []CountsMatch
<1>1. IInv => CountsMatch
  <2> SUFFICES ASSUME IInv PROVE CountsMatch
    OBVIOUS
  <2>1. TypeOK /\ KeysAreCounted /\ Balanced
    BY DEF IInv, Counting
  <2>2. ASSUME running, ~canceled, NEW x \in Texts
        PROVE  count[x] + Events(x, FALSE) - Events(x, TRUE) = Cardinality(Sent(x))
    BY <2>1, <2>2, EventsOfText DEF Balanced, Balance
  <2>3. Len(loading) = Cardinality(ToSet(loading))
    BY <2>1, LenOfKeys DEF TypeOK, KeysAreCounted
  <2> QED
    BY <2>1, <2>2, <2>3 DEF CountsMatch, KeysAreCounted
<1> QED
  BY <1>1, ProgressInvariant, PTL

\* With both queues drained, the client shows an indicator exactly when operations are
\* in progress and the delay is over, and its text is that of one of them.
THEOREM ProgressShowsWhatIsActive == Spec => []ShownIsActive
<1>1. IInv => ShownIsActive
  <2> SUFFICES ASSUME IInv, running, ~canceled, ch = <<>>, out = <<>>
               PROVE  /\ (\E t \in Tokens : stage[t] = "begun")
                           <=> fired /\ \E x \in Texts : Sent(x) # {}
                      /\ shown # NoText => Sent(shown) # {}
    BY DEF ShownIsActive
  <2>1. TypeOK /\ KeysAreCounted /\ TokenInUse /\ QueueCatchesUp /\ Balanced
    BY DEF IInv, Counting, Showing
  <2>2. \A x \in Texts : x \in ToSet(loading) <=> Sent(x) # {}
    <3> SUFFICES ASSUME NEW x \in Texts PROVE x \in ToSet(loading) <=> Sent(x) # {}
      OBVIOUS
    <3>1. Len(ch) = 0 /\ count[x] \in Nat
      BY <2>1 DEF TypeOK
    <3>2. Balance(count[x], ch, x, 0) = count[x]
      BY <3>1, BalanceInt
    <3>3. count[x] = Cardinality(Sent(x))
      BY <2>1, <3>1, <3>2 DEF Balanced
    <3>4. Cardinality(Sent(x)) = 0 <=> Sent(x) = {}
      BY CallersAreNumbers, FS_EmptySet
    <3>5. x \in ToSet(loading) <=> count[x] > 0
      BY <2>1 DEF KeysAreCounted
    <3> QED
      BY <3>1, <3>3, <3>4, <3>5
  <2>3. (\E x \in Texts : Sent(x) # {}) <=> token # NoToken
    <3>1. loading \in Seq(Texts)
      BY <2>1 DEF TypeOK
    <3>2. ToSet(loading) \subseteq Texts
      BY <2>1 DEF KeysAreCounted
    <3>3. loading # <<>> <=> \E x \in Texts : x \in ToSet(loading)
      <4>1. ASSUME loading # <<>> PROVE \E x \in Texts : x \in ToSet(loading)
        <5>1. 1 \in DOMAIN loading /\ loading[1] \in Texts
          BY <3>1, <4>1
        <5> QED
          BY <5>1 DEF ToSet
      <4>2. ASSUME loading = <<>> PROVE ~ \E x \in Texts : x \in ToSet(loading)
        BY <4>2 DEF ToSet
      <4> QED
        BY <4>1, <4>2
    <3> QED
      BY <2>1, <2>2, <3>3 DEF TokenInUse
  <2>4. Live <=> token # NoToken /\ fired
    BY <2>1 DEF Live, TokenInUse
  <2>5. CASE Live
    <3>1. stage[token] = "begun" /\ shown \in ToSet(loading) /\ token \in Tokens
      BY <2>1, <2>5 DEF QueueCatchesUp, Live, TypeOK
    <3>2. shown \in Texts
      BY <2>1, <3>1 DEF KeysAreCounted
    <3> QED
      BY <2>2, <2>3, <2>4, <2>5, <3>1, <3>2
  <2>6. CASE ~Live
    <3>1. shown = NoText /\ \A u \in Tokens : stage[u] # "begun"
      BY <2>1, <2>6 DEF QueueCatchesUp, Open
    <3> QED
      BY <2>3, <2>4, <2>6, <3>1
  <2> QED
    BY <2>5, <2>6
<1> QED
  BY <1>1, ProgressInvariant, PTL

\* The progress task implements the protocol of work done progress: the client sees
\* tokens created, begun, reported on and ended in order, one at a time, whenever the
\* delay elapses and however far the writer is behind.
THEOREM ProgressFollowsProtocol == Spec => ClientProtocol
<1>1. Init => WDP!Init
  BY DEF Init, WDP!Init
<1>2. IInv /\ [Next]_vars => [WDP!Next]_(WDP!vars)
  <2> SUFFICES ASSUME IInv, [Next]_vars PROVE WDP!Next \/ UNCHANGED WDP!vars
    OBVIOUS
  <2>1. CASE Write
    BY <2>1, WriteImplements
  <2>2. CASE ~Write
    <3>1. UNCHANGED <<stage, shown>>
      BY <2>2 DEF Next, Start, Finish, Send, SendFails, Cancel, TaskStops, DelayElapsed, RecvStart,
                  RecvFinish, clientVars, vars
    <3> QED
      BY <3>1 DEF WDP!vars
  <2> QED
    BY <2>1, <2>2
<1> QED
  BY <1>1, <1>2, ProgressInvariant, PTL DEF Spec, ClientProtocol, WDP!Spec

=============================================================================
