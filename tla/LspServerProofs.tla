--------------------------- MODULE LspServerProofs ---------------------------
(***************************************************************************)
(* For any number of messages and of server requests, the message loop     *)
(* serves its client in order: LspServer implements OrderedService.        *)
(***************************************************************************)
EXTENDS LspServer, FiniteSetTheorems, SequenceTheorems, TLAPS

-----------------------------------------------------------------------------
(* Queues of tagged messages.                                              *)

\* The ids of the messages of kind k in s, and that s has them in increasing order.
Tagged(s, k) == {s[n].id : n \in {m \in DOMAIN s : s[m].kind = k}}
Increasing(s, k) ==
  \A m, n \in DOMAIN s : m < n /\ s[m].kind = k /\ s[n].kind = k => s[m].id < s[n].id

Elements(s) == {s[n] : n \in DOMAIN s}
Sorted(s) == \A m, n \in DOMAIN s : m < n => s[m] < s[n]

Before(S, T) == \A x \in S, y \in T : x < y

\* Appending a message adds its id to those of its kind, and keeps them in order if it
\* is the last.
LEMMA AppendTagged ==
  ASSUME NEW S, NEW s \in Seq(S), NEW e, NEW k
  PROVE  /\ Tagged(Append(s, e), k) = Tagged(s, k) \cup (IF e.kind = k THEN {e.id} ELSE {})
         /\ Increasing(s, k) /\ (e.kind = k => Before(Tagged(s, k), {e.id}))
              => Increasing(Append(s, e), k)
<1> DEFINE t == Append(s, e)
<1>1. /\ Len(s) \in Nat /\ DOMAIN s = 1 .. Len(s) /\ DOMAIN t = 1 .. Len(s) + 1
      /\ t[Len(s) + 1] = e /\ \A n \in DOMAIN s : t[n] = s[n]
  OBVIOUS
<1> HIDE DEF t
<1>2. /\ DOMAIN t = DOMAIN s \cup {Len(s) + 1} /\ Len(s) + 1 \notin DOMAIN s
      /\ \A n \in DOMAIN s : n < Len(s) + 1 /\ ~(Len(s) + 1 < n)
      /\ ~(Len(s) + 1 < Len(s) + 1)
  BY <1>1
<1>3. Tagged(t, k) = Tagged(s, k) \cup (IF e.kind = k THEN {e.id} ELSE {})
  <2> DEFINE N == {n \in DOMAIN s : s[n].kind = k}
  <2>1. {n \in DOMAIN t : t[n].kind = k} = N \cup (IF e.kind = k THEN {Len(s) + 1} ELSE {})
    BY <1>1, <1>2
  <2>2. \A n \in N : t[n].id = s[n].id
    BY <1>1
  <2>3. t[Len(s) + 1].id = e.id
    BY <1>1
  <2> HIDE DEF N
  <2>4. {t[n].id : n \in N} = {s[n].id : n \in N}
    BY <2>2
  <2>5. Tagged(t, k) = {t[n].id : n \in N \cup (IF e.kind = k THEN {Len(s) + 1} ELSE {})}
    BY <2>1 DEF Tagged
  <2>6. Tagged(s, k) = {s[n].id : n \in N}
    BY DEF Tagged, N
  <2> QED
    BY <2>3, <2>4, <2>5, <2>6
<1>4. ASSUME Increasing(s, k), e.kind = k => Before(Tagged(s, k), {e.id})
      PROVE  Increasing(t, k)
  <2> SUFFICES ASSUME NEW m \in DOMAIN t, NEW n \in DOMAIN t, m < n, t[m].kind = k, t[n].kind = k
               PROVE  t[m].id < t[n].id
    BY DEF Increasing
  <2>1. CASE n \in DOMAIN s
    BY <1>1, <1>2, <1>4, <2>1 DEF Increasing
  <2>2. CASE n = Len(s) + 1
    <3>1. m \in DOMAIN s
      BY <1>2, <2>2
    <3>2. t[m].id \in Tagged(s, k)
      BY <1>1, <3>1 DEF Tagged
    <3>3. t[n] = e /\ e.kind = k
      BY <1>1, <2>2
    <3> QED
      BY <1>4, <3>2, <3>3 DEF Before
  <2> QED
    BY <1>2, <2>1, <2>2
<1> QED
  BY <1>3, <1>4 DEF t

\* Taking the head of a sequence takes the first id of its kind.
LEMMA TailTagged ==
  ASSUME NEW S, NEW s \in Seq(S), s # <<>>, NEW k, Increasing(s, k)
  PROVE  /\ Increasing(Tail(s), k)
         /\ Tagged(s, k) = Tagged(Tail(s), k) \cup (IF Head(s).kind = k THEN {Head(s).id} ELSE {})
         /\ Head(s).kind = k => Before({Head(s).id}, Tagged(Tail(s), k))
<1> DEFINE t == Tail(s)
           d == Len(s) - 1
<1>1. /\ d \in Nat /\ DOMAIN s = 1 .. d + 1 /\ DOMAIN t = 1 .. d
      /\ \A n \in DOMAIN t : t[n] = s[n + 1]
      /\ Head(s) = s[1]
  OBVIOUS
<1> HIDE DEF t, d
<1>2. /\ \A n \in DOMAIN t : n + 1 \in DOMAIN s /\ 1 < n + 1
      /\ \A m, n \in DOMAIN t : m < n => m + 1 < n + 1
      /\ \A n \in DOMAIN s : n # 1 => n - 1 \in DOMAIN t /\ n = (n - 1) + 1
      /\ 1 \in DOMAIN s
  BY <1>1
<1>3. Increasing(t, k)
  BY <1>1, <1>2 DEF Increasing
<1>4. Tagged(s, k) = Tagged(t, k) \cup (IF Head(s).kind = k THEN {Head(s).id} ELSE {})
  <2>1. ASSUME NEW n \in DOMAIN s, s[n].kind = k
        PROVE  s[n].id \in Tagged(t, k) \cup (IF Head(s).kind = k THEN {Head(s).id} ELSE {})
    <3>1. CASE n = 1
      BY <1>1, <2>1, <3>1
    <3>2. CASE n # 1
      <4>1. n - 1 \in DOMAIN t /\ t[n - 1] = s[n]
        BY <1>1, <1>2, <3>2
      <4> QED
        BY <2>1, <4>1 DEF Tagged
    <3> QED
      BY <3>1, <3>2
  <2>2. ASSUME NEW n \in DOMAIN t, t[n].kind = k PROVE t[n].id \in Tagged(s, k)
    <3>1. n + 1 \in DOMAIN s /\ s[n + 1] = t[n]
      BY <1>1, <1>2
    <3> QED
      BY <2>2, <3>1 DEF Tagged
  <2>3. Head(s).kind = k => Head(s).id \in Tagged(s, k)
    BY <1>1, <1>2 DEF Tagged
  <2> QED
    BY <2>1, <2>2, <2>3 DEF Tagged
<1>5. ASSUME Head(s).kind = k PROVE Before({Head(s).id}, Tagged(t, k))
  <2> SUFFICES ASSUME NEW n \in DOMAIN t, t[n].kind = k PROVE Head(s).id < t[n].id
    BY DEF Tagged, Before
  <2>1. n + 1 \in DOMAIN s /\ 1 < n + 1 /\ s[n + 1] = t[n] /\ 1 \in DOMAIN s /\ Head(s) = s[1]
    BY <1>1, <1>2
  <2> QED
    BY <1>5, <2>1 DEF Increasing
<1> QED
  BY <1>3, <1>4, <1>5 DEF t

\* The same for a sequence of ids: one is appended ...
LEMMA AppendSorted ==
  ASSUME NEW S, NEW s \in Seq(S), NEW e
  PROVE  /\ Elements(Append(s, e)) = Elements(s) \cup {e}
         /\ Sorted(s) /\ Before(Elements(s), {e}) => Sorted(Append(s, e))
<1> DEFINE t == Append(s, e)
<1>1. /\ Len(s) \in Nat /\ DOMAIN s = 1 .. Len(s) /\ DOMAIN t = 1 .. Len(s) + 1
      /\ t[Len(s) + 1] = e /\ \A n \in DOMAIN s : t[n] = s[n]
  OBVIOUS
<1> HIDE DEF t
<1>2. /\ DOMAIN t = DOMAIN s \cup {Len(s) + 1}
      /\ \A n \in DOMAIN s : ~(Len(s) + 1 < n)
      /\ ~(Len(s) + 1 < Len(s) + 1)
  BY <1>1
<1>3. Elements(t) = Elements(s) \cup {e}
  BY <1>1, <1>2 DEF Elements
<1>4. ASSUME Sorted(s), Before(Elements(s), {e}) PROVE Sorted(t)
  BY <1>1, <1>2, <1>4 DEF Sorted, Before, Elements
<1> QED
  BY <1>3, <1>4 DEF t

\* ... and the first one is taken.
LEMMA TailSorted ==
  ASSUME NEW S, NEW s \in Seq(S), s # <<>>, Sorted(s)
  PROVE  /\ Sorted(Tail(s)) /\ Head(s) \in S
         /\ Elements(s) = Elements(Tail(s)) \cup {Head(s)}
         /\ Before({Head(s)}, Elements(Tail(s)))
<1> DEFINE t == Tail(s)
           d == Len(s) - 1
<1>1. /\ d \in Nat /\ DOMAIN s = 1 .. d + 1 /\ DOMAIN t = 1 .. d
      /\ \A n \in DOMAIN t : t[n] = s[n + 1]
      /\ Head(s) = s[1] /\ Head(s) \in S
  OBVIOUS
<1> HIDE DEF t, d
<1>2. /\ \A n \in DOMAIN t : n + 1 \in DOMAIN s /\ 1 < n + 1
      /\ \A m, n \in DOMAIN t : m < n => m + 1 < n + 1
      /\ \A n \in DOMAIN s : n # 1 => n - 1 \in DOMAIN t /\ n = (n - 1) + 1
      /\ 1 \in DOMAIN s
  BY <1>1
<1>3. Sorted(t)
  BY <1>1, <1>2 DEF Sorted
<1>4. Elements(s) = Elements(t) \cup {Head(s)}
  <2>1. ASSUME NEW n \in DOMAIN s, n # 1 PROVE s[n] \in Elements(t)
    <3>1. n - 1 \in DOMAIN t /\ t[n - 1] = s[n]
      BY <1>1, <1>2, <2>1
    <3> QED
      BY <3>1 DEF Elements
  <2>2. ASSUME NEW n \in DOMAIN t PROVE t[n] \in Elements(s)
    <3>1. n + 1 \in DOMAIN s /\ t[n] = s[n + 1]
      BY <1>1, <1>2
    <3> QED
      BY <3>1 DEF Elements
  <2>3. Head(s) \in Elements(s)
    BY <1>1, <1>2 DEF Elements
  <2> QED
    BY <1>1, <2>1, <2>2, <2>3 DEF Elements
<1>5. Before({Head(s)}, Elements(t))
  BY <1>1, <1>2 DEF Before, Elements, Sorted
<1> QED
  BY <1>1, <1>3, <1>4, <1>5 DEF t

-----------------------------------------------------------------------------
(* The inductive invariant.                                                *)

\* Where a message can be: answered, answered but not written, in the handler, queued,
\* or on the connection.
Ans == {received[n].id : n \in DOMAIN received}
Outs == Tagged(out, "response")
Cur == {current} \ {0}
Queued == Elements(queue)
Box == Tagged(inbox, "message")
Pending == Cur \cup Queued \cup Box

\* Service!EditsBefore, for a log l.
Edits(l, i) == Cardinality({j \in 1 .. i : l[j] = "edit"})
Requests == {i \in DOMAIN log : log[i] \in {"initialize", "request"}}

\* Messages overtake each other nowhere.
Order ==
  /\ Increasing(out, "response") /\ Sorted(queue) /\ Increasing(inbox, "message")
  /\ Before(Ans, Outs \cup Pending) /\ Before(Outs, Pending)
  /\ Before(Cur, Queued \cup Box) /\ Before(Queued, Box)

\* Only the oldest pending message can be taken, so pending messages are the last ones
\* of the log, but for those that cannot be read; a request is in one of the five places as long as answers are written.
Served ==
  /\ Ans \cup Outs \subseteq Requests /\ Cardinality(Ans) = Len(received)
  /\ Pending \subseteq DOMAIN log
  /\ \A i \in DOMAIN log, j \in Pending : j < i => i \in Pending \/ log[i] = "garbled"
  /\ writer = "running" => Requests \subseteq Ans \cup Outs \cup Pending

\* Edits that are not pending are applied, and an answer was computed after the edits
\* before its request.
Edited ==
  /\ applied = Cardinality({j \in DOMAIN log \ Pending : log[j] = "edit"})
  /\ \A n \in DOMAIN out : out[n].kind = "response" =>
         out[n].edits \in {Failed, Edits(log, out[n].id)}

\* Edits follow initialized, which follows initialize, which is sent once; the server
\* has its parameters and its session once it has read the one and taken the other,
\* unless it failed over the one.
Handshake ==
  /\ \A j \in DOMAIN log : log[j] = "edit" => \E i \in DOMAIN log : i < j /\ log[i] = "initialized"
  /\ \A j \in DOMAIN log : log[j] = "initialized" => \E i \in DOMAIN log : i < j /\ log[i] = "initialize"
  /\ \A i, j \in DOMAIN log : log[i] = "initialize" /\ log[j] = "initialize" => i = j
  /\ \A i \in DOMAIN log : log[i] = "initialize" /\ i \notin Box =>
         initialized \/ phase \in {"failed", "exited"}
  /\ \A i \in DOMAIN log : log[i] = "initialized" /\ i \notin Queued \cup Box => session
  /\ session => initialized
  /\ phase = "asking" => session

\* The connection is read by the main loop only when nothing is queued.
Idle == phase \in {"reading", "stopping", "ended"} => queue = <<>>

IInv == TypeOK /\ Order /\ Served /\ Edited /\ Handshake /\ Idle

\* The places hold ids, and the log's positions are the ids.
LEMMA Places ==
  ASSUME TypeOK
  PROVE  /\ MaxMsgs \in Nat /\ MaxAsks \in Nat /\ Len(log) \in 0 .. MaxMsgs
         /\ DOMAIN log = 1 .. Len(log) /\ DOMAIN log \subseteq Ids /\ Ids \subseteq Nat \ {0}
         /\ Ans \subseteq Ids /\ Outs \subseteq Ids /\ Cur \subseteq Ids /\ Queued \subseteq Ids
         /\ Box \subseteq Ids /\ IsFiniteSet(DOMAIN log) /\ Cardinality(DOMAIN log) = Len(log)
<1>1. /\ MaxMsgs \in Nat /\ MaxAsks \in Nat /\ Len(log) \in 0 .. MaxMsgs
      /\ DOMAIN log = 1 .. Len(log) /\ DOMAIN log \subseteq Ids /\ Ids \subseteq Nat \ {0}
  BY BoundsAssumption DEF TypeOK, Ids
<1>2. Ans \subseteq Ids /\ Cur \subseteq Ids /\ Queued \subseteq Ids
  <2>1. /\ received \in Seq([id : Ids, edits : -1 .. MaxMsgs]) /\ current \in Ids \cup {0}
        /\ queue \in Seq(Ids)
    BY DEF TypeOK
  <2>2. \A n \in DOMAIN received : received[n].id \in Ids
    <3> DEFINE R == [id : Ids, edits : -1 .. MaxMsgs]
    <3>1. received \in Seq(R)
      BY <2>1
    <3>2. \A r \in R : r.id \in Ids
      OBVIOUS
    <3> HIDE DEF R
    <3> QED
      BY <3>1, <3>2
  <2>3. \A n \in DOMAIN queue : queue[n] \in Ids
    BY <2>1
  <2> QED
    BY <2>1, <2>2, <2>3 DEF Ans, Cur, Queued, Elements
<1>3. Outs \subseteq Ids
  BY DEF TypeOK, Outs, Tagged, Outgoing
<1>4. Box \subseteq Ids
  BY DEF TypeOK, Box, Tagged, Incoming
<1>5. IsFiniteSet(DOMAIN log) /\ Cardinality(DOMAIN log) = Len(log)
  <2> DEFINE n == Len(log)
  <2>1. 1 \in Int /\ n \in Int /\ n >= 0 /\ DOMAIN log = 1 .. n
    BY <1>1
  <2> HIDE DEF n
  <2>2. IsFiniteSet(1 .. n) /\ Cardinality(1 .. n) = IF 1 > n THEN 0 ELSE n - 1 + 1
    BY <2>1, FS_Interval, Zenon
  <2> QED
    BY <2>1, <2>2 DEF n
<1> QED
  BY <1>1, <1>2, <1>3, <1>4, <1>5

\* A step that leaves every message where it is.
LEMMA NothingMoves ==
  ASSUME IInv, TypeOK', Idle',
         UNCHANGED <<log, queue, current, received, initialized, session, applied, writer>>,
         Outs' = Outs, Increasing(out, "response")', Box' = Box, Increasing(inbox, "message")',
         \A n \in DOMAIN out' : out'[n].kind = "response" =>
             \E m \in DOMAIN out : out[m] = out'[n],
         phase' = "asking" => session,
         phase \in {"failed", "exited"} => phase' \in {"failed", "exited"}
  PROVE  IInv'
<1>1. UNCHANGED <<Ans, Cur, Queued, Pending, Requests>>
  BY DEF Ans, Cur, Queued, Pending, Requests
<1>2. Order'
  BY <1>1 DEF IInv, Order
<1>3. Served'
  BY <1>1 DEF IInv, Served
<1>4. Edited'
  <2>2. applied' = Cardinality({j \in DOMAIN log' \ Pending' : log'[j] = "edit"})
    BY <1>1 DEF IInv, Edited
  <2>3. \A n \in DOMAIN out' : out'[n].kind = "response" =>
            out'[n].edits \in {Failed, Edits(log', out'[n].id)}
    BY DEF IInv, Edited
  <2> QED
    BY <2>2, <2>3 DEF Edited
<1>5. Handshake'
  BY <1>1 DEF IInv, Handshake
<1> QED
  BY <1>2, <1>3, <1>4, <1>5 DEF IInv

\* The client sends a message: its id is after every id in the system.
LEMMA ClientSendPreserves ==
  ASSUME IInv, NEW k \in Kinds, ClientSend(k) PROVE IInv'
<1> DEFINE i == Len(log) + 1
<1>0. /\ ~eof /\ Len(log) < MaxMsgs /\ log' = Append(log, k)
      /\ inbox' = Append(inbox, [kind |-> "message", id |-> i])
      /\ UNCHANGED <<eof, asked, received, telemetry, queue, phase, current, ask, asks,
                     initialized, session, applied, out, writer>>
  BY DEF ClientSend, Connected, serverVars
<1>1. /\ MaxMsgs \in Nat /\ Len(log) \in 0 .. MaxMsgs /\ DOMAIN log = 1 .. Len(log)
      /\ Ans \subseteq Ids /\ Outs \subseteq Ids /\ Cur \subseteq Ids /\ Queued \subseteq Ids
      /\ Box \subseteq Ids /\ log \in Seq(Kinds) /\ inbox \in Seq(Incoming)
  BY Places DEF IInv, TypeOK
<1>2. /\ i \in Ids /\ DOMAIN log' = DOMAIN log \cup {i} /\ i \notin DOMAIN log
      /\ log'[i] = k /\ \A j \in DOMAIN log : log'[j] = log[j] /\ j < i /\ j \in Nat
      /\ i \in Nat /\ \A j \in DOMAIN log : 1 .. j \subseteq DOMAIN log
  BY <1>0, <1>1 DEF Ids
<1>3. TypeOK'
  <2>1. log' \in Seq(Kinds) /\ Len(log') <= MaxMsgs
    BY <1>0, <1>1
  <2>2. inbox' \in Seq(Incoming)
    BY <1>0, <1>1, <1>2 DEF Incoming
  <2> QED
    BY <1>0, <2>1, <2>2 DEF IInv, TypeOK
<1> HIDE DEF i
<1>4. UNCHANGED <<Ans, Outs, Cur, Queued>>
  BY <1>0 DEF Ans, Outs, Cur, Queued
<1>5. Box' = Box \cup {i}
  <2>1. Tagged(inbox', "message") = Tagged(inbox, "message") \cup
            (IF [kind |-> "message", id |-> i].kind = "message"
             THEN {[kind |-> "message", id |-> i].id} ELSE {})
    BY <1>0, <1>1, AppendTagged
  <2> QED
    BY <2>1 DEF Box
<1>6. Pending' = Pending \cup {i}
  BY <1>4, <1>5 DEF Pending
<1>7. /\ Pending \subseteq DOMAIN log /\ Ans \cup Outs \subseteq DOMAIN log
  BY DEF IInv, Served, Requests
<1>8. Before(Ans \cup Outs \cup Pending, {i})
  BY <1>2, <1>7 DEF Before
<1>9. Order'
  <2>1. Increasing(inbox', "message")
    <3> DEFINE e == [kind |-> "message", id |-> i]
    <3>1. Before(Box, {e.id}) /\ Increasing(inbox, "message")
      BY <1>8 DEF Before, Pending, IInv, Order
    <3> HIDE DEF e
    <3>2. Increasing(Append(inbox, e), "message")
      BY <1>1, <3>1, AppendTagged DEF Box
    <3> QED
      BY <1>0, <3>2 DEF e
  <2>2. Increasing(out', "response") /\ Sorted(queue')
    BY <1>0 DEF IInv, Order
  <2>3. Before(Ans, Outs \cup Pending \cup {i}) /\ Before(Outs, Pending \cup {i})
        /\ Before(Cur, Queued \cup Box \cup {i}) /\ Before(Queued, Box \cup {i})
    BY <1>8 DEF IInv, Order, Before, Pending
  <2> QED
    BY <1>4, <1>5, <1>6, <2>1, <2>2, <2>3 DEF Order, Before
<1>10. Requests \subseteq Requests' /\ Requests' \subseteq Requests \cup {i}
  BY <1>2 DEF Requests
<1>11. Served'
  <2>1. Ans' \cup Outs' \subseteq Requests' /\ Cardinality(Ans') = Len(received')
    BY <1>0, <1>4, <1>10 DEF IInv, Served
  <2>2. Pending' \subseteq DOMAIN log'
    BY <1>2, <1>6, <1>7
  <2>3. \A g \in DOMAIN log', j \in Pending' : j < g => g \in Pending' \/ log'[g] = "garbled"
    BY <1>2, <1>6, <1>7 DEF IInv, Served
  <2>4. writer' = "running" => Requests' \subseteq Ans' \cup Outs' \cup Pending'
    BY <1>0, <1>4, <1>6, <1>10 DEF IInv, Served
  <2> QED
    BY <2>1, <2>2, <2>3, <2>4 DEF Served
<1>12. Edited'
  <2>1. {j \in DOMAIN log' \ Pending' : log'[j] = "edit"} = {j \in DOMAIN log \ Pending : log[j] = "edit"}
    BY <1>2, <1>6
  <2>2. \A j \in DOMAIN log : Edits(log', j) = Edits(log, j)
    <3> SUFFICES ASSUME NEW j \in DOMAIN log
                 PROVE  {g \in 1 .. j : log'[g] = "edit"} = {g \in 1 .. j : log[g] = "edit"}
      BY DEF Edits
    <3> QED
      BY <1>2
  <2>3. ASSUME NEW n \in DOMAIN out, out[n].kind = "response"
        PROVE  out[n].edits \in {Failed, Edits(log', out[n].id)}
    <3>1. out[n].id \in DOMAIN log
      BY <1>7, <2>3 DEF Outs, Tagged
    <3> QED
      BY <2>2, <2>3, <3>1 DEF IInv, Edited
  <2> QED
    BY <1>0, <2>1, <2>3 DEF IInv, Edited
<1>13. Handshake'
  <2>1. \A g \in DOMAIN log, m \in DOMAIN log' : log'[g] = log[g] /\ (m = i \/ m \in DOMAIN log)
    BY <1>2
  <2>2. /\ k = "initialize" => \A g \in DOMAIN log : log[g] # "initialize"
        /\ k = "initialized" => \E g \in DOMAIN log : log[g] = "initialize"
        /\ k = "edit" => \E g \in DOMAIN log : log[g] = "initialized"
    BY DEF ClientSend, Sent
  <2>3. /\ \A j \in DOMAIN log' : log'[j] = "edit" => \E g \in DOMAIN log' : g < j /\ log'[g] = "initialized"
        /\ \A j \in DOMAIN log' : log'[j] = "initialized" => \E g \in DOMAIN log' : g < j /\ log'[g] = "initialize"
        /\ \A g, j \in DOMAIN log' : log'[g] = "initialize" /\ log'[j] = "initialize" => g = j
    BY <1>2, <2>2 DEF IInv, Handshake
  <2>4. /\ \A g \in DOMAIN log' : log'[g] = "initialize" /\ g \notin Box' =>
               initialized' \/ phase' \in {"failed", "exited"}
        /\ \A g \in DOMAIN log' : log'[g] = "initialized" /\ g \notin Queued' \cup Box' => session'
    BY <1>0, <1>2, <1>4, <1>5 DEF IInv, Handshake
  <2> QED
    BY <1>0, <2>3, <2>4 DEF IInv, Handshake
<1>14. Idle'
  BY <1>0 DEF IInv, Idle
<1> QED
  BY <1>3, <1>9, <1>11, <1>12, <1>13, <1>14 DEF IInv

\* What the head of the connection is, and what is left behind it.
LEMMA ReadFacts ==
  ASSUME IInv, inbox # <<>>, inbox' = Tail(inbox)
  PROVE  LET m == Head(inbox) IN
         /\ inbox' \in Seq(Incoming) /\ Increasing(inbox', "message") /\ m \in Incoming
         /\ m.kind = "message" => /\ Box = Box' \cup {m.id} /\ Before({m.id}, Box')
                                  /\ m.id \in Ids /\ m.id \in DOMAIN log /\ m.id \notin Box'
         /\ m.kind # "message" => m.kind = "answer" /\ Box' = Box
<1> DEFINE m == Head(inbox)
<1>1. inbox \in Seq(Incoming) /\ Increasing(inbox, "message") /\ Box \subseteq DOMAIN log
  BY DEF IInv, TypeOK, Order, Served, Pending
<1>2. inbox' \in Seq(Incoming) /\ m \in Incoming
  BY <1>1
<1>3. /\ Increasing(inbox', "message")
      /\ Box = Box' \cup (IF m.kind = "message" THEN {m.id} ELSE {})
      /\ m.kind = "message" => Before({m.id}, Box')
  BY <1>1, TailTagged DEF Box
<1>4. m.kind \in {"message", "answer"} /\ (m.kind = "message" => m.id \in Ids)
  BY <1>2 DEF Incoming
<1> HIDE DEF m
<1>5. m.kind = "message" => m.id \notin Box'
  <2> SUFFICES ASSUME m.kind = "message", m.id \in Box' PROVE FALSE
    OBVIOUS
  <2>1. m.id \in Nat
    BY <1>4, BoundsAssumption DEF Ids
  <2>2. m.id < m.id
    BY <1>3 DEF Before
  <2> QED
    BY <2>1, <2>2
<1> QED
  BY <1>1, <1>2, <1>3, <1>4, <1>5 DEF m

\* An answer is read: it is dropped, or ends the wait for it.
LEMMA AnswerRead ==
  ASSUME IInv, inbox # <<>>, inbox' = Tail(inbox), Head(inbox).kind # "message",
         UNCHANGED <<clientVars, queue, current, asks, initialized, session, applied, out, writer>>,
         \/ phase = "asking" /\ ((ask' = 0 /\ phase' = "handling") \/ UNCHANGED <<ask, phase>>)
         \/ phase = "reading" /\ phase' = "dispatching" /\ UNCHANGED ask
  PROVE  IInv'
<1>1. inbox' \in Seq(Incoming) /\ Increasing(inbox', "message") /\ Box' = Box
  BY ReadFacts
<1>2. TypeOK'
  BY <1>1 DEF IInv, TypeOK, clientVars, Phases
<1>3. Idle' /\ (phase' = "asking" => session)
  BY DEF IInv, Idle, Handshake
<1>4. Outs' = Outs /\ Increasing(out', "response")
  BY DEF IInv, Order, Outs
<1> QED
  BY <1>1, <1>2, <1>3, <1>4, NothingMoves DEF clientVars

\* A message is queued: the places it was and is in are both pending.
LEMMA MessageQueued ==
  ASSUME IInv, inbox # <<>>, inbox' = Tail(inbox), Head(inbox).kind = "message",
         queue' = Append(queue, Head(inbox).id),
         UNCHANGED <<clientVars, current, ask, asks, initialized, session, applied, out, writer>>,
         \/ phase = "asking" /\ phase' = phase
         \/ phase = "reading" /\ phase' = "dispatching",
         log[Head(inbox).id] = "initialize" => initialized
  PROVE  IInv'
<1> DEFINE i == Head(inbox).id
<1>1. /\ inbox' \in Seq(Incoming) /\ Increasing(inbox', "message")
      /\ Box = Box' \cup {i} /\ Before({i}, Box') /\ i \in Ids /\ i \in DOMAIN log
  BY ReadFacts
<1>2. queue \in Seq(Ids) /\ Sorted(queue) /\ Before(Queued, Box)
  BY DEF IInv, TypeOK, Order
<1> HIDE DEF i
<1>3. queue' \in Seq(Ids) /\ queue' = Append(queue, i)
  BY <1>1, <1>2 DEF i
<1>4. Queued' = Queued \cup {i} /\ Sorted(queue')
  <2>1. Before(Elements(queue), {i})
    BY <1>1, <1>2 DEF Before, Queued
  <2> QED
    BY <1>2, <1>3, <2>1, AppendSorted DEF Queued
<1>5. UNCHANGED <<Ans, Outs, Cur, Requests>>
  BY DEF Ans, Outs, Cur, Requests, clientVars
<1>6. Pending' = Pending
  BY <1>1, <1>4, <1>5 DEF Pending
<1>7. TypeOK'
  BY <1>1, <1>3 DEF IInv, TypeOK, clientVars, Phases
<1>8. Order'
  <2>1. Before(Queued \cup {i}, Box') /\ Before(Cur, Queued \cup {i} \cup Box')
    BY <1>1 DEF IInv, Order, Before
  <2> QED
    BY <1>1, <1>4, <1>5, <1>6, <2>1 DEF IInv, Order, clientVars
<1>9. Served'
  BY <1>5, <1>6 DEF IInv, Served, clientVars
<1>10. Edited'
  BY <1>6 DEF IInv, Edited, clientVars
<1>11. Handshake'
  BY <1>1, <1>4 DEF IInv, Handshake, clientVars, i
<1>12. Idle'
  BY DEF Idle
<1> QED
  BY <1>7, <1>8, <1>9, <1>10, <1>11, <1>12 DEF IInv

\* The nested read of a handler that asked its client: an answer, or a message that is
\* queued.
LEMMA AskReadPreserves == ASSUME IInv, AskRead PROVE IInv'
<1> DEFINE m == Head(inbox)
<1>1. /\ phase = "asking" /\ inbox # <<>> /\ inbox' = Tail(inbox)
      /\ queue' = IF m.kind = "message" THEN Append(queue, m.id) ELSE queue
      /\ IF m.kind = "answer" /\ m.id = ask THEN ask' = 0 /\ phase' = "handling"
         ELSE UNCHANGED <<ask, phase>>
      /\ UNCHANGED <<clientVars, current, asks, initialized, session, applied, out, writer>>
  BY DEF AskRead, Readable
<1>2. session /\ initialized
  BY <1>1 DEF IInv, Handshake
<1>3. CASE m.kind = "message"
  BY <1>1, <1>2, <1>3, MessageQueued
<1>4. CASE m.kind # "message"
  BY <1>1, <1>4, AnswerRead
<1> QED
  BY <1>3, <1>4

\* A message that is not queued is read in the main loop, when nothing else is pending
\* before it; if it is answered at once, nothing was edited before it.
LEMMA MessageNotQueued ==
  ASSUME IInv, phase = "reading", inbox # <<>>, inbox' = Tail(inbox), Head(inbox).kind = "message",
         phase' = "dispatching",
         UNCHANGED <<clientVars, queue, current, ask, asks, session, applied, writer>>,
         LET i == Head(inbox).id IN
           \/ /\ log[i] = "cancel" /\ UNCHANGED <<initialized, out>>
           \/ /\ log[i] \in {"initialize", "request"} /\ initialized' = (initialized \/ log[i] = "initialize")
              /\ out' = Append(out, Response(i, IF log[i] = "initialize" THEN 0 ELSE Failed))
  PROVE  IInv'
<1> DEFINE i == Head(inbox).id
           req == log[i] \in {"initialize", "request"}
           e == Response(i, IF log[i] = "initialize" THEN 0 ELSE Failed)
<1>1. /\ inbox' \in Seq(Incoming) /\ Increasing(inbox', "message")
      /\ Box = Box' \cup {i} /\ Before({i}, Box') /\ i \in Ids /\ i \in DOMAIN log /\ i \notin Box'
  BY ReadFacts
<1>2. /\ out \in Seq(Outgoing) /\ MaxMsgs \in Nat /\ Ids \subseteq Nat /\ DOMAIN log \subseteq Nat
      /\ DOMAIN log = 1 .. Len(log)
  BY Places DEF IInv, TypeOK
<1>3. e \in Outgoing /\ e.kind = "response" /\ e.id = i
  <2>1. (IF log[i] = "initialize" THEN 0 ELSE Failed) \in -1 .. MaxMsgs
    BY <1>2 DEF Failed
  <2> QED
    BY <1>1, <2>1 DEF Response, Outgoing
<1>4. /\ log[i] \in {"cancel", "initialize", "request"}
      /\ initialized' = (initialized \/ log[i] = "initialize")
      /\ out' = IF req THEN Append(out, e) ELSE out
  <2>1. initialized \in BOOLEAN
    BY DEF IInv, TypeOK
  <2> QED
    BY <2>1
<1>5. current = 0 /\ queue = <<>> /\ current' = 0 /\ queue' = <<>>
  BY DEF IInv, TypeOK, Idle
<1>6. e.edits \in {Failed, Edits(log, i)}
  <2>1. CASE log[i] = "initialize"
    <3>1. {j \in 1 .. i : log[j] = "edit"} = {}
      <4> SUFFICES ASSUME NEW j \in 1 .. i, log[j] = "edit" PROVE FALSE
        OBVIOUS
      <4>1. j \in DOMAIN log /\ j <= i /\ j \in Nat /\ i \in Nat
        BY <1>1, <1>2
      <4>2. PICK g \in DOMAIN log : g < j /\ log[g] = "initialized"
        BY <4>1 DEF IInv, Handshake
      <4>3. PICK h \in DOMAIN log : h < g /\ log[h] = "initialize"
        BY <4>2 DEF IInv, Handshake
      <4>4. h = i
        BY <1>1, <2>1, <4>3 DEF IInv, Handshake
      <4>5. h \in Nat /\ g \in Nat
        BY <1>2, <4>2, <4>3
      <4> QED
        BY <4>1, <4>2, <4>3, <4>4, <4>5
    <3>2. e.edits = 0
      BY <2>1 DEF Response
    <3> QED
      BY <3>1, <3>2, FS_EmptySet DEF Edits
  <2>2. CASE log[i] # "initialize"
    BY <2>2 DEF Response
  <2> QED
    BY <2>1, <2>2
<1> HIDE DEF i, e
<1>7. /\ out' \in Seq(Outgoing)
      /\ Outs' = Outs \cup (IF req THEN {i} ELSE {})
      /\ Increasing(out', "response")
  <2>1. Increasing(out, "response") /\ Before(Outs, {i})
    BY <1>1 DEF IInv, Order, Before, Pending
  <2>2. CASE req
    <3>1. out' = Append(out, e)
      BY <1>4, <2>2
    <3>2. /\ Tagged(Append(out, e), "response") = Tagged(out, "response") \cup
                 (IF e.kind = "response" THEN {e.id} ELSE {})
          /\ Increasing(Append(out, e), "response")
      BY <1>2, <1>3, <2>1, AppendTagged DEF Outs
    <3>3. out' \in Seq(Outgoing)
      BY <1>2, <1>3, <3>1
    <3> QED
      BY <1>3, <2>2, <3>1, <3>2, <3>3 DEF Outs
  <2>3. CASE ~req
    BY <1>2, <1>4, <2>1, <2>3 DEF Outs
  <2> QED
    BY <2>2, <2>3
<1>8. Ans' = Ans /\ Requests' = Requests /\ log' = log /\ received' = received
  BY DEF Ans, Requests, clientVars
<1>9. Pending = Box /\ Pending' = Box' /\ Cur = {} /\ Cur' = {} /\ Queued = {} /\ Queued' = {}
  <2>1. Cur = {} /\ Cur' = {}
    BY <1>5 DEF Cur
  <2>2. Queued = {} /\ Queued' = {}
    BY <1>5 DEF Queued, Elements
  <2> QED
    BY <2>1, <2>2 DEF Pending
<1>10. TypeOK'
  BY <1>1, <1>4, <1>7 DEF IInv, TypeOK, clientVars, Phases
<1>11. Order'
  <2>1. Before(Ans, Outs \cup Box) /\ Before(Outs, Box)
    BY <1>9 DEF IInv, Order
  <2>2. Before(Ans, Outs \cup {i} \cup Box') /\ Before(Outs \cup {i}, Box')
    BY <1>1, <2>1 DEF Before
  <2>3. Outs' \subseteq Outs \cup {i}
    BY <1>7
  <2>4. Before(Ans', Outs' \cup Pending') /\ Before(Outs', Pending')
    BY <1>8, <1>9, <2>2, <2>3 DEF Before
  <2>5. Before(Cur', Queued' \cup Box') /\ Before(Queued', Box') /\ Sorted(queue')
    BY <1>5, <1>9 DEF Before, Sorted
  <2> QED
    BY <1>1, <1>7, <2>4, <2>5 DEF Order
<1>12. req <=> i \in Requests
  BY <1>1 DEF Requests
<1>13. Served'
  <2>1. Ans' \cup Outs' \subseteq Requests' /\ Cardinality(Ans') = Len(received')
    BY <1>7, <1>8, <1>12 DEF IInv, Served
  <2>2. Pending' \subseteq DOMAIN log'
    BY <1>1, <1>8, <1>9 DEF IInv, Served
  <2>3. ASSUME NEW g \in DOMAIN log, NEW j \in Box', j < g, log[g] # "garbled" PROVE g \in Box'
    <3>1. g \in Box
      BY <1>1, <1>9, <2>3 DEF IInv, Served
    <3>2. i < j
      BY <1>1, <2>3 DEF Before
    <3>3. i # g
      <4>1. i \in Nat /\ j \in Nat /\ g \in Nat
        <5>1. j \in DOMAIN log
          BY <1>1, <1>9 DEF IInv, Served
        <5> QED
          BY <1>1, <1>2, <5>1
      <4> QED
        BY <2>3, <3>2, <4>1
    <3> QED
      BY <1>1, <3>1, <3>3
  <2>4. writer' = "running" => Requests' \subseteq Ans' \cup Outs' \cup Pending'
    <3>1. writer = "running" => Requests \subseteq Ans \cup Outs \cup Box
      BY <1>9 DEF IInv, Served
    <3> QED
      BY <1>1, <1>7, <1>8, <1>9, <1>12, <3>1
  <2> QED
    BY <1>8, <1>9, <2>1, <2>2, <2>3, <2>4 DEF Served
<1>14. Edited'
  <2>1. log[i] # "edit"
    BY <1>4
  <2>2. {j \in DOMAIN log \ Box' : log[j] = "edit"} = {j \in DOMAIN log \ Box : log[j] = "edit"}
    BY <1>1, <2>1
  <2>3. applied' = Cardinality({j \in DOMAIN log' \ Pending' : log'[j] = "edit"})
    BY <1>8, <1>9, <2>2 DEF IInv, Edited
  <2>4. ASSUME NEW n \in DOMAIN out', out'[n].kind = "response"
        PROVE  out'[n].edits \in {Failed, Edits(log', out'[n].id)}
    <3>1. (n \in DOMAIN out /\ out'[n] = out[n]) \/ out'[n] = e
      <4>1. CASE req
        <5>1. out' = Append(out, e)
          BY <1>4, <4>1
        <5> QED
          BY <1>2, <5>1
      <4>2. CASE ~req
        BY <1>4, <4>2
      <4> QED
        BY <4>1, <4>2
    <3>2. CASE n \in DOMAIN out /\ out'[n] = out[n]
      BY <1>8, <2>4, <3>2 DEF IInv, Edited
    <3>3. CASE out'[n] = e
      BY <1>3, <1>6, <1>8, <3>3
    <3> QED
      BY <3>1, <3>2, <3>3
  <2> QED
    BY <2>3, <2>4 DEF Edited
<1>15. Handshake'
  <2>1. /\ \A g \in DOMAIN log : log[g] = "initialize" /\ g \notin Box' => initialized'
        /\ \A g \in DOMAIN log : log[g] = "initialized" /\ g \notin Queued' \cup Box' => session'
    BY <1>1, <1>4, <1>9 DEF IInv, Handshake
  <2>2. session' => initialized'
    BY <1>4 DEF IInv, Handshake
  <2> QED
    BY <1>8, <2>1, <2>2 DEF IInv, Handshake
<1>16. Idle'
  BY DEF Idle
<1> QED
  BY <1>10, <1>11, <1>13, <1>14, <1>15, <1>16 DEF IInv

\* process_incoming_message in the main loop.
LEMMA ReadPreserves == ASSUME IInv, Read PROVE IInv'
<1> DEFINE m == Head(inbox)
           k == log[m.id]
           early == m.kind = "message" /\ ~initialized /\ k \in {"initialize", "request"}
<1>1. /\ phase = "reading" /\ inbox # <<>> /\ inbox' = Tail(inbox)
      /\ initialized' = (initialized \/ (early /\ k = "initialize"))
      /\ out' = IF early THEN Append(out, Response(m.id, IF k = "initialize" THEN 0 ELSE Failed))
                ELSE out
      /\ queue' = IF m.kind = "message" /\ ~early /\ k # "cancel" THEN Append(queue, m.id) ELSE queue
      /\ phase' = "dispatching"
      /\ UNCHANGED <<clientVars, current, ask, asks, session, applied, writer>>
  BY DEF Read, Readable
<1>2. initialized \in BOOLEAN
  BY DEF IInv, TypeOK
<1>3. CASE m.kind # "message"
  <2>1. initialized' = initialized /\ out' = out /\ queue' = queue
    BY <1>1, <1>2, <1>3
  <2> HIDE DEF early
  <2> QED
    BY <1>1, <1>3, <2>1, AnswerRead
<1>4. CASE m.kind = "message" /\ ~early /\ k # "cancel"
  <2>1. initialized' = initialized /\ out' = out /\ queue' = Append(queue, m.id)
    BY <1>1, <1>2, <1>4
  <2>2. k = "initialize" => initialized
    BY <1>4
  <2> HIDE DEF early
  <2> QED
    BY <1>1, <1>4, <2>1, <2>2, MessageQueued
<1>5. CASE m.kind = "message" /\ (early \/ k = "cancel")
  <2>1. queue' = queue
    BY <1>1, <1>5
  <2>2. CASE early
    <3>1. initialized' = (initialized \/ k = "initialize")
      BY <1>1, <2>2
    <3>2. out' = Append(out, Response(m.id, IF k = "initialize" THEN 0 ELSE Failed))
          /\ k \in {"initialize", "request"}
      BY <1>1, <2>2
    <3> HIDE DEF early
    <3> QED
      BY <1>1, <1>5, <2>1, <3>1, <3>2, MessageNotQueued
  <2>3. CASE k = "cancel" /\ ~early
    <3>1. initialized' = initialized /\ out' = out
      BY <1>1, <1>2, <2>3
    <3> HIDE DEF early
    <3> QED
      BY <1>1, <1>5, <2>1, <2>3, <3>1, MessageNotQueued
  <2> QED
    BY <1>5, <2>2, <2>3
<1> QED
  BY <1>3, <1>4, <1>5

\* What cannot be read leaves the connection; it is no request and no edit.
LEMMA GarbledSkipped ==
  ASSUME IInv, inbox # <<>>, inbox' = Tail(inbox), Garbled(Head(inbox)),
         UNCHANGED <<log, asked, received, telemetry, eof, queue, current, asks, initialized,
                     session, applied, out, writer>>,
         AskReadFails \/ Stop
  PROVE  IInv'
<1> DEFINE i == Head(inbox).id
<1>1. /\ inbox' \in Seq(Incoming) /\ Increasing(inbox', "message")
      /\ Box = Box' \cup {i} /\ i \in DOMAIN log /\ i \notin Box' /\ log[i] = "garbled"
  BY ReadFacts DEF Garbled
<1> HIDE DEF i
<1>2. UNCHANGED <<Ans, Outs, Cur, Queued, Requests>>
  BY DEF Ans, Outs, Cur, Queued, Requests
<1>3. Pending' \subseteq Pending /\ Pending \subseteq Pending' \cup {i}
  BY <1>1, <1>2 DEF Pending
<1>4. TypeOK'
  BY <1>1 DEF IInv, TypeOK, Phases, AskReadFails, Stop
<1>5. Order'
  BY <1>1, <1>2, <1>3 DEF IInv, Order, Before
<1>6. Served'
  <2>1. i \notin Requests
    BY <1>1 DEF Requests
  <2> QED
    BY <1>1, <1>2, <1>3, <2>1 DEF IInv, Served
<1>7. Edited'
  <2>1. {j \in DOMAIN log \ Pending' : log[j] = "edit"} = {j \in DOMAIN log \ Pending : log[j] = "edit"}
    BY <1>1, <1>3
  <2> QED
    BY <2>1 DEF IInv, Edited
<1>8. Handshake' /\ Idle'
  BY <1>1, <1>2 DEF IInv, Handshake, Idle, AskReadFails, Stop
<1> QED
  BY <1>4, <1>5, <1>6, <1>7, <1>8 DEF IInv

\* A message whose parameters are invalid is the last one that is handled.
LEMMA ReadInvalidPreserves == ASSUME IInv, ReadInvalid PROVE IInv'
<1> DEFINE i == Head(inbox).id
<1>0. /\ phase = "reading" /\ inbox # <<>> /\ inbox' = Tail(inbox) /\ Head(inbox).kind = "message"
      /\ log[i] \in {"cancel", "initialize"} /\ current' = i /\ phase' = "failed"
      /\ UNCHANGED <<clientVars, queue, ask, asks, initialized, session, applied, out, writer>>
  BY DEF ReadInvalid, Readable
<1>1. /\ inbox' \in Seq(Incoming) /\ Increasing(inbox', "message")
      /\ Box = Box' \cup {i} /\ Before({i}, Box') /\ i \in Ids /\ i \in DOMAIN log
  BY <1>0, ReadFacts
<1> HIDE DEF i
<1>2. current = 0 /\ ask = 0 /\ queue = <<>> /\ i # 0
  BY <1>0, <1>1, BoundsAssumption DEF IInv, TypeOK, Idle, Ids
<1>3. UNCHANGED <<Ans, Outs, Queued, Requests, log, received>> /\ Cur = {} /\ Cur' = {i} /\ Queued = {}
  BY <1>0, <1>2 DEF Ans, Outs, Cur, Queued, Requests, Elements, clientVars
<1>4. Pending' = Pending
  BY <1>1, <1>3 DEF Pending
<1>5. TypeOK'
  BY <1>0, <1>1, <1>2 DEF IInv, TypeOK, Phases, clientVars
<1>6. Order'
  <2>1. Before(Cur', Queued' \cup Box') /\ Before(Queued', Box')
    BY <1>1, <1>3 DEF Before
  <2> QED
    BY <1>0, <1>1, <1>3, <1>4, <2>1 DEF IInv, Order
<1>7. Served'
  BY <1>0, <1>3, <1>4 DEF IInv, Served
<1>8. Edited'
  BY <1>0, <1>3, <1>4 DEF IInv, Edited
<1>9. Handshake' /\ Idle'
  BY <1>0, <1>1, <1>3 DEF IInv, Handshake, Idle
<1> QED
  BY <1>5, <1>6, <1>7, <1>8, <1>9 DEF IInv

\* The oldest message of the queue goes to its handler.
LEMMA DispatchPreserves == ASSUME IInv, Dispatch PROVE IInv'
<1> DEFINE i == Head(queue)
<1>0. /\ phase = "dispatching" /\ queue # <<>> /\ current' = i /\ queue' = Tail(queue)
      /\ phase' = "handling" /\ session' = (session \/ (initialized /\ log[i] = "initialized"))
      /\ UNCHANGED <<clientVars, inbox, ask, asks, initialized, applied, out, writer>>
  BY DEF Dispatch
<1>1. /\ queue \in Seq(Ids) /\ Sorted(queue) /\ current = 0 /\ Ids \subseteq Nat \ {0}
      /\ DOMAIN log \subseteq Ids
  BY <1>0, Places DEF IInv, TypeOK, Order
<1>2. /\ Sorted(queue') /\ i \in Ids /\ Queued = Queued' \cup {i} /\ Before({i}, Queued')
      /\ queue' \in Seq(Ids)
  <2>1. /\ Sorted(Tail(queue)) /\ Head(queue) \in Ids
        /\ Elements(queue) = Elements(Tail(queue)) \cup {Head(queue)}
        /\ Before({Head(queue)}, Elements(Tail(queue)))
    BY <1>0, <1>1, TailSorted
  <2>2. queue' \in Seq(Ids)
    BY <1>0, <1>1
  <2> QED
    BY <1>0, <2>1, <2>2 DEF Queued
<1> HIDE DEF i
<1>3. UNCHANGED <<Ans, Outs, Box, Requests, log, out, received, applied, writer, inbox>>
  BY <1>0 DEF Ans, Outs, Box, Requests, clientVars
<1>4. Cur = {} /\ Cur' = {i} /\ i # 0
  BY <1>0, <1>1, <1>2 DEF Cur
<1>5. Pending' = Pending /\ i \in DOMAIN log
  <2>1. Pending' = Pending
    BY <1>2, <1>3, <1>4 DEF Pending
  <2>2. i \in Pending
    BY <1>2 DEF Pending
  <2> QED
    BY <2>1, <2>2 DEF IInv, Served
<1>6. TypeOK'
  <2>1. session' \in BOOLEAN
    BY <1>0 DEF IInv, TypeOK
  <2> QED
    BY <1>0, <1>2, <1>4, <2>1 DEF IInv, TypeOK, clientVars, Phases
<1>7. Order'
  <2>1. Before(Queued, Box)
    BY DEF IInv, Order
  <2>2. Before({i}, Queued' \cup Box) /\ Before(Queued', Box)
    BY <1>2, <2>1 DEF Before
  <2> QED
    BY <1>2, <1>3, <1>4, <1>5, <2>2 DEF IInv, Order
<1>8. Served' /\ Edited'
  BY <1>3, <1>5 DEF IInv, Served, Edited
<1>9. Handshake'
  <2>1. ASSUME NEW g \in DOMAIN log, log[g] = "initialized", g \notin Queued' \cup Box
        PROVE  session'
    <3>1. CASE g # i
      BY <1>0, <1>2, <2>1, <3>1 DEF IInv, Handshake
    <3>2. CASE g = i
      <4>1. PICK h \in DOMAIN log : h < i /\ log[h] = "initialize"
        BY <1>5, <2>1, <3>2 DEF IInv, Handshake
      <4>2. h \notin Box
        <5> SUFFICES ASSUME h \in Box PROVE FALSE
          OBVIOUS
        <5>1. i < h
          BY <1>2 DEF IInv, Order, Before
        <5>2. i \in Nat /\ h \in Nat
          BY <1>1, <1>2
        <5> QED
          BY <4>1, <5>1, <5>2
      <4>3. initialized
        BY <1>0, <4>1, <4>2 DEF IInv, Handshake
      <4> QED
        BY <1>0, <2>1, <3>2, <4>3
    <3> QED
      BY <3>1, <3>2
  <2>2. session' => initialized'
    BY <1>0 DEF IInv, Handshake
  <2> QED
    BY <1>0, <1>3, <2>1, <2>2 DEF IInv, Handshake
<1>10. Idle'
  BY <1>0 DEF Idle
<1> QED
  BY <1>6, <1>7, <1>8, <1>9, <1>10 DEF IInv

\* When the handler returns, the edits applied are the ones before the message handled:
\* everything after it is still pending.
LEMMA AppliedBefore ==
  ASSUME IInv, current # 0
  PROVE  /\ current \in DOMAIN log /\ current \notin Queued \cup Box
         /\ Pending = (Pending \ {current}) \cup {current}
         /\ Before({current}, Pending \ {current})
         /\ {j \in DOMAIN log \ Pending : log[j] = "edit"}
              = {j \in 1 .. current : log[j] = "edit"} \ {current}
         /\ log[current] = "edit" => session
<1>1. /\ Ids \subseteq Nat \ {0} /\ DOMAIN log \subseteq Ids /\ DOMAIN log = 1 .. Len(log)
      /\ Len(log) \in Nat /\ Cur = {current} /\ Pending \subseteq DOMAIN log
  BY Places DEF Cur, IInv, Served
<1>2. current \in Pending /\ current \in DOMAIN log /\ current \in Nat
  BY <1>1 DEF Pending
<1>3. Before({current}, Queued \cup Box)
  BY <1>1 DEF IInv, Order
<1>4. current \notin Queued \cup Box
  BY <1>2, <1>3 DEF Before
<1>5. Pending \ {current} = Queued \cup Box
  BY <1>1, <1>4 DEF Pending
<1>6. ASSUME NEW j \in DOMAIN log, log[j] # "garbled" PROVE j \notin Pending <=> j < current
  <2>1. j \in Nat
    BY <1>1
  <2>2. j < current => j \notin Pending
    <3> SUFFICES ASSUME j < current, j \in Pending PROVE FALSE
      OBVIOUS
    <3>1. j # current
      BY <1>2, <2>1
    <3>2. current < j
      BY <1>3, <1>5, <3>1 DEF Before
    <3> QED
      BY <1>2, <2>1, <3>2
  <2>3. current < j => j \in Pending
    BY <1>2, <1>6 DEF IInv, Served
  <2> QED
    BY <1>2, <2>1, <2>2, <2>3
<1>7. {j \in DOMAIN log \ Pending : log[j] = "edit"}
        = {j \in 1 .. current : log[j] = "edit"} \ {current}
  <2>1. \A j : j \in DOMAIN log /\ j < current <=> j \in 1 .. current /\ j # current
    BY <1>1, <1>2
  <2> QED
    BY <1>6, <2>1
<1>8. ASSUME log[current] = "edit" PROVE session
  <2>1. PICK g \in DOMAIN log : g < current /\ log[g] = "initialized"
    BY <1>2, <1>8 DEF IInv, Handshake
  <2>2. g \notin Queued \cup Box
    BY <1>6, <2>1 DEF Pending
  <2> QED
    BY <2>1, <2>2 DEF IInv, Handshake
<1> QED
  BY <1>2, <1>3, <1>4, <1>5, <1>7, <1>8

\* A handler ends: the edit is applied, or the answer follows all answers on their way
\* out.
LEMMA FinishPreserves == ASSUME IInv, NEW fails \in BOOLEAN, Finish(fails) PROVE IInv'
<1> DEFINE k == log[current]
           req == k \in {"initialize", "request"}
           e == Response(current, IF fails \/ ~session THEN Failed ELSE applied)
           Done == {j \in DOMAIN log \ Pending : log[j] = "edit"}
<1>0. /\ phase = "handling"
      /\ out' = IF req THEN Append(out, e) ELSE out
      /\ applied' = IF k = "edit" /\ session THEN applied + 1 ELSE applied
      /\ current' = 0 /\ phase' = "dispatching"
      /\ UNCHANGED <<clientVars, inbox, queue, ask, asks, initialized, session, writer>>
  BY DEF Finish
<1>1. /\ current # 0 /\ current \in Ids /\ Ids \subseteq Nat \ {0} /\ out \in Seq(Outgoing)
      /\ applied \in 0 .. MaxMsgs /\ MaxMsgs \in Nat /\ DOMAIN log \subseteq Ids
      /\ IsFiniteSet(DOMAIN log) /\ Cardinality(DOMAIN log) = Len(log) /\ Len(log) \in 0 .. MaxMsgs
  BY <1>0, Places DEF IInv, TypeOK
<1>2. /\ current \in DOMAIN log /\ current \notin Queued \cup Box
      /\ Before({current}, Pending \ {current})
      /\ Done = {j \in 1 .. current : log[j] = "edit"} \ {current}
      /\ k = "edit" => session
  BY <1>1, AppliedBefore
<1>3. e \in Outgoing /\ e.kind = "response" /\ e.id = current
  <2>1. (IF fails \/ ~session THEN Failed ELSE applied) \in -1 .. MaxMsgs
    BY <1>1 DEF Failed
  <2> QED
    BY <1>1, <2>1 DEF Response, Outgoing
<1>4. req => e.edits \in {Failed, Edits(log, current)}
  <2>1. applied = Cardinality(Done)
    BY DEF IInv, Edited
  <2>2. req => Done = {j \in 1 .. current : log[j] = "edit"}
    BY <1>2
  <2>3. e.edits \in {Failed, applied}
    BY DEF Response
  <2> QED
    BY <2>1, <2>2, <2>3 DEF Edits
<1>5. /\ UNCHANGED <<Ans, Queued, Box, Requests, log, received, writer, inbox, queue>>
      /\ Cur = {current} /\ Cur' = {}
  BY <1>0, <1>1 DEF Ans, Queued, Box, Requests, clientVars, Cur
<1>6. Pending' = Pending \ {current} /\ current \in Pending
  BY <1>2, <1>5 DEF Pending
<1>7. req <=> current \in Requests
  BY <1>2 DEF Requests
<1>8. /\ IsFiniteSet(Done) /\ applied = Cardinality(Done)
      /\ {j \in DOMAIN log' \ Pending' : log'[j] = "edit"}
           = Done \cup (IF k = "edit" THEN {current} ELSE {})
      /\ current \notin Done
  <2>1. Done \subseteq DOMAIN log
    OBVIOUS
  <2>2. IsFiniteSet(Done)
    <3> HIDE DEF Done
    <3> QED
      BY <1>1, <2>1, FS_Subset
  <2> QED
    BY <1>2, <1>5, <1>6, <2>2 DEF IInv, Edited
<1> HIDE DEF e, Done
<1>9. applied' = Cardinality({j \in DOMAIN log' \ Pending' : log'[j] = "edit"})
  <2>1. CASE k = "edit"
    <3>1. applied' = applied + 1
      BY <1>0, <1>2, <2>1
    <3>2. Cardinality(Done \cup {current}) = Cardinality(Done) + 1
      BY <1>8, FS_AddElement
    <3> QED
      BY <1>8, <2>1, <3>1, <3>2
  <2>2. CASE k # "edit"
    BY <1>0, <1>8, <2>2
  <2> QED
    BY <2>1, <2>2
<1>10. applied' \in 0 .. MaxMsgs
  <2> DEFINE D == {j \in DOMAIN log' \ Pending' : log'[j] = "edit"}
  <2>1. D \subseteq DOMAIN log
    BY <1>5
  <2> HIDE DEF D
  <2>2. IsFiniteSet(D) /\ Cardinality(D) <= Cardinality(DOMAIN log)
    BY <1>1, <2>1, FS_Subset
  <2>3. Cardinality(D) \in Nat
    BY <2>2, FS_CardinalityType
  <2>4. applied' = Cardinality(D)
    BY <1>9 DEF D
  <2> QED
    BY <1>1, <2>2, <2>3, <2>4
<1>11. /\ out' \in Seq(Outgoing)
       /\ Outs' = Outs \cup (IF req THEN {current} ELSE {})
       /\ Increasing(out', "response")
  <2>1. Increasing(out, "response") /\ Before(Outs, {current})
    BY <1>6 DEF IInv, Order, Before
  <2>2. CASE req
    <3>1. out' = Append(out, e)
      BY <1>0, <2>2
    <3>2. /\ Tagged(Append(out, e), "response") = Tagged(out, "response") \cup
                 (IF e.kind = "response" THEN {e.id} ELSE {})
          /\ Increasing(Append(out, e), "response")
      BY <1>1, <1>3, <2>1, AppendTagged DEF Outs
    <3>3. out' \in Seq(Outgoing)
      BY <1>1, <1>3, <3>1
    <3> QED
      BY <1>3, <2>2, <3>1, <3>2, <3>3 DEF Outs
  <2>3. CASE ~req
    BY <1>0, <1>1, <2>1, <2>3 DEF Outs
  <2> QED
    BY <2>2, <2>3
<1>12. TypeOK'
  BY <1>0, <1>10, <1>11 DEF IInv, TypeOK, clientVars, Phases
<1>13. Order'
  <2>1. Before(Ans, Outs \cup Pending) /\ Before(Outs, Pending) /\ Before(Queued, Box)
    BY DEF IInv, Order
  <2>2. Outs' \subseteq Outs \cup {current}
    BY <1>11
  <2>3. Before(Ans, Outs' \cup Pending') /\ Before(Outs', Pending')
    BY <1>2, <1>6, <2>1, <2>2 DEF Before
  <2>4. Before(Cur', Queued' \cup Box')
    BY <1>5 DEF Before
  <2> QED
    BY <1>5, <1>11, <2>1, <2>3, <2>4 DEF IInv, Order
<1>14. Served'
  <2>1. Ans' \cup Outs' \subseteq Requests' /\ Cardinality(Ans') = Len(received')
    BY <1>5, <1>7, <1>11 DEF IInv, Served
  <2>2. Pending' \subseteq DOMAIN log'
    BY <1>5, <1>6 DEF IInv, Served
  <2>3. ASSUME NEW g \in DOMAIN log, NEW j \in Pending', j < g, log[g] # "garbled"
        PROVE  g \in Pending'
    <3>1. g \in Pending /\ j \in DOMAIN log
      BY <1>6, <2>3 DEF IInv, Served
    <3>2. current < j
      BY <1>2, <1>6 DEF Before
    <3>3. g # current
      BY <1>1, <2>3, <3>1, <3>2
    <3> QED
      BY <1>6, <3>1, <3>3
  <2>4. writer' = "running" => Requests' \subseteq Ans' \cup Outs' \cup Pending'
    <3>1. writer = "running" => Requests \subseteq Ans \cup Outs \cup Pending
      BY DEF IInv, Served
    <3> QED
      BY <1>5, <1>6, <1>7, <1>11, <3>1
  <2> QED
    BY <1>5, <2>1, <2>2, <2>3, <2>4 DEF Served
<1>15. Edited'
  <2>1. ASSUME NEW n \in DOMAIN out', out'[n].kind = "response"
        PROVE  out'[n].edits \in {Failed, Edits(log', out'[n].id)}
    <3>1. (n \in DOMAIN out /\ out'[n] = out[n]) \/ (req /\ out'[n] = e)
      <4>1. CASE req
        <5>1. out' = Append(out, e)
          BY <1>0, <4>1
        <5> QED
          BY <1>1, <4>1, <5>1
      <4>2. CASE ~req
        BY <1>0, <4>2
      <4> QED
        BY <4>1, <4>2
    <3>2. CASE n \in DOMAIN out /\ out'[n] = out[n]
      BY <1>5, <2>1, <3>2 DEF IInv, Edited
    <3>3. CASE req /\ out'[n] = e
      BY <1>3, <1>4, <1>5, <3>3
    <3> QED
      BY <3>1, <3>2, <3>3
  <2> QED
    BY <1>9, <2>1 DEF Edited
<1>16. Handshake'
  BY <1>0, <1>5 DEF IInv, Handshake
<1>17. Idle'
  BY <1>0 DEF Idle
<1> QED
  BY <1>12, <1>13, <1>14, <1>15, <1>16, <1>17 DEF IInv

-----------------------------------------------------------------------------
(* The write thread.                                                       *)

\* What the head of the outgoing queue is, and what is left behind it.
LEMMA WriteFacts ==
  ASSUME IInv, out # <<>>, out' = Tail(out)
  PROVE  LET m == Head(out) IN
         /\ out' \in Seq(Outgoing) /\ Increasing(out', "response") /\ m \in Outgoing
         /\ m.kind = "response" => /\ Outs = Outs' \cup {m.id} /\ Before({m.id}, Outs')
                                   /\ m.edits \in {Failed, Edits(log, m.id)}
         /\ m.kind # "response" => m.kind = "ask" /\ Outs' = Outs
         /\ \A n \in DOMAIN out' : \E g \in DOMAIN out : out[g] = out'[n]
<1> DEFINE m == Head(out)
<1>1. out \in Seq(Outgoing) /\ Increasing(out, "response")
  BY DEF IInv, TypeOK, Order
<1>2. out' \in Seq(Outgoing) /\ m \in Outgoing /\ m = out[1] /\ 1 \in DOMAIN out
  BY <1>1
<1>3. /\ Increasing(out', "response")
      /\ Outs = Outs' \cup (IF m.kind = "response" THEN {m.id} ELSE {})
      /\ m.kind = "response" => Before({m.id}, Outs')
  BY <1>1, TailTagged DEF Outs
<1>4. m.kind \in {"response", "ask"}
  BY <1>2 DEF Outgoing
<1>5. m.kind = "response" => m.edits \in {Failed, Edits(log, m.id)}
  BY <1>2 DEF IInv, Edited
<1>6. ASSUME NEW n \in DOMAIN out' PROVE \E g \in DOMAIN out : out[g] = out'[n]
  <2>1. n + 1 \in DOMAIN out /\ out[n + 1] = out'[n]
    BY <1>1, <1>6
  <2> QED
    BY <2>1
<1> HIDE DEF m
<1> QED
  BY <1>2, <1>3, <1>4, <1>5, <1>6 DEF m

\* The answer that is written is the next one: all requests before it are answered.
LEMMA AnswerIsNext ==
  ASSUME IInv, writer = "running", out # <<>>, out' = Tail(out), Head(out).kind = "response"
  PROVE  LET i == Head(out).id IN
         /\ i \in Requests /\ i \notin Ans /\ Before(Ans, {i})
         /\ Before({i}, Outs') /\ Before({i}, Pending)
         /\ {j \in Requests : j < i} = Ans
<1> DEFINE i == Head(out).id
<1>1. Outs = Outs' \cup {i} /\ Before({i}, Outs')
  BY WriteFacts
<1> HIDE DEF i
<1>2. /\ i \in Outs /\ Outs \subseteq Requests /\ Ans \subseteq Requests
      /\ Requests \subseteq Ans \cup Outs \cup Pending
      /\ Before(Ans, {i}) /\ Before({i}, Pending)
  BY <1>1 DEF IInv, Served, Order, Before
<1>3. Requests \subseteq Nat /\ i \in Nat /\ Pending \subseteq Nat
  <2>1. DOMAIN log \subseteq Nat
    BY Places DEF IInv
  <2> QED
    BY <1>2, <2>1 DEF Requests, IInv, Served
<1>4. ASSUME NEW j \in Requests PROVE j < i <=> j \in Ans
  <2>1. j \in Ans => j < i
    BY <1>2 DEF Before
  <2>2. j \in Outs' \cup Pending => i < j
    BY <1>1, <1>2 DEF Before
  <2>3. j \in Ans \cup Outs' \cup {i} \cup Pending
    BY <1>1, <1>2
  <2> QED
    BY <1>3, <2>1, <2>2, <2>3
<1>5. i \notin Ans
  BY <1>2, <1>3, <1>4
<1> QED
  BY <1>1, <1>2, <1>4, <1>5 DEF i

\* The ids of a sequence of records that gets one more.
LEMMA AppendIds ==
  ASSUME NEW S, NEW s \in Seq(S), NEW e
  PROVE  {Append(s, e)[n].id : n \in DOMAIN Append(s, e)} = {s[n].id : n \in DOMAIN s} \cup {e.id}
<1> DEFINE t == Append(s, e)
<1>1. /\ Len(s) \in Nat /\ DOMAIN s = 1 .. Len(s) /\ DOMAIN t = 1 .. Len(s) + 1
      /\ t[Len(s) + 1] = e /\ \A n \in DOMAIN s : t[n] = s[n]
  OBVIOUS
<1> HIDE DEF t
<1>2. DOMAIN t = DOMAIN s \cup {Len(s) + 1}
  BY <1>1
<1>3. {t[n].id : n \in DOMAIN t} = {s[n].id : n \in DOMAIN s} \cup {e.id}
  BY <1>1, <1>2
<1> QED
  BY <1>3 DEF t

\* The write thread hands the oldest answer to the client.
LEMMA WritePreserves == ASSUME IInv, Write PROVE IInv'
<1> DEFINE m == Head(out)
           a == [id |-> m.id, edits |-> m.edits]
<1>0. /\ writer = "running" /\ out # <<>> /\ out' = Tail(out)
      /\ IF m.kind = "ask"
         THEN asked' = asked \cup {m.id} /\ UNCHANGED received
         ELSE received' = Append(received, a) /\ UNCHANGED asked
      /\ UNCHANGED <<log, eof, telemetry, inbox, queue, phase, current, ask, asks, initialized,
                     session, applied, writer>>
  BY DEF Write, serverVars
<1>1. /\ out' \in Seq(Outgoing) /\ Increasing(out', "response") /\ m \in Outgoing
      /\ m.kind = "response" => /\ Outs = Outs' \cup {m.id} /\ Before({m.id}, Outs')
                                /\ m.edits \in {Failed, Edits(log, m.id)}
      /\ m.kind # "response" => m.kind = "ask" /\ Outs' = Outs
      /\ \A n \in DOMAIN out' : \E g \in DOMAIN out : out[g] = out'[n]
  BY <1>0, WriteFacts
<1>2. CASE m.kind = "ask"
  <2>1. m.id \in AskIds
    BY <1>1, <1>2 DEF Outgoing
  <2>2. TypeOK'
    BY <1>0, <1>1, <1>2, <2>1 DEF IInv, TypeOK
  <2>3. Idle' /\ (phase' = "asking" => session) /\ Box' = Box /\ Increasing(inbox', "message")
    BY <1>0 DEF IInv, Idle, Handshake, Box, Order
  <2>4. Outs' = Outs
    BY <1>1, <1>2
  <2> HIDE DEF m
  <2> QED
    BY <1>0, <1>1, <1>2, <2>2, <2>3, <2>4, NothingMoves
<1>3. CASE m.kind # "ask"
  <2> DEFINE i == m.id
  <2>1. /\ m.kind = "response" /\ i \in Ids /\ m.edits \in -1 .. MaxMsgs
    BY <1>1, <1>3 DEF Outgoing
  <2>2. /\ i \in Requests /\ i \notin Ans /\ Before(Ans, {i})
        /\ Before({i}, Outs') /\ Before({i}, Pending)
    BY <1>0, <2>1, AnswerIsNext
  <2>3. received' = Append(received, a) /\ asked' = asked /\ Outs = Outs' \cup {i}
    BY <1>0, <1>1, <1>3, <2>1
  <2>4. received \in Seq([id : Ids, edits : -1 .. MaxMsgs]) /\ a \in [id : Ids, edits : -1 .. MaxMsgs]
    BY <2>1 DEF IInv, TypeOK
  <2>5. received' \in Seq([id : Ids, edits : -1 .. MaxMsgs]) /\ Len(received') = Len(received) + 1
    <3> DEFINE R == [id : Ids, edits : -1 .. MaxMsgs]
    <3>1. received \in Seq(R) /\ a \in R
      BY <2>4
    <3> HIDE DEF R, a
    <3>2. received' \in Seq(R) /\ Len(received') = Len(received) + 1
      BY <2>3, <3>1
    <3> QED
      BY <3>2 DEF R
  <2>6. Ans' = Ans \cup {i}
    <3>1. a.id = i
      OBVIOUS
    <3> HIDE DEF a, m
    <3> QED
      BY <2>3, <2>4, <3>1, AppendIds DEF Ans
  <2> HIDE DEF i, m, a
  <2>7. UNCHANGED <<Cur, Queued, Box, Pending, Requests>>
    BY <1>0 DEF Cur, Queued, Box, Pending, Requests
  <2>8. Cardinality(Ans') = Len(received')
    <3>1. IsFiniteSet(Ans)
      <4>1. Ans \subseteq DOMAIN log /\ IsFiniteSet(DOMAIN log)
        BY Places DEF IInv, Served, Requests
      <4> QED
        BY <4>1, FS_Subset
    <3>2. Cardinality(Ans) = Len(received)
      BY DEF IInv, Served
    <3> QED
      BY <2>2, <2>5, <2>6, <3>1, <3>2, FS_AddElement
  <2>9. TypeOK'
    BY <1>0, <1>1, <2>3, <2>5 DEF IInv, TypeOK
  <2>10. Order'
    <3>1. Before(Ans, Outs \cup Pending) /\ Before(Outs, Pending)
      BY DEF IInv, Order
    <3>2. Before(Ans', Outs' \cup Pending') /\ Before(Outs', Pending')
      BY <2>2, <2>3, <2>6, <2>7, <3>1 DEF Before
    <3> QED
      BY <1>0, <1>1, <2>7, <3>2 DEF IInv, Order
  <2>11. Served'
    <3>1. Ans' \cup Outs' = Ans \cup Outs
      BY <2>3, <2>6
    <3> QED
      BY <1>0, <2>7, <2>8, <3>1 DEF IInv, Served
  <2>12. Edited'
    BY <1>0, <1>1, <2>7 DEF IInv, Edited
  <2>13. Handshake' /\ Idle'
    BY <1>0, <2>7 DEF IInv, Handshake, Idle
  <2> QED
    BY <2>9, <2>10, <2>11, <2>12, <2>13 DEF IInv
<1> QED
  BY <1>2, <1>3

\* A failed write loses what is queued; nothing is written after it.
LEMMA WriteFailsPreserves == ASSUME IInv, WriteFails PROVE IInv'
<1>0. /\ out # <<>> /\ out' = Tail(out) /\ writer' = "failed"
      /\ UNCHANGED <<log, eof, asked, received, telemetry, inbox, queue, phase, current, ask, asks,
                     initialized, session, applied>>
  BY DEF WriteFails, clientVars, serverVars
<1>1. /\ out' \in Seq(Outgoing) /\ Increasing(out', "response") /\ Outs' \subseteq Outs
      /\ \A n \in DOMAIN out' : \E g \in DOMAIN out : out[g] = out'[n]
  BY <1>0, WriteFacts
<1>2. UNCHANGED <<Ans, Cur, Queued, Box, Pending, Requests>>
  BY <1>0 DEF Ans, Cur, Queued, Box, Pending, Requests
<1>3. TypeOK'
  BY <1>0, <1>1 DEF IInv, TypeOK
<1>4. Order'
  <2>1. Before(Ans, Outs' \cup Pending) /\ Before(Outs', Pending)
    BY <1>1 DEF IInv, Order, Before
  <2> QED
    BY <1>0, <1>1, <1>2, <2>1 DEF IInv, Order
<1>5. Served'
  BY <1>0, <1>1, <1>2 DEF IInv, Served
<1>6. Edited'
  BY <1>0, <1>1, <1>2 DEF IInv, Edited
<1>7. Handshake' /\ Idle'
  BY <1>0, <1>2 DEF IInv, Handshake, Idle
<1> QED
  BY <1>3, <1>4, <1>5, <1>6, <1>7 DEF IInv

-----------------------------------------------------------------------------
(* The steps that move no message.                                         *)

\* A handler asks the client something.
LEMMA SendClientRequestPreserves ==
  ASSUME IInv, NEW waits \in BOOLEAN, SendClientRequest(waits) PROVE IInv'
<1> DEFINE e == [kind |-> "ask", id |-> asks + 1, edits |-> 0]
<1>0. /\ phase = "handling" /\ session /\ asks < MaxAsks /\ asks' = asks + 1
      /\ out' = Append(out, e)
      /\ IF waits THEN ask' = asks + 1 /\ phase' = "asking" ELSE UNCHANGED <<ask, phase>>
      /\ UNCHANGED <<log, eof, asked, received, telemetry, inbox, queue, current, initialized,
                     session, applied, writer>>
  BY DEF SendClientRequest, clientVars
<1>1. /\ out \in Seq(Outgoing) /\ asks \in 0 .. MaxAsks /\ MaxAsks \in Nat
      /\ Increasing(out, "response") /\ Increasing(inbox, "message")
  BY BoundsAssumption DEF IInv, TypeOK, Order
<1>2. asks + 1 \in AskIds /\ asks + 1 # 0 /\ asks' \in 0 .. MaxAsks
  BY <1>0, <1>1 DEF AskIds
<1>3. e \in Outgoing /\ e.kind # "response"
  BY <1>2 DEF Outgoing
<1> HIDE DEF e
<1>4. out' \in Seq(Outgoing)
  BY <1>0, <1>1, <1>3
<1>5. TypeOK'
  BY <1>0, <1>2, <1>4 DEF IInv, TypeOK, Phases
<1>6. Outs' = Outs /\ Increasing(out', "response")
  <2>1. /\ Tagged(Append(out, e), "response") = Tagged(out, "response") \cup
               (IF e.kind = "response" THEN {e.id} ELSE {})
        /\ Increasing(Append(out, e), "response")
    BY <1>1, <1>3, AppendTagged
  <2> QED
    BY <1>0, <1>3, <2>1 DEF Outs
<1>7. \A n \in DOMAIN out' : out'[n].kind = "response" => \E g \in DOMAIN out : out[g] = out'[n]
  <2>1. \A n \in DOMAIN out' : out'[n] = e \/ (n \in DOMAIN out /\ out[n] = out'[n])
    BY <1>0, <1>1
  <2> QED
    BY <1>3, <2>1
<1>8. Idle' /\ Box' = Box
  BY <1>0 DEF IInv, Idle, Box
<1> QED
  BY <1>0, <1>1, <1>5, <1>6, <1>7, <1>8, NothingMoves

\* The client answers what it was asked.
LEMMA ClientAnswerPreserves ==
  ASSUME IInv, NEW a \in AskIds, ClientAnswer(a) PROVE IInv'
<1> DEFINE e == [kind |-> "answer", id |-> a]
<1>0. /\ asked' = asked \ {a} /\ inbox' = Append(inbox, e)
      /\ UNCHANGED <<log, eof, received, telemetry, queue, phase, current, ask, asks, initialized,
                     session, applied, out, writer>>
  BY DEF ClientAnswer, serverVars
<1>1. inbox \in Seq(Incoming) /\ Increasing(out, "response") /\ Increasing(inbox, "message")
  BY DEF IInv, TypeOK, Order
<1>2. e \in Incoming /\ e.kind # "message"
  BY DEF Incoming
<1> HIDE DEF e
<1>3. inbox' \in Seq(Incoming)
  BY <1>0, <1>1, <1>2
<1>4. TypeOK'
  BY <1>0, <1>3 DEF IInv, TypeOK
<1>5. Box' = Box /\ Increasing(inbox', "message")
  <2>1. /\ Tagged(Append(inbox, e), "message") = Tagged(inbox, "message") \cup
               (IF e.kind = "message" THEN {e.id} ELSE {})
        /\ Increasing(Append(inbox, e), "message")
    BY <1>1, <1>2, AppendTagged
  <2> QED
    BY <1>0, <1>2, <2>1 DEF Box
<1>6. Idle' /\ Outs' = Outs /\ (phase' = "asking" => session)
  BY <1>0 DEF IInv, Idle, Outs, Handshake
<1> QED
  BY <1>0, <1>1, <1>4, <1>5, <1>6, NothingMoves

\* The thread goes on to something else, or the client closes the connection.
LEMMA PhasePreserves ==
  ASSUME IInv, UNCHANGED <<log, asked, received, telemetry, inbox, queue, current, asks,
                           initialized, session, applied, out, writer>>,
         \/ UNCHANGED <<eof, phase, ask>>
         \/ ClientClose \/ DispatchEnds \/ AskReadFails \/ StartPerformanceTelemetry \/ Stop
         \/ Join \/ Exit
  PROVE  IInv'
<1>1. TypeOK'
  BY DEF IInv, TypeOK, Phases, ClientClose, DispatchEnds, AskReadFails, StartPerformanceTelemetry,
         Stop, Join, Exit, clientVars, serverVars
<1>2. /\ Idle' /\ (phase' = "asking" => session)
      /\ phase \in {"failed", "exited"} => phase' \in {"failed", "exited"}
  BY DEF IInv, Idle, Handshake, ClientClose, DispatchEnds, AskReadFails, StartPerformanceTelemetry,
         Stop, Join, Exit, clientVars, serverVars
<1>3. Outs' = Outs /\ Increasing(out', "response") /\ Box' = Box /\ Increasing(inbox', "message")
  BY DEF IInv, Order, Outs, Box
<1> QED
  BY <1>1, <1>2, <1>3, NothingMoves

-----------------------------------------------------------------------------
(* The theorems.                                                           *)

\* Nothing has been sent.
LEMMA InitInvariant == Init => IInv
<1> SUFFICES ASSUME Init PROVE IInv
  OBVIOUS
<1>1. MaxMsgs \in Nat /\ MaxAsks \in Nat
  BY BoundsAssumption
<1>2. TypeOK
  <2>1. /\ log \in Seq(Kinds) /\ Len(log) <= MaxMsgs /\ inbox \in Seq(Incoming)
        /\ out \in Seq(Outgoing) /\ queue \in Seq(Ids)
    BY <1>1 DEF Init
  <2>2. received \in Seq([id : Ids, edits : -1 .. MaxMsgs])
    <3> DEFINE R == [id : Ids, edits : -1 .. MaxMsgs]
    <3> HIDE DEF R
    <3>1. received \in Seq(R)
      BY DEF Init
    <3> QED
      BY <3>1 DEF R
  <2>3. asks \in 0 .. MaxAsks /\ applied \in 0 .. MaxMsgs /\ current = 0 /\ ask = 0
    BY <1>1 DEF Init
  <2> QED
    BY <2>1, <2>2, <2>3 DEF Init, TypeOK, Phases
<1>3. /\ Ans = {} /\ Outs = {} /\ Cur = {} /\ Queued = {} /\ Box = {} /\ Pending = {}
      /\ Requests = {} /\ DOMAIN log = {}
  BY DEF Init, Ans, Outs, Cur, Queued, Box, Pending, Requests, Tagged, Elements
<1>4. Order
  BY <1>3 DEF Init, Order, Before, Increasing, Sorted
<1>5. Served /\ Edited
  <2>1. {j \in DOMAIN log \ Pending : log[j] = "edit"} = {}
    BY <1>3
  <2> QED
    BY <1>3, <2>1, FS_EmptySet DEF Init, Served, Edited
<1>6. Handshake /\ Idle
  BY <1>3 DEF Init, Handshake, Idle
<1> QED
  BY <1>2, <1>4, <1>5, <1>6 DEF IInv

\* One case per action of the specification.
LEMMA NextPreserves == ASSUME IInv, [Next]_vars PROVE IInv'
<1>1. CASE ClientClose \/ DispatchEnds \/ StartPerformanceTelemetry \/ Join \/ Exit
  BY <1>1, PhasePreserves DEF ClientClose, DispatchEnds, StartPerformanceTelemetry, Join, Exit,
     clientVars, serverVars
<1>5. CASE AskReadFails \/ Stop
  <2>1. /\ UNCHANGED <<log, asked, received, telemetry, eof, queue, current, asks, initialized,
                       session, applied, out, writer>>
        /\ CannotRead /\ inbox' = Skip(inbox)
    BY <1>5 DEF AskReadFails, Stop, clientVars
  <2>2. CASE inbox = <<>>
    BY <1>5, <2>1, <2>2, PhasePreserves DEF Skip
  <2>3. CASE inbox # <<>>
    BY <1>5, <2>1, <2>3, GarbledSkipped DEF CannotRead, Skip
  <2> QED BY <2>2, <2>3
<1>2. CASE UNCHANGED vars
  BY <1>2, PhasePreserves DEF vars, clientVars, serverVars
<1>3. CASE Client
  BY <1>1, <1>3, ClientSendPreserves, ClientAnswerPreserves DEF Client
<1>4. CASE Handle
  BY <1>1, <1>4, DispatchPreserves, FinishPreserves DEF Handle
<1> QED
  BY <1>1, <1>2, <1>3, <1>4, <1>5, ReadPreserves, ReadInvalidPreserves, AskReadPreserves, SendClientRequestPreserves,
     WritePreserves, WriteFailsPreserves DEF Next

\* Messages overtake each other in none of the server's queues, none is lost before it is
\* answered, and the edits applied are the ones before the message handled.
THEOREM LspServerInvariant == Spec => []IInv
  BY InitInvariant, NextPreserves, PTL DEF Spec

\* The types of the connection's two ends and of the server.
THEOREM LspServerTypes == Spec => []TypeOK
<1>1. IInv => TypeOK
  BY DEF IInv
<1> QED
  BY <1>1, LspServerInvariant, PTL

\* The instance has its own copy of Cardinality.
LEMMA SameCardinality == \A S : Service!Cardinality(S) = Cardinality(S)
  BY Zenon DEF Cardinality, Service!Cardinality

\* A step of the server is a message sent, the next request answered, or nothing the
\* client can see.
LEMMA StepServes ==
  ASSUME IInv, [Next]_vars PROVE [Service!Next]_(Service!vars)
<1>1. CASE \E k \in Kinds : ClientSend(k)
  <2>1. PICK k \in Kinds : ClientSend(k)
    BY <1>1
  <2>2. Service!Send(k)
    BY <2>1 DEF ClientSend, Service!Send
  <2> QED
    BY <2>2 DEF Service!Next
<1>2. CASE Write
  <2> DEFINE m == Head(out)
             i == m.id
  <2>0. writer = "running" /\ out # <<>> /\ out' = Tail(out) /\ log' = log
    BY <1>2 DEF Write
  <2>1. CASE m.kind = "ask"
    BY <1>2, <2>1 DEF Write, Service!vars
  <2>2. CASE m.kind # "ask"
    <3>1. /\ m \in Outgoing /\ m.kind = "response" /\ m.edits \in {Failed, Edits(log, i)}
      BY <2>0, <2>2, WriteFacts
    <3>2. i \in Requests /\ {j \in Requests : j < i} = Ans
      BY <2>0, <3>1, AnswerIsNext
    <3>3. Requests = Service!Requests /\ Edits(log, i) = Service!EditsBefore(i)
      BY SameCardinality
      DEF Requests, Service!Requests, Service!IsRequest, Edits, Service!EditsBefore
    <3>4. Cardinality(Ans) = Len(received)
      BY DEF IInv, Served
    <3>5. received' = Append(received, [id |-> i, edits |-> m.edits])
      BY <1>2, <2>2 DEF Write
    <3>6. PICK f \in BOOLEAN : m.edits = IF f THEN Failed ELSE Edits(log, i)
      BY <3>1
    <3> HIDE DEF m, i
    <3>7. Service!Answer(i, f)
      <4>1. Service!Cardinality({j \in Service!Requests : j < i}) = Len(received)
        BY <3>2, <3>3, <3>4, SameCardinality
      <4> QED
        BY <2>0, <3>3, <3>5, <3>6, <4>1 DEF Service!Answer
    <3> QED
      BY <3>2, <3>3, <3>7 DEF Service!Next
  <2> QED
    BY <2>1, <2>2
<1>3. CASE UNCHANGED <<log, received>>
  BY <1>3 DEF Service!vars
<1>4. \/ \E k \in Kinds : ClientSend(k)
      \/ Write
      \/ UNCHANGED <<log, received>>
  BY DEF Next, vars, Client, Handle, ClientAnswer, ClientClose, Read, Dispatch, DispatchEnds, Finish,
         ReadInvalid, StartPerformanceTelemetry, SendClientRequest, AskRead, AskReadFails, Stop, Join,
         Exit, WriteFails, clientVars
<1> QED
  BY <1>1, <1>2, <1>3, <1>4

\* Server::run, dispatch_loop and the nested reads of send_client_request serve the client
\* in order: every answer the client receives is to its oldest unanswered request, and was
\* computed after exactly the edits sent before that request.
THEOREM LspServerServesInOrder == Spec => ServesInOrder
<1>1. Init => Service!Init
  BY DEF Init, Service!Init
<1> QED
  BY <1>1, StepServes, LspServerInvariant, PTL DEF Spec, ServesInOrder, Service!Spec
=============================================================================
