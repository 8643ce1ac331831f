------------------------------- MODULE Progress -------------------------------
(***************************************************************************)
(* The loading indicator of the language server (crates/ts-lsp/src/        *)
(* progress.rs).  Operations on other threads send start and finish events *)
(* through a bounded channel; one task counts the operations in progress   *)
(* by the text shown for them and sends the client create, begin, report   *)
(* and end messages through the server's outgoing queue, which a writer    *)
(* thread drains.  The delay timer may fire at any time after it is armed. *)
(***************************************************************************)
EXTENDS Integers, Sequences, FiniteSets, SequencesExt

CONSTANTS
  Ops,          \* operations in flight at the same time (callers)
  Texts,        \* the localized texts of operations
  NoText,       \* no text
  Capacity,     \* size of the event channel (64 in the code)
  MaxStarts     \* bound: operations ever started

ASSUME OpsAssumption      == IsFiniteSet(Ops)
ASSUME TextsAssumption    == NoText \notin Texts
ASSUME CapacityAssumption == Capacity \in Nat \ {0}
ASSUME StartsAssumption   == MaxStarts \in Nat

Tokens  == 1 .. MaxStarts
NoToken == 0

VARIABLES
  op,           \* where an operation is
  text,         \* the text of an operation, NoText once the call of finish is over
  starts,       \* operations started so far
  zeroDelay,    \* delay.is_zero(): the indicator is shown at once
  canceled,     \* the server's background context is canceled
  ch,           \* the event channel
  running,      \* the task runs (and keeps the channel's receiver)
  loading,      \* keys of the ordered map of active operations, in order
  count,        \* its values
  token,        \* id of the current token, or NoToken
  tokenId,      \* id of the last token
  begun, armed, fired,   \* begun, delay_task.is_some(), delay_fired
  out,          \* messages in the outgoing queue
  stage, shown  \* what the client has seen (see WorkDoneProgress)

opVars     == <<op, text, starts>>
taskVars   == <<running, loading, count, token, tokenId, begun, armed, fired>>
clientVars == <<stage, shown>>
vars       == <<opVars, canceled, zeroDelay, ch, taskVars, out, clientVars>>

Event   == [text : Texts, finish : BOOLEAN]
Message == [kind : {"create", "begin", "report", "end"}, token : Tokens,
            text : Texts \cup {NoText}]
OpStage == {"idle", "starting", "working", "finishing"}

(* The types of the callers', the task's and the client's state.           *)
TypeOK ==
  /\ op \in [Ops -> OpStage]
  /\ text \in [Ops -> Texts \cup {NoText}]
  /\ starts \in 0 .. MaxStarts
  /\ canceled \in BOOLEAN /\ zeroDelay \in BOOLEAN /\ running \in BOOLEAN
  /\ ch \in Seq(Event) /\ Len(ch) <= Capacity
  /\ loading \in Seq(Texts)
  /\ count \in [Texts -> Nat]
  /\ token \in Tokens \cup {NoToken} /\ tokenId \in Tokens \cup {NoToken}
  /\ begun \in BOOLEAN /\ armed \in BOOLEAN /\ fired \in BOOLEAN
  /\ out \in Seq(Message)
  /\ stage \in [Tokens -> {"none", "created", "begun", "ended"}]
  /\ shown \in Texts \cup {NoText}

Init ==
  /\ op = [o \in Ops |-> "idle"] /\ text = [o \in Ops |-> NoText]
  /\ starts = 0 /\ canceled = FALSE /\ zeroDelay \in BOOLEAN
  /\ ch = <<>> /\ running = TRUE
  /\ loading = <<>> /\ count = [x \in Texts |-> 0]
  /\ token = NoToken /\ tokenId = NoToken
  /\ begun = FALSE /\ armed = FALSE /\ fired = FALSE
  /\ out = <<>>
  /\ stage = [t \in Tokens |-> "none"] /\ shown = NoText

-----------------------------------------------------------------------------
(* start_blocking and finish_blocking: nothing once the context is         *)
(* canceled; otherwise send an event, waiting for room in the channel.     *)
Start(o, x) ==
  /\ op[o] = "idle" /\ starts < MaxStarts
  /\ starts' = starts + 1
  /\ text' = [text EXCEPT ![o] = x]
  /\ op' = [op EXCEPT ![o] = IF canceled THEN "working" ELSE "starting"]
  /\ UNCHANGED <<canceled, zeroDelay, ch, taskVars, out, clientVars>>

AfterSend(o) == IF op[o] = "starting" THEN "working" ELSE "idle"
TextAfter(o) == [text EXCEPT ![o] = IF op'[o] = "idle" THEN NoText ELSE @]

(* The operation is over, and the caller calls finish.                     *)
Finish(o) ==
  /\ op[o] = "working"
  /\ op' = [op EXCEPT ![o] = IF canceled THEN "idle" ELSE "finishing"]
  /\ text' = TextAfter(o)
  /\ UNCHANGED <<starts, canceled, zeroDelay, ch, taskVars, out, clientVars>>

Send(o) ==
  /\ op[o] \in {"starting", "finishing"}
  /\ running /\ Len(ch) < Capacity
  /\ ch' = Append(ch, [text |-> text[o], finish |-> op[o] = "finishing"])
  /\ op' = [op EXCEPT ![o] = AfterSend(o)]
  /\ text' = TextAfter(o)
  /\ UNCHANGED <<starts, canceled, zeroDelay, taskVars, out, clientVars>>

(* A plausible bug: only start gives up when the receiver is gone.         *)
SendFailsStartOnly(o) ==
  /\ op[o] = "starting"
  /\ ~running
  /\ op' = [op EXCEPT ![o] = AfterSend(o)]
  /\ text' = TextAfter(o)
  /\ UNCHANGED <<starts, canceled, zeroDelay, ch, taskVars, out, clientVars>>

(* The receiver is gone: the send fails and the event is dropped.          *)
SendFails(o) ==
  /\ op[o] \in {"starting", "finishing"}
  /\ ~running
  /\ op' = [op EXCEPT ![o] = AfterSend(o)]
  /\ text' = TextAfter(o)
  /\ UNCHANGED <<starts, canceled, zeroDelay, ch, taskVars, out, clientVars>>

(* The server shuts down.                                                  *)
Cancel ==
  /\ ~canceled
  /\ canceled' = TRUE
  /\ UNCHANGED <<opVars, zeroDelay, ch, taskVars, out, clientVars>>

-----------------------------------------------------------------------------
Msg(k, t, x) == [kind |-> k, token |-> t, text |-> x]

(* begin_or_report                                                         *)
BeginOrReport(t, x, hasBegun) == Msg(IF hasBegun THEN "report" ELSE "begin", t, x)

(* done.changed(): the poller has seen the canceled context.               *)
TaskStops ==
  /\ running /\ canceled
  /\ running' = FALSE
  /\ armed' = FALSE
  /\ ch' = <<>>
  /\ UNCHANGED <<opVars, canceled, zeroDelay, loading, count, token, tokenId, begun, fired,
                 out, clientVars>>

(* The delay timer fires.                                                  *)
DelayElapsed ==
  /\ running /\ armed
  /\ fired' = TRUE
  /\ armed' = FALSE
  /\ IF token # NoToken /\ loading # <<>>
     THEN /\ out' = out \o << Msg("create", token, NoText),
                              BeginOrReport(token, Head(loading), begun) >>
          /\ begun' = TRUE
     ELSE UNCHANGED <<out, begun>>
  /\ UNCHANGED <<opVars, canceled, zeroDelay, ch, running, loading, count, token, tokenId,
                 clientVars>>

(* ch.recv() of a start event: the first operation takes a new token and   *)
(* arms the delay; once the delay is over the indicator shows the new text.*)
RecvStart ==
  LET x     == Head(ch).text
      fresh == token = NoToken
      t     == IF fresh THEN tokenId + 1 ELSE token
      b     == ~fresh /\ begun
  IN
  /\ running /\ ch # <<>> /\ ~Head(ch).finish
  /\ ch' = Tail(ch)
  /\ loading' = IF count[x] = 0 THEN Append(loading, x) ELSE loading
  /\ count' = [count EXCEPT ![x] = @ + 1]
  /\ token' = t
  /\ tokenId' = IF fresh THEN tokenId + 1 ELSE tokenId
  /\ armed' = IF fresh /\ ~zeroDelay THEN TRUE ELSE armed
  /\ fired' = IF fresh THEN zeroDelay ELSE fired
  /\ out' = out \o (IF fresh /\ zeroDelay THEN << Msg("create", t, NoText) >> ELSE <<>>)
                \o (IF fired' THEN << BeginOrReport(t, x, b) >> ELSE <<>>)
  /\ begun' = (b \/ fired')
  /\ UNCHANGED <<opVars, canceled, zeroDelay, running, clientVars>>

(* OrderedMap::delete: the key goes, the others keep their order.          *)
Delete(x) ==
  IF Contains(loading, x)
  THEN RemoveAt(loading, CHOOSE i \in DOMAIN loading : loading[i] = x)
  ELSE loading

(* A plausible bug: the text goes although other operations still have it. *)
LoadingAfterFinishDeletes(x) == Delete(x)

(* loading.delete(text) for the last operation with this text              *)
LoadingAfterFinish(x) == IF count[x] <= 1 THEN Delete(x) ELSE loading

(* Plausible bugs: end for an indicator that never began; no end; a        *)
(* finished operation stays on the indicator.                              *)
FinishMessagesAlwaysEnd(x) ==
  IF token = NoToken THEN <<>>
  ELSE IF LoadingAfterFinish(x) = <<>>
  THEN << Msg("end", token, NoText) >>
  ELSE IF fired THEN << Msg("report", token, Head(LoadingAfterFinish(x))) >> ELSE <<>>
FinishMessagesNoEnd(x) ==
  IF token = NoToken \/ ~fired \/ LoadingAfterFinish(x) = <<>> THEN <<>>
  ELSE << Msg("report", token, Head(LoadingAfterFinish(x))) >>
FinishMessagesNoReport(x) ==
  IF token # NoToken /\ LoadingAfterFinish(x) = <<>> /\ begun
  THEN << Msg("end", token, NoText) >> ELSE <<>>

(* What a finish event sends: end after the last operation, if anything    *)
(* was shown; else, once the delay is over, the first remaining operation. *)
FinishMessages(x) ==
  IF token = NoToken THEN <<>>
  ELSE IF LoadingAfterFinish(x) = <<>>
  THEN IF begun THEN << Msg("end", token, NoText) >> ELSE <<>>
  ELSE IF fired THEN << Msg("report", token, Head(LoadingAfterFinish(x))) >> ELSE <<>>

(* ch.recv() of a finish event                                             *)
RecvFinish ==
  LET x == Head(ch).text IN
  /\ running /\ ch # <<>> /\ Head(ch).finish
  /\ ch' = Tail(ch)
  /\ loading' = LoadingAfterFinish(x)
  /\ count' = [count EXCEPT ![x] = IF @ <= 1 THEN 0 ELSE @ - 1]
  /\ out' = out \o FinishMessages(x)
  /\ IF token # NoToken /\ loading' = <<>>
     THEN armed' = FALSE /\ token' = NoToken
     ELSE UNCHANGED <<armed, token>>
  /\ UNCHANGED <<opVars, canceled, zeroDelay, running, tokenId, begun, fired, clientVars>>

-----------------------------------------------------------------------------
(* The server's write thread hands the client the oldest message.          *)
Write ==
  LET m == Head(out) IN
  /\ out # <<>>
  /\ out' = Tail(out)
  /\ stage' = [stage EXCEPT ![m.token] =
                 CASE m.kind = "create" -> "created"
                   [] m.kind = "begin"  -> "begun"
                   [] m.kind = "report" -> @
                   [] m.kind = "end"    -> "ended"]
  /\ shown' = CASE m.kind = "create" -> shown
                [] m.kind \in {"begin", "report"} -> m.text
                [] m.kind = "end" -> NoText
  /\ UNCHANGED <<opVars, canceled, zeroDelay, ch, taskVars>>

Next ==
  \/ \E o \in Ops : (\E x \in Texts : Start(o, x)) \/ Finish(o) \/ Send(o) \/ SendFails(o)
  \/ Cancel \/ TaskStops
  \/ DelayElapsed \/ RecvStart \/ RecvFinish
  \/ Write

(* Operations end, threads blocked in a send or draining a queue keep      *)
(* running, and the task handles what is ready.                            *)
Fairness ==
  /\ \A o \in Ops : WF_vars(Finish(o)) /\ WF_vars(SendFails(o)) /\ SF_vars(Send(o))
  /\ WF_vars(TaskStops) /\ WF_vars(DelayElapsed)
  /\ WF_vars(RecvStart \/ RecvFinish) /\ WF_vars(Write)

Spec == Init /\ [][Next]_vars
FairSpec == Spec /\ Fairness

-----------------------------------------------------------------------------
Events(x, f) == Cardinality({i \in 1 .. Len(ch) : ch[i] = [text |-> x, finish |-> f]})
Sent(x) == {o \in Ops : text[o] = x /\ op[o] \in {"working", "finishing"}}

(* Events are neither lost nor counted twice: the task's count of a text,  *)
(* corrected by the events still in the channel, is the number of          *)
(* operations with that text in progress; the ordered map holds exactly    *)
(* the counted texts, once each.  (The variables have their types          *)
(* throughout.)                                                            *)
CountsMatch ==
  /\ TypeOK
  /\ running /\ ~canceled => \A x \in Texts :
       count[x] + Events(x, FALSE) - Events(x, TRUE) = Cardinality(Sent(x))
  /\ ToSet(loading) = {x \in Texts : count[x] > 0}
  /\ Len(loading) = Cardinality(ToSet(loading))

(* Nothing is shown that is not going on: when the channel and the         *)
(* outgoing queue are drained, the client shows an indicator exactly when  *)
(* operations are in progress and the delay is over, and its text is that  *)
(* of one of them.                                                         *)
ShownIsActive ==
  running /\ ~canceled /\ ch = <<>> /\ out = <<>> =>
    /\ (\E t \in Tokens : stage[t] = "begun") <=> fired /\ \E x \in Texts : Sent(x) # {}
    /\ shown # NoText => Sent(shown) # {}

(* The client sees only what the protocol allows, under one indicator at a *)
(* time.                                                                   *)
WDP == INSTANCE WorkDoneProgress WITH Tokens <- Tokens, Texts <- Texts, NoText <- NoText,
                                      stage <- stage, shown <- shown
ClientProtocol == WDP!Spec

(* "will bail out if the server's background context is cancelled": nobody *)
(* stays blocked in start or finish, full channel or not.                  *)
NobodyBlocked ==
  \A o \in Ops :
    op[o] \in {"starting", "finishing"} ~> op[o] \notin {"starting", "finishing"}

(* While the server runs, an indicator that is shown goes away once the    *)
(* operations have ended.                                                  *)
IndicatorEnds ==
  <>[](~canceled /\ \A o \in Ops : op[o] = "idle") => <>[](shown = NoText)
=============================================================================
