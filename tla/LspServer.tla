------------------------------ MODULE LspServer ------------------------------
(***************************************************************************)
(* The message loop of the language server (crates/ts-lsp/src/server.rs).  *)
(* One thread reads a message, handles it and whatever was queued          *)
(* meanwhile, and reads the next one.  A handler may itself send a request *)
(* to the client; it then reads the connection until the answer comes,     *)
(* queueing the requests and notifications it meets.  A second thread      *)
(* writes the outgoing queue.  The session's background tasks run on the   *)
(* thread that enqueues them (crates/ts-project/src/background/mod.rs).    *)
(***************************************************************************)
EXTENDS Integers, Sequences, FiniteSets

CONSTANTS
  MaxMsgs,      \* bound: messages the client sends
  MaxAsks       \* bound: requests the server sends

ASSUME BoundsAssumption == MaxMsgs \in Nat /\ MaxAsks \in Nat

VARIABLES
  log,          \* what the client has sent, by position
  inbox,        \* the connection to the server: messages and answers
  eof,          \* the client has closed it
  queue,        \* request_queue
  phase,        \* what the server's thread is doing
  current,      \* the message it handles, or 0
  ask, asks,    \* the server request it waits for, and how many it has sent
  initialized,  \* initialize_params.is_some()
  session,      \* session.is_some()
  applied,      \* edits applied to the session
  out,          \* outgoing_queue
  writer,       \* the write thread
  received,     \* the answers the client has received
  asked,        \* server requests the client has received and not answered
  telemetry     \* telemetry_enabled: the client's initialization option

clientVars == <<log, eof, asked, received, telemetry>>
serverVars == <<queue, phase, current, ask, asks, initialized, session, applied>>
vars == <<clientVars, inbox, serverVars, out, writer>>

(* A garbled message is one that cannot be read as a message at all.       *)
Kinds   == {"initialize", "initialized", "request", "edit", "cancel", "garbled"}
Failed  == -1
Ids     == 1 .. MaxMsgs
AskIds  == 1 .. MaxAsks
Phases  == {"reading", "dispatching", "handling", "asking", "telemetry", "stopping", "ended",
            "failed", "exited"}

Incoming == [kind : {"message"}, id : Ids] \cup [kind : {"answer"}, id : AskIds]
Outgoing == [kind : {"response"}, id : Ids, edits : -1 .. MaxMsgs] \cup
            [kind : {"ask"}, id : AskIds, edits : {0}]

(* The types of the connection's two ends and of the server.               *)
TypeOK ==
  /\ log \in Seq(Kinds) /\ Len(log) <= MaxMsgs
  /\ inbox \in Seq(Incoming) /\ out \in Seq(Outgoing) /\ queue \in Seq(Ids)
  /\ eof \in BOOLEAN /\ telemetry \in BOOLEAN /\ initialized \in BOOLEAN /\ session \in BOOLEAN
  /\ phase \in Phases /\ writer \in {"running", "failed"}
  /\ current \in Ids \cup {0}
  /\ current # 0 <=> phase \in {"handling", "asking", "telemetry", "failed", "exited"}
  /\ ask \in AskIds \cup {0} /\ (phase = "asking" <=> ask # 0)
  /\ asks \in 0 .. MaxAsks /\ applied \in 0 .. MaxMsgs
  /\ asked \subseteq AskIds
  /\ received \in Seq([id : Ids, edits : -1 .. MaxMsgs])

Init ==
  /\ log = <<>> /\ inbox = <<>> /\ eof = FALSE
  /\ queue = <<>> /\ phase = "reading" /\ current = 0 /\ ask = 0 /\ asks = 0
  /\ initialized = FALSE /\ session = FALSE /\ applied = 0
  /\ out = <<>> /\ writer = "running"
  /\ received = <<>> /\ asked = {} /\ telemetry \in BOOLEAN

-----------------------------------------------------------------------------
(* The client: initialize comes first and once, initialized after it, and  *)
(* edits after that; a request, or what is none, may come at any time.     *)
Connected == ~eof /\ phase \notin {"ended", "exited"}

Sent(k) == \E i \in DOMAIN log : log[i] = k

ClientSend(k) ==
  /\ Connected /\ Len(log) < MaxMsgs
  /\ k = "initialize" => ~Sent("initialize")
  /\ k = "initialized" => Sent("initialize") /\ ~Sent("initialized")
  /\ k \in {"edit", "cancel"} => Sent("initialized")
  /\ log' = Append(log, k)
  /\ inbox' = Append(inbox, [kind |-> "message", id |-> Len(log) + 1])
  /\ UNCHANGED <<eof, asked, received, telemetry, serverVars, out, writer>>

ClientAnswer(a) ==
  /\ Connected /\ a \in asked
  /\ asked' = asked \ {a}
  /\ inbox' = Append(inbox, [kind |-> "answer", id |-> a])
  /\ UNCHANGED <<log, eof, received, telemetry, serverVars, out, writer>>

ClientClose ==
  /\ ~eof
  /\ eof' = TRUE
  /\ UNCHANGED <<log, asked, received, telemetry, inbox, serverVars, out, writer>>

-----------------------------------------------------------------------------
Response(i, edits) == [kind |-> "response", id |-> i, edits |-> edits]

Garbled(m)   == m.kind = "message" /\ log[m.id] = "garbled"
Readable     == inbox # <<>> /\ ~Garbled(Head(inbox))
(* read returns an error, at the end of the connection or before.          *)
CannotRead   == IF inbox = <<>> THEN eof ELSE Garbled(Head(inbox))
Skip(s)      == IF s = <<>> THEN s ELSE Tail(s)

(* Server::run reads a message: process_incoming_message answers requests  *)
(* before initialize is done at once, drops an answer nobody waits for and *)
(* a cancellation of nothing, and queues the rest.                         *)
Read ==
  LET m == Head(inbox)
      k == log[m.id]
      early == m.kind = "message" /\ ~initialized /\ k \in {"initialize", "request"}
  IN
  /\ phase = "reading" /\ Readable
  /\ inbox' = Tail(inbox)
  /\ initialized' = (initialized \/ (early /\ k = "initialize"))
  /\ out' = IF early THEN Append(out, Response(m.id, IF k = "initialize" THEN 0 ELSE Failed))
            ELSE out
  /\ queue' = IF m.kind = "message" /\ ~early /\ k # "cancel" THEN Append(queue, m.id) ELSE queue
  /\ phase' = "dispatching"
  /\ UNCHANGED <<clientVars, current, ask, asks, session, applied, writer>>

(* The parameters of initialize or of a cancellation cannot be understood: *)
(* run returns the error at once, with no answer, and the process is about *)
(* to exit.                                                                *)
ReadInvalid ==
  LET m == Head(inbox) IN
  /\ phase = "reading" /\ Readable /\ m.kind = "message"
  /\ log[m.id] = "cancel" \/ (log[m.id] = "initialize" /\ ~initialized)
  /\ inbox' = Tail(inbox)
  /\ current' = m.id /\ phase' = "failed"
  /\ UNCHANGED <<clientVars, queue, ask, asks, initialized, session, applied, out,
                 writer>>

(* dispatch_loop takes the oldest queued message, or ends.                 *)
Dispatch ==
  /\ phase = "dispatching" /\ queue # <<>>
  /\ current' = Head(queue)
  /\ queue' = Tail(queue)
  /\ phase' = "handling"
  /\ session' = (session \/ (initialized /\ log[Head(queue)] = "initialized"))
  /\ UNCHANGED <<clientVars, inbox, ask, asks, initialized, applied, out, writer>>

DispatchEnds ==
  /\ phase = "dispatching" /\ queue = <<>>
  /\ phase' = "reading"
  /\ UNCHANGED <<clientVars, inbox, queue, current, ask, asks, initialized, session, applied,
                 out, writer>>

(* A handler sends a request to the client (send_client_request), and      *)
(* waits for the answer unless it fires and forgets.                       *)
SendClientRequest(waits) ==
  /\ phase = "handling" /\ session /\ log[current] # "cancel" /\ asks < MaxAsks
  /\ asks' = asks + 1
  /\ out' = Append(out, [kind |-> "ask", id |-> asks + 1, edits |-> 0])
  /\ IF waits THEN ask' = asks + 1 /\ phase' = "asking" ELSE UNCHANGED <<ask, phase>>
  /\ UNCHANGED <<clientVars, inbox, queue, current, initialized, session, applied, writer>>

(* Plausible bugs: what the waiting handler reads goes to the front of the *)
(* queue, or is dropped.                                                   *)
AskReadFront ==
  LET m == Head(inbox) IN
  /\ phase = "asking" /\ Readable
  /\ inbox' = Tail(inbox)
  /\ queue' = IF m.kind = "message" THEN <<m.id>> \o queue ELSE queue
  /\ IF m.kind = "answer" /\ m.id = ask THEN ask' = 0 /\ phase' = "handling"
     ELSE UNCHANGED <<ask, phase>>
  /\ UNCHANGED <<clientVars, current, asks, initialized, session, applied, out, writer>>
AskReadDrops ==
  LET m == Head(inbox) IN
  /\ phase = "asking" /\ Readable
  /\ inbox' = Tail(inbox)
  /\ IF m.kind = "answer" /\ m.id = ask THEN ask' = 0 /\ phase' = "handling"
     ELSE UNCHANGED <<ask, phase>>
  /\ UNCHANGED <<clientVars, queue, current, asks, initialized, session, applied, out, writer>>

(* It reads the connection itself: its answer ends the wait, another       *)
(* answer is dropped, the rest is queued.                                  *)
AskRead ==
  LET m == Head(inbox) IN
  /\ phase = "asking" /\ Readable
  /\ inbox' = Tail(inbox)
  /\ queue' = IF m.kind = "message" THEN Append(queue, m.id) ELSE queue
  /\ IF m.kind = "answer" /\ m.id = ask THEN ask' = 0 /\ phase' = "handling"
     ELSE UNCHANGED <<ask, phase>>
  /\ UNCHANGED <<clientVars, current, asks, initialized, session, applied, out, writer>>

(* A plausible bug: only the main loop notices the end of the connection.  *)
AskReadFailsIgnored ==
  /\ phase = "asking" /\ CannotRead
  /\ inbox' = Skip(inbox)
  /\ UNCHANGED <<clientVars, serverVars, out, writer>>

(* Nothing can be read during the wait: the handler's request failed, and  *)
(* its answer is no longer waited for.                                     *)
AskReadFails ==
  /\ phase = "asking" /\ CannotRead
  /\ inbox' = Skip(inbox)
  /\ ask' = 0 /\ phase' = "handling"
  /\ UNCHANGED <<clientVars, queue, current, asks, initialized, session, applied, out,
                 writer>>

(* The handler returns: a request is answered with its result or an error, *)
(* by an error when there is no session; the edit is applied.              *)
Finish(fails) ==
  LET k == log[current] IN
  /\ phase = "handling"
  /\ ~(telemetry /\ k = "initialized" /\ ~fails)
  /\ out' = IF k \in {"initialize", "request"}
            THEN Append(out, Response(current, IF fails \/ ~session THEN Failed ELSE applied))
            ELSE out
  /\ applied' = IF k = "edit" /\ session THEN applied + 1 ELSE applied
  /\ current' = 0 /\ phase' = "dispatching"
  /\ UNCHANGED <<clientVars, inbox, queue, ask, asks, initialized, session, writer>>

(* handle_initialized calls start_performance_telemetry, which enqueues a  *)
(* task that loops until the session's context is canceled.                *)
StartPerformanceTelemetry ==
  /\ phase = "handling" /\ log[current] = "initialized" /\ telemetry
  /\ phase' = "telemetry"
  /\ UNCHANGED <<clientVars, inbox, queue, current, ask, asks, initialized, session, applied,
                 out, writer>>

(* Nothing can be read: the loop ends and the write thread is joined.      *)
Stop ==
  /\ phase = "reading" /\ CannotRead
  /\ inbox' = Skip(inbox)
  /\ phase' = "stopping"
  /\ UNCHANGED <<clientVars, queue, current, ask, asks, initialized, session, applied,
                 out, writer>>

Join ==
  /\ phase = "stopping" /\ (out = <<>> \/ writer = "failed")
  /\ phase' = "ended"
  /\ UNCHANGED <<clientVars, inbox, queue, current, ask, asks, initialized, session, applied,
                 out, writer>>

(* After an error of process_incoming_message nobody joins the write       *)
(* thread, and the process exits.                                          *)
Exit ==
  /\ phase = "failed"
  /\ phase' = "exited"
  /\ UNCHANGED <<clientVars, inbox, queue, current, ask, asks, initialized, session, applied,
                 out, writer>>

-----------------------------------------------------------------------------
(* The write thread hands the client the oldest message, or fails to.      *)
Write ==
  LET m == Head(out) IN
  /\ writer = "running" /\ out # <<>> /\ phase \notin {"ended", "exited"}
  /\ out' = Tail(out)
  /\ IF m.kind = "ask"
     THEN asked' = asked \cup {m.id} /\ UNCHANGED received
     ELSE /\ received' = Append(received, [id |-> m.id, edits |-> m.edits])
          /\ UNCHANGED asked
  /\ UNCHANGED <<log, eof, telemetry, inbox, serverVars, writer>>

WriteFails ==
  /\ writer = "running" /\ out # <<>> /\ phase \notin {"ended", "exited"}
  /\ writer' = "failed"
  /\ out' = Tail(out)
  /\ UNCHANGED <<clientVars, inbox, serverVars>>

Client == (\E k \in Kinds : ClientSend(k)) \/ (\E a \in AskIds : ClientAnswer(a)) \/ ClientClose
Handle == Dispatch \/ DispatchEnds \/ (\E f \in BOOLEAN : Finish(f)) \/ StartPerformanceTelemetry

Next ==
  \/ Client
  \/ Read \/ ReadInvalid \/ Handle
  \/ \E w \in BOOLEAN : SendClientRequest(w)
  \/ AskRead \/ AskReadFails
  \/ Stop \/ Join \/ Exit
  \/ Write \/ WriteFails

(* The two threads keep running, handlers return, and a client that is     *)
(* asked something answers or closes the connection.                       *)
Fairness ==
  /\ WF_vars(Read \/ ReadInvalid) /\ WF_vars(Handle)
  /\ WF_vars(AskRead) /\ WF_vars(AskReadFails)
  /\ WF_vars(Stop) /\ WF_vars(Join) /\ WF_vars(Exit) /\ WF_vars(Write)
  /\ \A a \in AskIds : WF_vars(ClientAnswer(a))

Spec == Init /\ [][Next]_vars
FairSpec == Spec /\ Fairness

-----------------------------------------------------------------------------
(* The server serves its client in order, nested reads and early requests  *)
(* included.                                                               *)
Service == INSTANCE OrderedService WITH log <- log, answers <- received,
                                        Kinds <- Kinds, Failed <- Failed
ServesInOrder == Service!Spec

Answered(i) == \E n \in DOMAIN received : received[n].id = i

Unread(i)   == \E n \in DOMAIN inbox : inbox[n] = [kind |-> "message", id |-> i]

(* An answer cannot be given when messages can no longer be written, when  *)
(* the process exited over a message with invalid parameters, answers not  *)
(* yet written with it, or when the server ended, at a message it could    *)
(* not read, before it came to the request.                                *)
Cut(i) ==
  writer = "failed" \/ phase = "exited" \/ (phase = "ended" /\ Unread(i))

(* Every request is answered or cut off, unless the thread went into the   *)
(* telemetry loop.  The end of the connection cuts nothing off: all that   *)
(* was sent before is read, handled and its answers are written.           *)
RequestsAnswered ==
  \A i \in Ids : (i \in Service!Requests) ~> (Answered(i) \/ Cut(i) \/ phase = "telemetry")

(* The server ends when its client closes the connection, with the same    *)
(* exception.                                                              *)
ServerEnds == eof ~> phase \in {"ended", "exited", "telemetry"}

(* "Queue manages background tasks execution": with the performance        *)
(* telemetry, a background task, on, requests are answered as without it.  *)
TelemetryInBackground ==
  \A i \in Ids : (i \in Service!Requests) ~> (Answered(i) \/ Cut(i))
=============================================================================
