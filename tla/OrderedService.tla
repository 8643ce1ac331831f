---------------------------- MODULE OrderedService ----------------------------
(***************************************************************************)
(* What a client of the language server may rely on: its requests are      *)
(* answered in the order it sent them, each once, and an answer that is no *)
(* error was computed after exactly the edits the client sent before the   *)
(* request.                                                                *)
(***************************************************************************)
EXTENDS Naturals, Sequences, FiniteSets

CONSTANTS
  Kinds,       \* what a client may send
  Failed       \* the outcome of a request that was answered with an error

VARIABLES
  log,         \* what the client has sent
  answers      \* the answers it has received

vars == <<log, answers>>

IsRequest(k)   == k \in {"initialize", "request"}
Requests       == {i \in DOMAIN log : IsRequest(log[i])}
EditsBefore(i) == Cardinality({j \in 1 .. i : log[j] = "edit"})

Init == log = <<>> /\ answers = <<>>

Send(k) ==
  /\ log' = Append(log, k)
  /\ UNCHANGED answers

(* The next request in order is the one with Len(answers) before it.       *)
Answer(i, failed) ==
  /\ Cardinality({j \in Requests : j < i}) = Len(answers)
  /\ answers' = Append(answers, [id |-> i, edits |-> IF failed THEN Failed ELSE EditsBefore(i)])
  /\ UNCHANGED log

Next ==
  \/ \E k \in Kinds : Send(k)
  \/ \E i \in Requests, failed \in BOOLEAN : Answer(i, failed)

Spec == Init /\ [][Next]_vars
=============================================================================
