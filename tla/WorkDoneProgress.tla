-------------------------- MODULE WorkDoneProgress --------------------------
(***************************************************************************)
(* What the client may see of the loading indicator: the life of           *)
(* WorkDoneProgress tokens as the language server protocol has it.  A      *)
(* token is created, begun, reported on, ended, and never used again; the  *)
(* server shows at most one indicator at a time, under increasing tokens.  *)
(***************************************************************************)
EXTENDS Naturals

CONSTANTS
  Tokens,      \* the ids of the tokens tsgo-loading-<id>
  Texts,       \* what an indicator may show
  NoText       \* nothing is shown

VARIABLES
  stage,       \* the life of a token, as the client has seen it
  shown        \* the text last shown

vars == <<stage, shown>>

Stage == {"none", "created", "begun", "ended"}
Open(t) == stage[t] \in {"created", "begun"}

Init == stage = [t \in Tokens |-> "none"] /\ shown = NoText

Create(t) ==
  /\ stage[t] = "none"
  /\ \A u \in Tokens : ~Open(u) /\ (u > t => stage[u] = "none")
  /\ stage' = [stage EXCEPT ![t] = "created"]
  /\ UNCHANGED shown

Begin(t, x) ==
  /\ stage[t] = "created"
  /\ stage' = [stage EXCEPT ![t] = "begun"]
  /\ shown' = x

Report(t, x) ==
  /\ stage[t] = "begun"
  /\ shown' = x
  /\ UNCHANGED stage

End(t) ==
  /\ stage[t] = "begun"
  /\ stage' = [stage EXCEPT ![t] = "ended"]
  /\ shown' = NoText

Next ==
  \E t \in Tokens :
    \/ Create(t) \/ End(t)
    \/ \E x \in Texts : Begin(t, x) \/ Report(t, x)

Spec == Init /\ [][Next]_vars
=============================================================================
