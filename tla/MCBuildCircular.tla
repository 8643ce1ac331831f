--------------------------- MODULE MCBuildCircular ---------------------------
(* An instance of BuildOrchestrator with a ring of references marked       *)
(* circular, entered at one project or at the next, and the application    *)
(* that references the ring.  TLC finds StatusComputed violated.           *)
EXTENDS BuildOrchestrator

CONSTANTS app, base, one, two, three

CircularRef(t) == [to |-> t, circular |-> TRUE]
RefList(s)     == [i \in DOMAIN s |-> [to |-> s[i], circular |-> FALSE]]

Ring(p) ==
  CASE p = app   -> {RefList(<<base, one, two>>), RefList(<<base, two, one>>)}
    [] p = base  -> {<<>>}
    [] p = one   -> {<<CircularRef(two)>>}
    [] p = two   -> {<<CircularRef(three)>>}
    [] p = three -> {<<CircularRef(one)>>}

(* The watch is started with --stopBuildOnErrors on an error in two, which *)
(* one is built after; nothing has been built before.                      *)
RingInit ==
  /\ BuildInit
  /\ stopOnErrors = TRUE /\ output[two] = NoOutput /\ refs[app] = RefList(<<base, one, two>>)
  /\ src = [c \in Configs |-> [iface |-> 0, err |-> c = two]]

RingSpec == RingInit /\ [][BuildNext]_orchestratorVars

(* The assertion itself, "upstream status should be computed"              *)
(* (buildtask.rs:1038, unwrapped before in line 772): when                 *)
(* get_up_to_date_status goes through all upstream tasks, because none of  *)
(* them has errors that stop the build, each of them has a status.         *)
StatusComputed ==
  phase = "build" /\ pending[Current] /\ status[Current] = NoStatus /\ Current \notin Solutions
  /\ (stopOnErrors => UpstreamErrors(Current) = {}) =>
    \A u \in ToSet(upStream[Current]) : status[u] # NoStatus
=============================================================================
