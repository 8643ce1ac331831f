------------------------- MODULE MCBuildOrchestrator -------------------------
(* Instances of BuildOrchestrator for TLC.                                 *)
EXTENDS BuildOrchestrator

CONSTANTS sln, lib, app

PlainRef(t) == [to |-> t, circular |-> FALSE]
CircularRef(t) == [to |-> t, circular |-> TRUE]

(* A solution of two projects whose order may change.  app may             *)
(* reference lib, and itself in a reference marked circular; lib may       *)
(* reference app, which then closes a cycle.                               *)
TwoProjects(p) ==
  IF p = sln THEN {<<PlainRef(lib), PlainRef(app)>>, <<PlainRef(app), PlainRef(lib)>>}
  ELSE IF p = lib THEN {<<>>, <<PlainRef(app)>>}
  ELSE {<<>>, <<CircularRef(app), PlainRef(lib)>>}

(* Before anything is built an interface version means nothing: it is 0.   *)
(* At most one project has been edited since the earlier run.              *)
WatchInit ==
  /\ BuildInit
  /\ \A c, d \in Configs \ Solutions :
       IF output[c] = NoOutput THEN src[c].iface = 0
       ELSE c # d => src[c] = NoSource \/ src[d] = NoSource

WatchSpec == WatchInit /\ [][BuildNext]_orchestratorVars

(* The solution may leave out app, which references lib, or both.          *)
Leaving(p) ==
  IF p = sln THEN {<<PlainRef(lib), PlainRef(app)>>, <<PlainRef(lib)>>, <<>>}
  ELSE IF p = lib THEN {<<>>}
  ELSE {<<PlainRef(lib)>>}

(* An earlier run built everything; app may have been edited since.  No    *)
(* source ever has errors: they are the subject of WatchSpec.              *)
NoErrors == \A c \in Configs : ~src[c].err
LeavingInit ==
  /\ BuildInit /\ NoErrors /\ ~stopOnErrors
  /\ refs[sln] = <<PlainRef(lib), PlainRef(app)>>
  /\ src[lib] = NoSource /\ output[app] # NoOutput
LeavingSpec == LeavingInit /\ [][BuildNext /\ NoErrors']_orchestratorVars
LeavingFairSpec == LeavingSpec /\ WF_orchestratorVars(Orchestrate)
=============================================================================
