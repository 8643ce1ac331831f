-------------------------- MODULE BuildOrchestrator --------------------------
(***************************************************************************)
(* tsc --build --watch (crates/ts-execute/src/build/orchestrator.rs and    *)
(* buildtask.rs): the orchestrator generates the graph of build tasks from *)
(* the project references, builds the tasks in order, records the times of *)
(* what it watches, and then polls: a cycle asks every task for updates,   *)
(* generates the graph again when a config changed (reusing the tasks of   *)
(* unchanged configs) and builds what is pending.  One thread runs it all; *)
(* the user edits sources and configs at any time.                         *)
(*                                                                         *)
(* A project has one source file; its content is an interface version (the *)
(* declaration file it is compiled to) and whether it has errors.  Times   *)
(* count edits: an output is stamped with the edits made before it.  The   *)
(* times of upstream declarations are compared as what they stand for: the *)
(* output remembers the declarations it was made from.                     *)
(***************************************************************************)
EXTENDS Integers, Sequences, FiniteSets, SequencesExt

CONSTANTS
  Configs,        \* config files of projects
  Root,           \* the project given on the command line
  Solutions,      \* configs without files of their own
  Layouts(_),     \* the reference lists a config may be given by an edit
  MaxClock        \* bound: edits, the ones before the start counted as one

References == Seq([to : Configs, circular : BOOLEAN])

ASSUME RootAssumption    == Root \in Configs /\ Solutions \subseteq Configs
ASSUME LayoutsAssumption == \A c \in Configs : Layouts(c) \subseteq References
ASSUME ClockAssumption   == MaxClock \in Nat \ {0}

Content == [iface : 0 .. 1, err : BOOLEAN]
Time    == 0 .. MaxClock
NoTime  == -1
(* "inputFileNewer" stands for every kind that asks for a compile.         *)
StatusKinds ==
  {"none", "upToDate", "upToDateWithUpstreamTypes", "upToDateWithInputFileText", "inputFileNewer",
   "upstreamErrors", "buildErrors", "solution"}
NoSource == [iface |-> 0, err |-> FALSE]
NoOutput == [src |-> NoSource, at |-> NoTime, seen |-> <<>>]
Unparsed == {}

VARIABLES
  (* the disk *)
  src, srcTime,       \* source file of a project, its modification time
  refs, cfgTime,      \* project references of a config, its modification time
  output,             \* what a project's output was made from, or NoOutput
  clock,              \* edits so far
  (* the orchestrator *)
  phase, pos,         \* what it does, and for which task of the order
  stopOnErrors,       \* --stopBuildOnErrors
  order, errors,      \* build order; a circularity was found
  walk,               \* setup_build_task: its calls under way, the outermost first
  needs,              \* needs_update, needs_config_update
  parsed,             \* host.resolved_references: at most one parse of a config
  mSrc, mCfg,         \* host.m_times: times read in this cycle
  (* the tasks *)
  upStream, downStream, status, done, reportDone, prevReporter,
  pending, initial, dirty,
  watchSrc, watchCfg, \* BuildTask.input_files, config_time
  missed,             \* history: files whose last edit came when nobody would look at it
  away                \* history: projects out of the graph when declarations changed,
                      \* and not compiled since

diskVars == <<src, srcTime, refs, cfgTime, output, clock>>
taskVars == <<upStream, downStream, status, done, reportDone, prevReporter,
              pending, initial, dirty, watchSrc, watchCfg>>
orchestratorVars ==
  <<diskVars, stopOnErrors, phase, pos, order, errors, walk, needs, parsed, mSrc, mCfg,
    taskVars, missed, away>>

(* A status, the upstream project it blames, and the newest input's time   *)
(* when get_up_to_date_status computed it.                                 *)
St(k)     == [kind |-> k, ref |-> Root, input |-> NoTime]
NoStatus  == St("none")
IsError(s) == s.kind \in {"buildErrors", "upstreamErrors"}

(* A dropped task is "over" for the task that reports after it when it had *)
(* reported before it was dropped, and "never" when it had not.            *)
Reporters == Configs \cup {"nobody", "over", "never"}

Tasks == ToSet(order)

DiskTypes ==
  /\ src \in [Configs -> Content] /\ srcTime \in [Configs -> Time]
  /\ refs \in [Configs -> References] /\ cfgTime \in [Configs -> Time]
  /\ \A c \in Configs : refs[c] \in Layouts(c)
  /\ clock \in 0 .. MaxClock

ThreadTypes ==
  /\ phase \in {"start", "graph", "build", "report", "watch", "sleep", "check", "decide"}
  /\ order \in Seq(Configs) /\ IsInjective(order) /\ errors \in BOOLEAN
  /\ walk \in Seq([task : Configs, next : Nat \ {0}, circular : BOOLEAN])
  /\ stopOnErrors \in BOOLEAN
  /\ pos \in 1 .. Len(order) + 1
  /\ needs \subseteq {"update", "config"}
  /\ parsed \in [Configs -> SUBSET References]
  /\ \A c \in Configs : parsed[c] = Unparsed \/ \E rs \in Layouts(c) : parsed[c] = {rs}
  /\ mSrc \in [Configs -> Time \cup {NoTime}] /\ mCfg \in [Configs -> Time \cup {NoTime}]
  /\ missed \subseteq {"source", "config"} \X Configs /\ away \subseteq Configs

TaskTypes ==
  /\ upStream \in [Configs -> Seq(Configs)] /\ downStream \in [Configs -> SUBSET Configs]
  /\ status \in [Configs -> [kind : StatusKinds, ref : Configs, input : Time \cup {NoTime}]]
  /\ done \in [Configs -> BOOLEAN] /\ reportDone \in [Configs -> BOOLEAN]
  /\ prevReporter \in [Configs -> Reporters]
  /\ pending \in [Configs -> BOOLEAN] /\ initial \in [Configs -> BOOLEAN]
  /\ dirty \in [Configs -> BOOLEAN]
  /\ watchSrc \in [Configs -> Time \cup {NoTime}]
  /\ watchCfg \in [Configs -> Time \cup {NoTime}]

(* The types of the disk, the orchestrator and the tasks.                  *)
BuildTypeOK == DiskTypes /\ ThreadTypes /\ TaskTypes

Iface(c) == IF output[c] = NoOutput THEN -1 ELSE output[c].src.iface

(* What compiling c now makes: it sees the outputs of its upstream tasks.  *)
Compiled(c) ==
  [src |-> src[c], at |-> clock,
   seen |-> [u \in ToSet(upStream[c]) \ Solutions |-> Iface(u)]]

BuildInit ==
  /\ src \in [Configs -> Content]
  /\ \A c \in Solutions : src[c] = NoSource
  /\ refs \in [Configs -> UNION {Layouts(c) : c \in Configs}]
  /\ \A c \in Configs : refs[c] \in Layouts(c)
  /\ srcTime = [c \in Configs |-> IF src[c] = NoSource THEN 0 ELSE 1]
  /\ cfgTime = [c \in Configs |-> 0]
  (* nothing has been built, or an earlier run built what was there at time 0 *)
  /\ \E built \in BOOLEAN : output = [c \in Configs |->
       IF built /\ c \notin Solutions
       THEN [src |-> NoSource, at |-> 0, seen |-> [u \in {r.to : r \in ToSet(refs[c])} |-> 0]]
       ELSE NoOutput]
  /\ clock = 1
  /\ stopOnErrors \in BOOLEAN
  /\ phase = "start" /\ pos = 1 /\ order = <<>> /\ errors = FALSE /\ walk = <<>> /\ needs = {}
  /\ parsed = [c \in Configs |-> Unparsed]
  /\ mSrc = [c \in Configs |-> NoTime] /\ mCfg = [c \in Configs |-> NoTime]
  /\ upStream = [c \in Configs |-> <<>>] /\ downStream = [c \in Configs |-> {}]
  /\ status = [c \in Configs |-> NoStatus]
  /\ done = [c \in Configs |-> FALSE] /\ reportDone = [c \in Configs |-> FALSE]
  /\ prevReporter = [c \in Configs |-> "nobody"]
  /\ pending = [c \in Configs |-> FALSE] /\ initial = [c \in Configs |-> FALSE]
  /\ dirty = [c \in Configs |-> FALSE]
  /\ watchSrc = [c \in Configs |-> NoTime] /\ watchCfg = [c \in Configs |-> NoTime]
  /\ missed = {} /\ away = {}

-----------------------------------------------------------------------------
(* The user edits a source file or the references of a config, at any      *)
(* time.  Edits in time are those before the start, those of files whose   *)
(* time this cycle has not looked at while it polls or sleeps (the config  *)
(* of a project out of the graph is not looked at, and its parse is kept), *)
(* and those of files whose time it has when their task is done with them. *)
InTime(file, c, m) ==
  \/ phase = "start"
  \/ /\ file = "config" => c \in Tasks
     /\ \/ phase \in {"sleep", "check"} /\ m = NoTime
        \/ phase \in {"build", "report", "watch"} /\ m # NoTime /\ ~pending[c] /\ done[c]

Edited(file, c, m) ==
  /\ clock < MaxClock
  /\ clock' = clock + 1
  /\ missed' = IF InTime(file, c, m) THEN missed \ {<<file, c>>} ELSE missed \cup {<<file, c>>}

EditSource(c, x) ==
  /\ Edited("source", c, mSrc[c]) /\ c \notin Solutions /\ x # src[c]
  /\ src' = [src EXCEPT ![c] = x]
  /\ srcTime' = [srcTime EXCEPT ![c] = clock + 1]
  /\ UNCHANGED <<refs, cfgTime, output, phase, pos, order, errors, needs, parsed,
                 mSrc, mCfg, taskVars>>

EditReferences(c, rs) ==
  /\ Edited("config", c, mCfg[c]) /\ rs # refs[c]
  /\ refs' = [refs EXCEPT ![c] = rs]
  /\ cfgTime' = [cfgTime EXCEPT ![c] = clock + 1]
  /\ UNCHANGED <<src, srcTime, output, phase, pos, order, errors, needs, parsed,
                 mSrc, mCfg, taskVars>>

-----------------------------------------------------------------------------
(* What a config references; a parse of an earlier cycle is used again.    *)
RefsOf(c)  == IF parsed[c] = Unparsed THEN refs[c] ELSE CHOOSE rs \in parsed[c] : TRUE
Targets(c) == {r.to : r \in ToSet(RefsOf(c))}

(* The configs reachable from S: what every set has that includes S and    *)
(* the references of its members.                                          *)
Reachable(S) ==
  {c \in Configs : \A T \in SUBSET Configs :
     S \subseteq T /\ (\A x \in T : Targets(x) \subseteq T) => c \in T}

(* create_build_tasks: the reachable configs are parsed and get their      *)
(* tasks.  Old tasks are reused unless their config changed; first says    *)
(* that there are none.                                                    *)
CreateBuildTasks(first) ==
  \E tasks \in {Reachable({Root})} :
  LET kept(c) == ~first /\ c \in tasks /\ c \in Tasks /\ ~dirty[c]
      made(c) == c \in tasks /\ ~kept(c)
      (* the previous reporter of a reused task may be dropped *)
      link(p) == IF p \notin Configs \/ kept(p) THEN p
                 ELSE IF reportDone[p] THEN "over" ELSE "never"
  IN
  /\ parsed' = [c \in Configs |-> IF c \in tasks THEN {RefsOf(c)} ELSE parsed[c]]
  /\ upStream' = [c \in Configs |-> <<>>]
  /\ downStream' = [u \in Configs |-> {d \in downStream[u] : kept(u) /\ kept(d)}]
  /\ status' = [c \in Configs |-> IF kept(c) THEN status[c] ELSE NoStatus]
  /\ pending' = [c \in Configs |-> IF kept(c) THEN pending[c] ELSE made(c)]
  /\ initial' = [c \in Configs |-> IF kept(c) THEN initial[c] ELSE made(c) /\ first]
  /\ dirty' = [c \in Configs |-> FALSE]
  /\ done' = [c \in Configs |-> kept(c) /\ done[c]]
  /\ reportDone' = [c \in Configs |-> kept(c) /\ reportDone[c]]
  /\ prevReporter' = [c \in Configs |-> IF kept(c) THEN link(prevReporter[c]) ELSE "nobody"]
  /\ watchSrc' = [c \in Configs |-> IF kept(c) THEN watchSrc[c] ELSE NoTime]
  /\ watchCfg' = [c \in Configs |-> IF kept(c) THEN watchCfg[c] ELSE NoTime]

Frame(c, circular) == [task |-> c, next |-> 1, circular |-> circular]

(* generate_graph: the tasks, and the walk over them from the root.        *)
GenerateGraph(first) ==
  /\ CreateBuildTasks(first)
  /\ order' = <<>> /\ errors' = FALSE
  /\ walk' = <<Frame(Root, FALSE)>>
  /\ phase' = "graph" /\ pos' = 1
  /\ UNCHANGED <<diskVars, needs, mSrc, mCfg>>

(* start: the first graph                                                  *)
StartBuild == phase = "start" /\ GenerateGraph(TRUE)

-----------------------------------------------------------------------------
(* setup_build_task: depth first; walk has the calls under way, each with  *)
(* the reference it is at and whether it is inside a reference marked      *)
(* circular.                                                               *)
Top       == walk[Len(walk)]
HasNext   == Top.next <= Len(RefsOf(Top.task))
Ref       == RefsOf(Top.task)[Top.next]
Advance   == [walk EXCEPT ![Len(walk)].next = @ + 1]
Analyzing == {walk[i].task : i \in DOMAIN walk}

(* Plausible bug: a task that is being analyzed is taken for a completed   *)
(* one.                                                                    *)
CompletedOrAnalyzing(c) == c \in ToSet(order) \cup Analyzing

Completed(c) == c \in ToSet(order)

(* A completed task is upstream of the one that references it.             *)
LinkReference ==
  /\ phase = "graph" /\ HasNext /\ Completed(Ref.to)
  /\ upStream' = [upStream EXCEPT ![Top.task] = Append(@, Ref.to)]
  /\ downStream' = [downStream EXCEPT ![Ref.to] = @ \cup {Top.task}]
  /\ walk' = Advance
  /\ UNCHANGED <<diskVars, phase, pos, order, errors, needs, parsed, mSrc, mCfg, status, done,
                 reportDone, prevReporter, pending, initial, dirty, watchSrc, watchCfg>>

(* A reference to a task that is being analyzed is dropped, and is an      *)
(* error unless it is inside a reference marked circular.                  *)
DropReference ==
  /\ phase = "graph" /\ HasNext /\ ~Completed(Ref.to) /\ Ref.to \in Analyzing
  /\ errors' = (errors \/ ~(Top.circular \/ Ref.circular))
  /\ walk' = Advance
  /\ UNCHANGED <<diskVars, phase, pos, order, needs, parsed, mSrc, mCfg, taskVars>>

EnterReference ==
  /\ phase = "graph" /\ HasNext /\ ~Completed(Ref.to) /\ Ref.to \notin Analyzing
  /\ walk' = Append(walk, Frame(Ref.to, Top.circular \/ Ref.circular))
  /\ UNCHANGED <<diskVars, phase, pos, order, errors, needs, parsed, mSrc, mCfg, taskVars>>

(* build_or_clean: circularity errors prevent any project from being built.*)
BuildOrClean == phase' = (IF errors THEN "watch" ELSE "build") /\ pos' = 1

(* A task enters the order after what it references; the root ends the     *)
(* walk.                                                                   *)
CompleteTask ==
  /\ phase = "graph" /\ ~HasNext
  /\ order' = Append(order, Top.task)
  /\ prevReporter' = [prevReporter EXCEPT ![Top.task] =
                        IF order = <<>> THEN @ ELSE order[Len(order)]]
  /\ done' = [done EXCEPT ![Top.task] = FALSE]
  /\ reportDone' = [reportDone EXCEPT ![Top.task] = FALSE]
  /\ walk' = SubSeq(walk, 1, Len(walk) - 1)
  /\ IF Len(walk) = 1 THEN BuildOrClean ELSE UNCHANGED <<phase, pos>>
  /\ UNCHANGED <<diskVars, errors, needs, parsed, mSrc, mCfg, upStream, downStream, status,
                 pending, initial, dirty, watchSrc, watchCfg>>

-----------------------------------------------------------------------------
(* get_up_to_date_status for a task without a status.                      *)
UpstreamErrors(c) == {i \in DOMAIN upStream[c] : IsError(status[upStream[c][i]])}

(* Up to the build info: the checks that do not look at times.             *)
KnownWithoutTimes(c) ==
  \/ c \in Solutions
  \/ stopOnErrors /\ UpstreamErrors(c) # {}
  \/ output[c] = NoOutput
  \/ output[c] # NoOutput /\ output[c].src.err

(* Plausible bug: the host asks the file system again.                     *)
TimeOnDisk(m, t) == t

(* host.get_m_time: the time read first in this cycle.                     *)
TimeOf(m, t) == IF m = NoTime THEN t ELSE m

InputTime(c) == TimeOf(mSrc[c], srcTime[c])

SourceNewer(c) == InputTime(c) > output[c].at /\ src[c] # output[c].src

(* Upstream projects whose declarations have to be looked at: those that   *)
(* are not known to have only inputs older than the outputs of c.          *)
UpstreamInQuestion(c) ==
  {u \in ToSet(upStream[c]) :
     /\ status[u].kind # "solution"
     /\ status[u].input # NoTime => status[u].input > output[c].at}

UpstreamNewer(c) ==
  \E u \in UpstreamInQuestion(c) :
    u \notin DOMAIN output[c].seen \/ output[c].seen[u] # Iface(u)

ConfigNewer(c) == TimeOf(mCfg[c], cfgTime[c]) > output[c].at

GetUpToDateStatus(c) ==
  CASE status[c] # NoStatus -> status[c]
    [] status[c] = NoStatus /\ c \in Solutions -> St("solution")
    [] status[c] = NoStatus /\ c \notin Solutions /\ stopOnErrors /\ UpstreamErrors(c) # {} ->
         [St("upstreamErrors") EXCEPT !.ref = upStream[c][Min(UpstreamErrors(c))]]
    [] OTHER ->
         IF KnownWithoutTimes(c) \/ SourceNewer(c) \/ UpstreamNewer(c) \/ ConfigNewer(c)
         THEN St("inputFileNewer")
         ELSE [kind  |-> IF UpstreamInQuestion(c) # {} THEN "upToDateWithUpstreamTypes"
                         ELSE IF InputTime(c) > output[c].at THEN "upToDateWithInputFileText"
                         ELSE "upToDate",
               ref   |-> Root,
               input |-> InputTime(c)]

(* handle_status_that_doesnt_require_build                                 *)
NoBuildNeeded(s) ==
  s.kind \in {"upToDate", "upToDateWithUpstreamTypes", "upToDateWithInputFileText",
              "upstreamErrors", "solution"}

PseudoBuild(s) == s.kind \in {"upToDateWithUpstreamTypes", "upToDateWithInputFileText"}

(* Plausible bug: a downstream task that skipped because of errors stays   *)
(* skipped; one whose upstream declarations changed is not rebuilt.        *)
DownstreamStatusKeeps(s, c, changed) == s

(* update_downstream: the status of a downstream task after c was built.   *)
DownstreamStatus(s, c, changed) ==
  CASE s.kind \in {"upToDate", "upToDateWithUpstreamTypes", "upToDateWithInputFileText"} ->
         IF changed THEN St("inputFileNewer")
         ELSE IF s.kind = "upToDate" THEN [s EXCEPT !.kind = "upToDateWithUpstreamTypes"] ELSE s
    [] s.kind = "upstreamErrors" /\ s.ref = c -> NoStatus
    [] OTHER -> s

Current == order[pos]

(* wait_on_upstream                                                        *)
UpstreamDone(c) == \A u \in ToSet(upStream[c]) : done[u]

(* report's wait for the previous reporter                                 *)
PreviousReported(c) ==
  \/ prevReporter[c] \in {"nobody", "over"}
  \/ prevReporter[c] \in Configs /\ reportDone[prevReporter[c]]

(* Plausible bug: the downstream tasks are not told.                       *)
UnblockSilent(c) ==
  /\ initial' = [initial EXCEPT ![c] = FALSE]
  /\ phase' = "report"
  /\ UNCHANGED done

(* unblock_downstream, before the task reports                             *)
Unblock(c) ==
  /\ done' = [done EXCEPT ![c] = TRUE]
  /\ initial' = [initial EXCEPT ![c] = FALSE]
  /\ phase' = "report"

(* A task that is not pending only reports.                                *)
ReportOnly ==
  LET c == Current IN
  /\ phase = "build" /\ UpstreamDone(c) /\ ~pending[c]
  /\ Unblock(c)
  /\ UNCHANGED <<diskVars, pos, order, errors, needs, parsed, mSrc, mCfg, upStream, downStream,
                 status, reportDone, prevReporter, pending, dirty, watchSrc, watchCfg>>

(* The times get_up_to_date_status leaves in the host's cache.             *)
ReadTimes(c) ==
  IF status[c] = NoStatus /\ ~KnownWithoutTimes(c)
  THEN /\ mSrc' = [mSrc EXCEPT ![c] = TimeOf(@, srcTime[c])]
       /\ mCfg' = [mCfg EXCEPT ![c] = IF SourceNewer(c) \/ UpstreamNewer(c) THEN @ ELSE TimeOf(@, cfgTime[c])]
  ELSE UNCHANGED <<mSrc, mCfg>>

(* Nothing to compile; a pseudo build stamps the output.                   *)
SkipProject ==
  LET c == Current
      s == GetUpToDateStatus(c)
  IN
  /\ phase = "build" /\ UpstreamDone(c) /\ pending[c] /\ NoBuildNeeded(s)
  /\ status' = [status EXCEPT ![c] =
                  IF PseudoBuild(s) THEN [s EXCEPT !.kind = "upToDate"] ELSE s]
  /\ output' = IF PseudoBuild(s)
               THEN [output EXCEPT ![c].at = clock] ELSE output
  /\ ReadTimes(c)
  /\ pending' = [pending EXCEPT ![c] = FALSE]
  /\ Unblock(c)
  /\ UNCHANGED <<src, srcTime, refs, cfgTime, clock, pos, order, errors, needs, parsed,
                 upStream, downStream, reportDone, prevReporter, dirty, watchSrc, watchCfg>>

(* compile_and_emit and update_downstream                                  *)
BuildProject ==
  LET c       == Current
      changed == Iface(c) # src[c].iface
      result  == St(IF src[c].err THEN "buildErrors" ELSE "upToDate")
      told    == IF initial[c] \/ (stopOnErrors /\ IsError(result)) THEN {} ELSE downStream[c]
  IN
  /\ phase = "build" /\ UpstreamDone(c) /\ pending[c] /\ ~NoBuildNeeded(GetUpToDateStatus(c))
  /\ output' = [output EXCEPT ![c] = Compiled(c)]
  /\ status' = [d \in Configs |->
       IF d = c THEN result
       ELSE IF d \in told THEN DownstreamStatus(status[d], c, changed) ELSE status[d]]
  /\ pending' = [d \in Configs |-> IF d = c THEN FALSE ELSE pending[d] \/ d \in told]
  /\ ReadTimes(c)
  /\ Unblock(c)
  /\ away' = (away \ {c}) \cup (IF changed THEN Configs \ Tasks ELSE {})
  /\ UNCHANGED <<src, srcTime, refs, cfgTime, clock, pos, order, errors, needs, parsed,
                 upStream, downStream, reportDone, prevReporter, dirty, watchSrc, watchCfg>>

(* report                                                                  *)
Report ==
  /\ phase = "report" /\ PreviousReported(Current)
  /\ reportDone' = [reportDone EXCEPT ![Current] = TRUE]
  /\ pos' = pos + 1
  /\ phase' = IF pos = Len(order) THEN "watch" ELSE "build"
  /\ UNCHANGED <<diskVars, order, errors, needs, parsed, mSrc, mCfg, upStream, downStream,
                 status, done, prevReporter, pending, initial, dirty, watchSrc, watchCfg>>

(* update_watch and reset_caches                                           *)
UpdateWatch ==
  /\ phase = "watch"
  /\ watchSrc' = [c \in Configs |-> IF c \in Tasks THEN TimeOf(mSrc[c], srcTime[c]) ELSE watchSrc[c]]
  /\ watchCfg' = [c \in Configs |-> IF c \in Tasks THEN TimeOf(mCfg[c], cfgTime[c]) ELSE watchCfg[c]]
  /\ mSrc' = [c \in Configs |-> NoTime] /\ mCfg' = [c \in Configs |-> NoTime]
  /\ phase' = "sleep" /\ pos' = 1 /\ needs' = {}
  /\ UNCHANGED <<diskVars, order, errors, parsed, upStream, downStream, status, done,
                 reportDone, prevReporter, pending, initial, dirty>>

-----------------------------------------------------------------------------
(* do_cycle: the watch interval is over.                                   *)
Wake ==
  /\ phase = "sleep"
  /\ phase' = "check"
  /\ UNCHANGED <<diskVars, pos, order, errors, needs, parsed, mSrc, mCfg, taskVars>>

(* Plausible bug: the parse of a changed config is kept.                   *)
ResetConfigKeepsParse(c) ==
  dirty' = [dirty EXCEPT ![c] = TRUE] /\ UNCHANGED parsed

(* reset_config                                                            *)
ResetConfig(c) ==
  dirty' = [dirty EXCEPT ![c] = TRUE] /\ parsed' = [parsed EXCEPT ![c] = Unparsed]

(* has_update                                                              *)
HasUpdate ==
  LET c       == Current
      config  == TimeOf(mCfg[c], cfgTime[c]) # watchCfg[c]
      updated == c \notin Solutions /\ TimeOf(mSrc[c], srcTime[c]) # watchSrc[c]
  IN
  /\ phase = "check"
  /\ mSrc' = [mSrc EXCEPT ![c] = TimeOf(@, srcTime[c])]
  /\ mCfg' = [mCfg EXCEPT ![c] = TimeOf(@, cfgTime[c])]
  /\ IF config THEN ResetConfig(c) ELSE UNCHANGED <<dirty, parsed>>
  /\ status' = [status EXCEPT ![c] = IF updated THEN NoStatus ELSE @]
  /\ pending' = [pending EXCEPT ![c] = @ \/ updated]
  /\ done' = [done EXCEPT ![c] = config /\ @]
  /\ reportDone' = [reportDone EXCEPT ![c] = config /\ @]
  /\ needs' = needs \cup (IF config THEN {"config"} ELSE {}) \cup (IF updated THEN {"update"} ELSE {})
  /\ pos' = pos + 1
  /\ phase' = IF pos = Len(order) THEN "decide" ELSE "check"
  /\ UNCHANGED <<diskVars, order, errors, upStream, downStream, prevReporter, initial,
                 watchSrc, watchCfg>>

NothingToDo ==
  /\ phase = "decide" /\ needs = {}
  /\ mSrc' = [c \in Configs |-> NoTime] /\ mCfg' = [c \in Configs |-> NoTime]
  /\ phase' = "sleep" /\ pos' = 1
  /\ UNCHANGED <<diskVars, order, errors, needs, parsed, taskVars>>

Rebuild ==
  /\ phase = "decide" /\ needs = {"update"}
  /\ BuildOrClean
  /\ UNCHANGED <<diskVars, order, errors, needs, parsed, mSrc, mCfg, taskVars>>

Regenerate == phase = "decide" /\ "config" \in needs /\ GenerateGraph(FALSE)

(* The next step of the thread; only the walk's steps change the walk.     *)
Orchestrate ==
  /\ \/ /\ \/ StartBuild \/ Regenerate
           \/ LinkReference \/ DropReference \/ EnterReference \/ CompleteTask
        /\ UNCHANGED away
     \/ /\ \/ ReportOnly \/ SkipProject \/ Report \/ UpdateWatch
           \/ Wake \/ HasUpdate \/ NothingToDo \/ Rebuild
        /\ UNCHANGED <<walk, away>>
     \/ BuildProject /\ UNCHANGED walk
  /\ UNCHANGED <<stopOnErrors, missed>>

Edit ==
  /\ \E c \in Configs :
       (\E x \in Content : EditSource(c, x)) \/ (\E rs \in Layouts(c) : EditReferences(c, rs))
  /\ UNCHANGED <<stopOnErrors, walk, away>>

BuildNext == Edit \/ Orchestrate

BuildSpec == BuildInit /\ [][BuildNext]_orchestratorVars

(* The orchestrator's thread runs, and its polling loop does not end.      *)
BuildFairSpec == BuildSpec /\ WF_orchestratorVars(Orchestrate)

-----------------------------------------------------------------------------
(* One thread builds everything, so whatever a task would wait for has to  *)
(* have happened before its turn: its upstream tasks are done and the task *)
(* that reports before it has reported.  Only a reused task that a new     *)
(* order puts first may wait in vain: nobody clears its prev_reporter,     *)
(* which now comes after it.                                               *)
WaitsAreOver ==
  /\ phase = "build" => UpstreamDone(Current)
  /\ phase = "report" =>
       PreviousReported(Current) \/ (pos = 1 /\ prevReporter[Current] # "nobody")

(* A reference is missing from the graph only when it closes a cycle, and  *)
(* every upstream task comes earlier in the order.                         *)
OrderFollowsReferences ==
  \A i \in 1 .. Len(order) :
    /\ \A u \in ToSet(upStream[order[i]]) : \E j \in 1 .. i - 1 : order[j] = u
    /\ phase \in {"build", "report", "watch", "sleep"} => \A r \in ToSet(RefsOf(order[i])) :
         r.to \notin ToSet(upStream[order[i]]) => order[i] \in Reachable({r.to})

(* A task that a build after its own turn has told: the task that was      *)
(* built keeps the downstream tasks of an older order.                     *)
ToldLate(u) ==
  \E i \in 1 .. pos - 1 :
    u \in downStream[order[i]] /\ \E j \in 1 .. i - 1 : order[j] = u

(* "upstream status should be computed": the order follows the references  *)
(* through edits, cycles and reused tasks, and a task never asks an        *)
(* upstream task that has no status.  (The variables have their types      *)
(* throughout.)  Only with --stopBuildOnErrors may the status have been    *)
(* reset again, by a build that should not have told the task.             *)
UpstreamStatusKnown ==
  /\ BuildTypeOK
  /\ OrderFollowsReferences
  /\ phase = "build" /\ pending[Current] /\ status[Current] = NoStatus =>
       \A u \in ToSet(upStream[Current]) :
         status[u] # NoStatus \/ (stopOnErrors /\ ToldLate(u))

Late(c)    == <<"source", c>> \in missed \/ <<"config", c>> \in missed
Watched(c) == watchSrc[c] = srcTime[c] /\ watchCfg[c] = cfgTime[c]

(* The output is that of the current source, and of the current            *)
(* declarations.                                                           *)
Built(c) == output[c] # NoOutput /\ output[c].src = src[c]
Fresh(c) ==
  /\ Built(c)
  /\ \A u \in ToSet(upStream[c]) \ Solutions :
       u \in DOMAIN output[c].seen /\ output[c].seen[u] = Iface(u)

(* Asleep, a project whose source has not changed since its time was       *)
(* recorded is built from what is on the disk: no edit is lost, except one *)
(* between a build's look at the file and the recording of its time.       *)
EditsNotLost ==
  phase = "sleep" /\ ~errors /\ ~stopOnErrors =>
    \A c \in Tasks \ Solutions :
      watchSrc[c] = srcTime[c] => <<"source", c>> \in missed \/ Built(c)

(* Asleep, and with no watched file changed since it was recorded, every   *)
(* project is built against the declarations its upstream projects have    *)
(* now, unless an edit of its own was late, or it was out of the graph     *)
(* when declarations changed: get_up_to_date_status passes over an         *)
(* upstream project whose newest input is older than the output of its     *)
(* dependent, also when that output has not seen what came of the input.   *)
DeclarationsSeen ==
  phase = "sleep" /\ ~errors /\ ~stopOnErrors /\ (\A c \in Tasks : Watched(c)) =>
    \A c \in Tasks \ Solutions : Late(c) \/ c \in away \/ Fresh(c)

(* "Clean out all the caches": asleep, with no watched config changed      *)
(* since, the tasks work with what is in the config files, late edits      *)
(* excepted.                                                               *)
ConfigsCurrent ==
  phase = "sleep" /\ (\A c \in Tasks : Watched(c)) =>
    \A c \in Tasks : <<"config", c>> \in missed \/ parsed[c] = {refs[c]}

(* When the edits stop, everything is in the end built from what is on the *)
(* disk and the declarations of its upstream projects, with the exceptions *)
(* of DeclarationsSeen, unless errors are to stop the build.               *)
EditsGetBuilt == ~stopOnErrors =>
  <>[](errors \/ \A c \in Tasks \ Solutions : Late(c) \/ c \in away \/ Fresh(c))
=============================================================================
