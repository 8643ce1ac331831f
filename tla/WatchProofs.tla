---------------------------- MODULE WatchProofs ----------------------------
(***************************************************************************)
(* Theorems about the two watch modes of the command line.                 *)
(*                                                                         *)
(* PlainWatch, for any set of files and any number of edits: types, the    *)
(* soundness of the cache of parsed files, and that a watcher with nothing *)
(* to do has built what is on the disk.                                    *)
(*                                                                         *)
(* BuildOrchestrator, for any set of configs with any references, circular *)
(* or not, and any number of edits: types, that no task waits for what     *)
(* will not happen, that the order of the tasks follows the references and *)
(* a task finds the statuses it asks for, that the configs in use are the  *)
(* ones on the disk, and that no edit of a source is lost.                 *)
(***************************************************************************)
EXTENDS PlainWatch, BuildOrchestrator, SequenceTheorems, WellFoundedInduction,
        NaturalsInduction, TLAPS

-----------------------------------------------------------------------------
(* The inductive invariant.                                                *)

\* What a build has not read is empty outside of its reading.
NothingUnread == pc # "read" => unread = {}

\* Every time the watcher has noted is in the past, and a cached file has one.
Clock ==
    /\ conf.time <= edits + 1 /\ watch.conf <= edits + 1
    /\ \A f \in Files :
           /\ disk[f] <= edits + 1
           /\ cache[f].time <= edits + 1
           /\ stat[f] # NotAsked => stat[f] <= edits + 1
           /\ cache[f] # NotCached => cache[f].time # 0

\* During a build, files that were not changed behind its back: what it has read is
\* current, what is not among its root files is not on the disk if it could be one.
BuildCurrent ==
    Building =>
        /\ config.kind # "wildcard" => names = Listed
        /\ \A f \in Files :
               /\ f \notin names => next[f] = 0
               /\ f \notin late /\ f \in names \ unread => next[f] = disk[f]
               /\ f \notin late /\ f \notin names /\ config.kind = "wildcard" => disk[f] = 0
        /\ pc = "snapshot" => program = next

\* Between builds, with the same exception: the program has the texts whose times the
\* watch state has, and the watch state is that of the config, unless that is found to
\* be modified.
WatchCurrent ==
    pc \in {"poll", "cycle"} \/ (pc = "decide" /\ ~modified) =>
        /\ watch.wildcard <=> config.kind = "wildcard"
        /\ config.kind # "wildcard" => watch.seen = Listed
        /\ \A f \in Files \ late :
               /\ f \in watch.seen => program[f] = watch.times[f]
               /\ f \notin watch.seen =>
                      program[f] = 0 /\ (config.kind = "wildcard" => f \notin watch.listing)

\* The config is the one on the disk, unless it was written behind a build's back or
\* the watch state shows that it was written since.
ConfigRead ==
    /\ confErrs => pc \in {"poll", "cycle"} /\ conf.time # watch.conf
    /\ ~lateConf /\ (pc \in {"poll", "cycle"} => conf.time = watch.conf) => config = conf

IInv == TypeOK /\ NothingUnread /\ Clock /\ CacheHitsCurrent /\ BuildCurrent
            /\ WatchCurrent /\ ConfigRead

-----------------------------------------------------------------------------
(* One lemma per action.                                                   *)

\* An edit of a file: its new time is after all that were noted, and a build that has
\* read the file is behind.
LEMMA EditFileKeeps ==
    ASSUME NEW f \in Files, NEW exists \in BOOLEAN, IInv, EditFile(f, exists)
    PROVE  IInv'
<1> USE WatchAssumption
<1>0. /\ TypeOK /\ NothingUnread /\ Clock /\ CacheHitsCurrent
      /\ BuildCurrent /\ WatchCurrent /\ ConfigRead
  BY DEF IInv
<1>1. TypeOK'
  BY <1>0 DEF TypeOK, NothingUnread, EditFile, userVars, buildVars, Existing, Times,
     NotAsked, NotCached, Kinds
<1>2. NothingUnread'
  BY <1>0 DEF NothingUnread, TypeOK, EditFile, userVars, buildVars
<1>3. Clock'
  BY <1>0 DEF Clock, TypeOK, EditFile, userVars, buildVars, Times, NotAsked, NotCached
<1>4. CacheHitsCurrent'
  BY <1>0 DEF CacheHitsCurrent, TypeOK, Clock, EditFile, userVars, buildVars, NotCached,
     Times
<1>5. BuildCurrent'
  BY <1>0 DEF BuildCurrent, TypeOK, NothingUnread, CacheHitsCurrent, EditFile, userVars,
     buildVars, Building, Existing, Times
<1>6. WatchCurrent'
  BY <1>0 DEF WatchCurrent, TypeOK, NothingUnread, BuildCurrent, EditFile, userVars,
     buildVars, Existing, Building
<1>7. ConfigRead'
  BY <1>0 DEF ConfigRead, TypeOK, Clock, WatchCurrent, EditFile, userVars, buildVars,
     Kinds, Times, Building
<1> QED
  BY <1>1, <1>2, <1>3, <1>4, <1>5, <1>6, <1>7 DEF IInv

\* An edit of the config: its new time is after the one in the watch state.
LEMMA EditConfigKeeps ==
    ASSUME NEW kind \in Kinds, IInv, EditConfig(kind)
    PROVE  IInv'
<1> USE WatchAssumption
<1>0. /\ TypeOK /\ NothingUnread /\ Clock /\ CacheHitsCurrent
      /\ BuildCurrent /\ WatchCurrent /\ ConfigRead
  BY DEF IInv
<1>1. TypeOK'
  BY <1>0 DEF TypeOK, NothingUnread, EditConfig, userVars, buildVars, Existing, Times,
     NotAsked, NotCached, Kinds
<1>2. NothingUnread'
  BY <1>0 DEF NothingUnread, TypeOK, EditConfig, userVars, buildVars
<1>3. Clock'
  BY <1>0 DEF Clock, TypeOK, EditConfig, userVars, buildVars, Times, NotAsked, NotCached
<1>4. CacheHitsCurrent'
  BY <1>0 DEF CacheHitsCurrent, TypeOK, Clock, EditConfig, userVars, buildVars, NotCached,
     Times
<1>5. BuildCurrent'
  BY <1>0 DEF BuildCurrent, TypeOK, NothingUnread, CacheHitsCurrent, EditConfig, userVars,
     buildVars, Building, Existing, Times
<1>6. WatchCurrent'
  BY <1>0 DEF WatchCurrent, TypeOK, NothingUnread, BuildCurrent, EditConfig, userVars,
     buildVars, Existing, Building
<1>7. ConfigRead'
  <2>1. conf'.time = edits + 2 /\ watch' = watch /\ pc' = pc /\ confErrs' = confErrs
    BY DEF EditConfig
  <2>2. conf'.time # watch'.conf
    BY <1>0, <2>1 DEF TypeOK, Clock, Times
  <2>3. lateConf' \/ pc' \in {"poll", "cycle"}
    BY <1>0 DEF EditConfig, TypeOK, Building
  <2> QED
    BY <1>0, <2>1, <2>2, <2>3 DEF ConfigRead
<1> QED
  BY <1>1, <1>2, <1>3, <1>4, <1>5, <1>6, <1>7 DEF IInv

\* poll_once changes nothing but where the watcher is.
LEMMA PollOnceKeeps ==
    ASSUME IInv, PollOnce
    PROVE  IInv'
<1> USE WatchAssumption
<1>0. /\ TypeOK /\ NothingUnread /\ Clock /\ CacheHitsCurrent
      /\ BuildCurrent /\ WatchCurrent /\ ConfigRead
  BY DEF IInv
<1>1. TypeOK'
  BY <1>0 DEF TypeOK, NothingUnread, PollOnce, userVars, buildVars, Existing, Times,
     NotAsked, NotCached, Kinds
<1>2. NothingUnread'
  BY <1>0 DEF NothingUnread, TypeOK, PollOnce, userVars, buildVars
<1>3. Clock'
  BY <1>0 DEF Clock, TypeOK, PollOnce, userVars, buildVars, Times, NotAsked, NotCached
<1>4. CacheHitsCurrent'
  BY <1>0 DEF CacheHitsCurrent, TypeOK, Clock, PollOnce, userVars, buildVars, NotCached,
     Times
<1>5. BuildCurrent'
  BY <1>0 DEF BuildCurrent, TypeOK, NothingUnread, CacheHitsCurrent, PollOnce, userVars,
     buildVars, Building, Existing, Times
<1>6. WatchCurrent'
  BY <1>0 DEF WatchCurrent, TypeOK, NothingUnread, BuildCurrent, PollOnce, userVars,
     buildVars, Existing, Building
<1>7. ConfigRead'
  BY <1>0 DEF ConfigRead, TypeOK, Clock, WatchCurrent, PollOnce, userVars, buildVars,
     Kinds, Times, Building
<1> QED
  BY <1>1, <1>2, <1>3, <1>4, <1>5, <1>6, <1>7 DEF IInv

\* The config is as the watch state has it, so the one in use is current.
LEMMA ConfigUnchangedKeeps ==
    ASSUME IInv, ConfigUnchanged
    PROVE  IInv'
<1> USE WatchAssumption
<1>0. /\ TypeOK /\ NothingUnread /\ Clock /\ CacheHitsCurrent
      /\ BuildCurrent /\ WatchCurrent /\ ConfigRead
  BY DEF IInv
<1>1. TypeOK'
  BY <1>0 DEF TypeOK, NothingUnread, ConfigUnchanged, userVars, buildVars, Existing,
     Times, NotAsked, NotCached, Kinds
<1>2. NothingUnread'
  BY <1>0 DEF NothingUnread, TypeOK, ConfigUnchanged, userVars, buildVars
<1>3. Clock'
  BY <1>0 DEF Clock, TypeOK, ConfigUnchanged, userVars, buildVars, Times, NotAsked,
     NotCached
<1>4. CacheHitsCurrent'
  BY <1>0 DEF CacheHitsCurrent, TypeOK, Clock, ConfigUnchanged, userVars, buildVars,
     NotCached, Times
<1>5. BuildCurrent'
  BY <1>0 DEF BuildCurrent, TypeOK, NothingUnread, CacheHitsCurrent, ConfigUnchanged,
     userVars, buildVars, Building, Existing, Times
<1>6. WatchCurrent'
  BY <1>0 DEF WatchCurrent, TypeOK, NothingUnread, BuildCurrent, ConfigUnchanged,
     userVars, buildVars, Existing, Building
<1>7. ConfigRead'
  BY <1>0 DEF ConfigRead, TypeOK, Clock, WatchCurrent, ConfigUnchanged, userVars,
     buildVars, Kinds, Times, Building
<1> QED
  BY <1>1, <1>2, <1>3, <1>4, <1>5, <1>6, <1>7 DEF IInv

\* A config with errors leaves the watch state behind.
LEMMA ConfigBadKeeps ==
    ASSUME IInv, ConfigBad
    PROVE  IInv'
<1> USE WatchAssumption
<1>0. /\ TypeOK /\ NothingUnread /\ Clock /\ CacheHitsCurrent
      /\ BuildCurrent /\ WatchCurrent /\ ConfigRead
  BY DEF IInv
<1>1. TypeOK'
  BY <1>0 DEF TypeOK, NothingUnread, ConfigBad, userVars, buildVars, Existing, Times,
     NotAsked, NotCached, Kinds
<1>2. NothingUnread'
  BY <1>0 DEF NothingUnread, TypeOK, ConfigBad, userVars, buildVars
<1>3. Clock'
  BY <1>0 DEF Clock, TypeOK, ConfigBad, userVars, buildVars, Times, NotAsked, NotCached
<1>4. CacheHitsCurrent'
  BY <1>0 DEF CacheHitsCurrent, TypeOK, Clock, ConfigBad, userVars, buildVars, NotCached,
     Times
<1>5. BuildCurrent'
  BY <1>0 DEF BuildCurrent, TypeOK, NothingUnread, CacheHitsCurrent, ConfigBad, userVars,
     buildVars, Building, Existing, Times
<1>6. WatchCurrent'
  BY <1>0 DEF WatchCurrent, TypeOK, NothingUnread, BuildCurrent, ConfigBad, userVars,
     buildVars, Existing, Building
<1>7. ConfigRead'
  BY <1>0 DEF ConfigRead, TypeOK, Clock, WatchCurrent, ConfigBad, userVars, buildVars,
     Kinds, Times, Building
<1> QED
  BY <1>1, <1>2, <1>3, <1>4, <1>5, <1>6, <1>7 DEF IInv

\* A config that says something else goes on to a build.
LEMMA ConfigParsedKeeps ==
    ASSUME IInv, ConfigParsed
    PROVE  IInv'
<1> USE WatchAssumption
<1>0. /\ TypeOK /\ NothingUnread /\ Clock /\ CacheHitsCurrent
      /\ BuildCurrent /\ WatchCurrent /\ ConfigRead
  BY DEF IInv
<1>1. TypeOK'
  BY <1>0 DEF TypeOK, NothingUnread, ConfigParsed, userVars, buildVars, Existing, Times,
     NotAsked, NotCached, Kinds
<1>2. NothingUnread'
  BY <1>0 DEF NothingUnread, TypeOK, ConfigParsed, userVars, buildVars
<1>3. Clock'
  BY <1>0 DEF Clock, TypeOK, ConfigParsed, userVars, buildVars, Times, NotAsked, NotCached
<1>4. CacheHitsCurrent'
  BY <1>0 DEF CacheHitsCurrent, TypeOK, Clock, ConfigParsed, userVars, buildVars,
     NotCached, Times
<1>5. BuildCurrent'
  BY <1>0 DEF BuildCurrent, TypeOK, NothingUnread, CacheHitsCurrent, ConfigParsed,
     userVars, buildVars, Building, Existing, Times
<1>6. WatchCurrent'
  BY <1>0 DEF WatchCurrent, TypeOK, NothingUnread, BuildCurrent, ConfigParsed, userVars,
     buildVars, Existing, Building
<1>7. ConfigRead'
  BY <1>0 DEF ConfigRead, TypeOK, Clock, WatchCurrent, ConfigParsed, userVars, buildVars,
     Kinds, Times, Building
<1> QED
  BY <1>1, <1>2, <1>3, <1>4, <1>5, <1>6, <1>7 DEF IInv

\* The look at the watch state changes nothing but where the watcher is.
LEMMA DoCycleKeeps ==
    ASSUME IInv, DoCycle
    PROVE  IInv'
<1> USE WatchAssumption
<1>0. /\ TypeOK /\ NothingUnread /\ Clock /\ CacheHitsCurrent
      /\ BuildCurrent /\ WatchCurrent /\ ConfigRead
  BY DEF IInv
<1>1. TypeOK'
  BY <1>0 DEF TypeOK, NothingUnread, DoCycle, userVars, buildVars, Existing,
     Times, NotAsked, NotCached, Kinds
<1>2. NothingUnread'
  BY <1>0 DEF NothingUnread, TypeOK, DoCycle, userVars, buildVars
<1>3. Clock'
  BY <1>0 DEF Clock, TypeOK, DoCycle, userVars, buildVars, Times, NotAsked,
     NotCached
<1>4. CacheHitsCurrent'
  BY <1>0 DEF CacheHitsCurrent, TypeOK, Clock, DoCycle, userVars, buildVars,
     NotCached, Times
<1>5. BuildCurrent'
  BY <1>0 DEF BuildCurrent, TypeOK, NothingUnread, CacheHitsCurrent, DoCycle,
     userVars, buildVars, Building, Existing, Times
<1>6. WatchCurrent'
  BY <1>0 DEF WatchCurrent, HasChanges, TypeOK, NothingUnread, BuildCurrent, DoCycle,
     userVars, buildVars, Existing, Building
<1>7. ConfigRead'
  BY <1>0 DEF ConfigRead, TypeOK, Clock, WatchCurrent, DoCycle, userVars,
     buildVars, Kinds, Times, Building
<1> QED
  BY <1>1, <1>2, <1>3, <1>4, <1>5, <1>6, <1>7 DEF IInv

\* The list of root files is current, and nothing is read yet.
LEMMA BeginBuildKeeps ==
    ASSUME IInv, BeginBuild
    PROVE  IInv'
<1> USE WatchAssumption
<1>0. /\ TypeOK /\ NothingUnread /\ Clock /\ CacheHitsCurrent
      /\ BuildCurrent /\ WatchCurrent /\ ConfigRead
  BY DEF IInv
<1>1. TypeOK'
  BY <1>0 DEF TypeOK, NothingUnread, BeginBuild, userVars, buildVars, Names, Existing,
     Times, NotAsked, NotCached, Kinds
<1>2. NothingUnread'
  BY <1>0 DEF NothingUnread, TypeOK, BeginBuild, userVars, buildVars, Names
<1>3. Clock'
  BY <1>0 DEF Clock, TypeOK, BeginBuild, userVars, buildVars, Names, Times, NotAsked,
     NotCached
<1>4. CacheHitsCurrent'
  BY <1>0 DEF CacheHitsCurrent, TypeOK, Clock, BeginBuild, userVars, buildVars, Names,
     NotCached, Times
<1>5. BuildCurrent'
  BY <1>0 DEF BuildCurrent, TypeOK, NothingUnread, CacheHitsCurrent, BeginBuild, userVars,
     buildVars, Names, Building, Existing, Times
<1>6. WatchCurrent'
  BY <1>0 DEF WatchCurrent, TypeOK, NothingUnread, BuildCurrent, BeginBuild, userVars,
     buildVars, Names, Existing, Building
<1>7. ConfigRead'
  BY <1>0 DEF ConfigRead, TypeOK, Clock, WatchCurrent, BeginBuild, userVars, buildVars,
     Names, Kinds, Times, Building
<1> QED
  BY <1>1, <1>2, <1>3, <1>4, <1>5, <1>6, <1>7 DEF IInv

\* A cached file is taken only when its text is current.
LEMMA StatFileKeeps ==
    ASSUME NEW f \in Files, IInv, StatFile(f)
    PROVE  IInv'
<1> USE WatchAssumption
<1>0. /\ TypeOK /\ NothingUnread /\ Clock /\ CacheHitsCurrent
      /\ BuildCurrent /\ WatchCurrent /\ ConfigRead
  BY DEF IInv
<1>1. TypeOK'
  BY <1>0 DEF TypeOK, NothingUnread, StatFile, userVars, buildVars, Existing, Times,
     NotAsked, NotCached, Kinds
<1>2. NothingUnread'
  BY <1>0 DEF NothingUnread, TypeOK, StatFile, userVars, buildVars
<1>3. Clock'
  BY <1>0 DEF Clock, TypeOK, StatFile, userVars, buildVars, Times, NotAsked, NotCached
<1>4. CacheHitsCurrent'
  BY <1>0 DEF CacheHitsCurrent, TypeOK, Clock, StatFile, userVars, buildVars, NotCached,
     Times
<1>5. BuildCurrent'
  BY <1>0 DEF BuildCurrent, TypeOK, NothingUnread, CacheHitsCurrent, StatFile, userVars,
     buildVars, Building, Existing, Times
<1>6. WatchCurrent'
  BY <1>0 DEF WatchCurrent, TypeOK, NothingUnread, BuildCurrent, StatFile, userVars,
     buildVars, Existing, Building
<1>7. ConfigRead'
  BY <1>0 DEF ConfigRead, TypeOK, Clock, WatchCurrent, StatFile, userVars, buildVars,
     Kinds, Times, Building
<1> QED
  BY <1>1, <1>2, <1>3, <1>4, <1>5, <1>6, <1>7 DEF IInv

\* A file is kept with a time not after its text.
LEMMA ReadFileKeeps ==
    ASSUME NEW f \in Files, IInv, ReadFile(f)
    PROVE  IInv'
<1> USE WatchAssumption
<1>0. /\ TypeOK /\ NothingUnread /\ Clock /\ CacheHitsCurrent
      /\ BuildCurrent /\ WatchCurrent /\ ConfigRead
  BY DEF IInv
<1>1. TypeOK'
  BY <1>0 DEF TypeOK, NothingUnread, ReadFile, userVars, buildVars, Existing, Times,
     NotAsked, NotCached, Kinds
<1>2. NothingUnread'
  BY <1>0 DEF NothingUnread, TypeOK, ReadFile, userVars, buildVars
<1>3. Clock'
  BY <1>0 DEF Clock, TypeOK, ReadFile, userVars, buildVars, Times, NotAsked, NotCached
<1>4. CacheHitsCurrent'
  BY <1>0 DEF CacheHitsCurrent, TypeOK, Clock, ReadFile, userVars, buildVars, NotCached,
     Times
<1>5. BuildCurrent'
  BY <1>0 DEF BuildCurrent, TypeOK, NothingUnread, CacheHitsCurrent, ReadFile, userVars,
     buildVars, Building, Existing, Times
<1>6. WatchCurrent'
  BY <1>0 DEF WatchCurrent, TypeOK, NothingUnread, BuildCurrent, ReadFile, userVars,
     buildVars, Existing, Building
<1>7. ConfigRead'
  BY <1>0 DEF ConfigRead, TypeOK, Clock, WatchCurrent, ReadFile, userVars, buildVars,
     Kinds, Times, Building
<1> QED
  BY <1>1, <1>2, <1>3, <1>4, <1>5, <1>6, <1>7 DEF IInv

\* The program is what was read.
LEMMA CompileAndEmitKeeps ==
    ASSUME IInv, CompileAndEmit
    PROVE  IInv'
<1> USE WatchAssumption
<1>0. /\ TypeOK /\ NothingUnread /\ Clock /\ CacheHitsCurrent
      /\ BuildCurrent /\ WatchCurrent /\ ConfigRead
  BY DEF IInv
<1>1. TypeOK'
  BY <1>0 DEF TypeOK, NothingUnread, CompileAndEmit, userVars, buildVars, Existing, Times,
     NotAsked, NotCached, Kinds
<1>2. NothingUnread'
  BY <1>0 DEF NothingUnread, TypeOK, CompileAndEmit, userVars, buildVars
<1>3. Clock'
  BY <1>0 DEF Clock, TypeOK, CompileAndEmit, userVars, buildVars, Times, NotAsked,
     NotCached
<1>4. CacheHitsCurrent'
  BY <1>0 DEF CacheHitsCurrent, TypeOK, Clock, CompileAndEmit, userVars, buildVars,
     NotCached, Times
<1>5. BuildCurrent'
  BY <1>0 DEF BuildCurrent, TypeOK, NothingUnread, CacheHitsCurrent, CompileAndEmit,
     userVars, buildVars, Building, Existing, Times
<1>6. WatchCurrent'
  BY <1>0 DEF WatchCurrent, TypeOK, NothingUnread, BuildCurrent, CompileAndEmit, userVars,
     buildVars, Existing, Building
<1>7. ConfigRead'
  BY <1>0 DEF ConfigRead, TypeOK, Clock, WatchCurrent, CompileAndEmit, userVars,
     buildVars, Kinds, Times, Building
<1> QED
  BY <1>1, <1>2, <1>3, <1>4, <1>5, <1>6, <1>7 DEF IInv

\* The watch state has the times of what was read, up to late edits.
LEMMA UpdateWatchStateKeeps ==
    ASSUME IInv, UpdateWatchState
    PROVE  IInv'
<1> USE WatchAssumption
<1>0. /\ TypeOK /\ NothingUnread /\ Clock /\ CacheHitsCurrent
      /\ BuildCurrent /\ WatchCurrent /\ ConfigRead
  BY DEF IInv
<1>1. TypeOK'
  <2>1. watch' \in [seen : SUBSET Files, times : [Files -> Times], conf : Times,
                   wildcard : BOOLEAN, listing : SUBSET Files]
    BY <1>0 DEF TypeOK, UpdateWatchState, SnapshotPaths, Existing, Times
  <2>2. unread' = {} /\ names' = {}
    BY <1>0 DEF UpdateWatchState, NothingUnread
  <2>3. stat' \in [Files -> Times \cup {NotAsked}] /\ next' \in [Files -> Times]
    BY DEF UpdateWatchState, Times
  <2>4. cache' \in [Files -> [time : Times, text : Times]]
    BY <1>0 DEF UpdateWatchState, TypeOK, NotCached, Times
  <2> QED
    BY <1>0, <2>1, <2>2, <2>3, <2>4 DEF TypeOK, UpdateWatchState, userVars
<1>2. NothingUnread'
  BY <1>0 DEF NothingUnread, TypeOK, UpdateWatchState, userVars, buildVars, SnapshotPaths
<1>3. Clock'
  BY <1>0 DEF Clock, TypeOK, UpdateWatchState, userVars, buildVars, SnapshotPaths, Times,
     NotAsked, NotCached
<1>4. CacheHitsCurrent'
  BY <1>0 DEF CacheHitsCurrent, TypeOK, Clock, UpdateWatchState, userVars, buildVars,
     SnapshotPaths, NotCached, Times
<1>5. BuildCurrent'
  BY <1>0 DEF BuildCurrent, TypeOK, NothingUnread, CacheHitsCurrent, UpdateWatchState,
     userVars, buildVars, SnapshotPaths, Building, Existing, Times
<1>6. WatchCurrent'
  BY <1>0 DEF WatchCurrent, TypeOK, NothingUnread, BuildCurrent, UpdateWatchState,
     userVars, buildVars, SnapshotPaths, Existing, Building
<1>7. ConfigRead'
  BY <1>0 DEF ConfigRead, TypeOK, Clock, WatchCurrent, UpdateWatchState, userVars,
     buildVars, SnapshotPaths, Kinds, Times, Building
<1> QED
  BY <1>1, <1>2, <1>3, <1>4, <1>5, <1>6, <1>7 DEF IInv

-----------------------------------------------------------------------------
(* The theorems.                                                           *)

\* The watcher starts with an empty cache and the config of the disk, before a build.
LEMMA InitEstablishes == Init => IInv
<1> USE WatchAssumption
<1> SUFFICES ASSUME Init PROVE IInv
  OBVIOUS
<1>1. TypeOK
  <2>1. watch \in [seen : SUBSET Files, times : [Files -> Times], conf : Times,
                  wildcard : BOOLEAN, listing : SUBSET Files]
    BY DEF Init, Times
  <2>2. cache \in [Files -> [time : Times, text : Times]]
    BY DEF Init, NotCached, Times
  <2>3. /\ conf \in [time : Times, kind : Kinds]
        /\ config \in [time : Times, kind : Kinds \ {"bad"}]
    BY DEF Init, Kinds, Times
  <2>4. stat \in [Files -> Times \cup {NotAsked}] /\ next \in [Files -> Times]
    BY DEF Init, Times
  <2>5. disk \in [Files -> Times] /\ program \in [Files -> Times] /\ edits \in 0..MaxEdits
    BY DEF Init, Times
  <2> QED
    BY <2>1, <2>2, <2>3, <2>4, <2>5 DEF Init, TypeOK
<1>2. NothingUnread /\ CacheHitsCurrent /\ BuildCurrent /\ WatchCurrent
  BY DEF Init, NothingUnread, CacheHitsCurrent, BuildCurrent, WatchCurrent, Building,
     NotCached
<1>3. Clock
  BY <1>1 DEF Init, Clock, NotAsked, NotCached
<1>4. ConfigRead
  BY DEF Init, ConfigRead
<1> QED
  BY <1>1, <1>2, <1>3, <1>4 DEF IInv

\* Every step, of the user or of the watcher, keeps the invariant.
LEMMA NextKeeps == IInv /\ [Next]_vars => IInv'
<1> SUFFICES ASSUME IInv, [Next]_vars PROVE IInv'
  OBVIOUS
<1>1. CASE Watcher
  BY <1>1, PollOnceKeeps, ConfigUnchangedKeeps, ConfigBadKeeps, ConfigParsedKeeps,
     DoCycleKeeps, BeginBuildKeeps, StatFileKeeps, ReadFileKeeps, CompileAndEmitKeeps,
     UpdateWatchStateKeeps DEF Watcher
<1>2. CASE User
  BY <1>2, EditFileKeeps, EditConfigKeeps DEF User
<1>3. CASE UNCHANGED vars
  BY <1>3 DEF vars, userVars, buildVars, IInv, TypeOK, NothingUnread, Clock,
     CacheHitsCurrent,
     BuildCurrent, WatchCurrent, ConfigRead, Building, Existing
<1> QED
  BY <1>1, <1>2, <1>3 DEF Next

\* The invariant holds in every state of a watch.
LEMMA Invariant == Spec => []IInv
  BY InitEstablishes, NextKeeps, PTL DEF Spec

\* The variables of the watcher keep their types, and a build reads only its root
\* files, for any set of files and any number of edits.
THEOREM TypeCorrect == Spec => []TypeOK
<1>1. IInv => TypeOK
  BY DEF IInv
<1> QED
  BY <1>1, Invariant, PTL

\* A parsed file is never reused for another text (get_parsed_source_file), wherever
\* between its stat and its read the file is written.
THEOREM CacheSound == Spec => []CacheHitsCurrent
<1>1. IInv => CacheHitsCurrent
  BY DEF IInv
<1> QED
  BY <1>1, Invariant, PTL

\* A watcher with nothing to do has built the current text of every root file, except
\* for files changed while its last build was reading.
THEOREM SourcesBuilt == Spec => []SourcesCurrent
<1>1. IInv => SourcesCurrent
  <2> SUFFICES ASSUME IInv, pc = "poll", ~HasChanges, NEW f \in Files \ late
               PROVE  program[f] = IF f \in Names(config) THEN disk[f] ELSE 0
    BY DEF SourcesCurrent
  <2>1. TypeOK /\ WatchCurrent
    BY DEF IInv
  <2>2. CASE f \in watch.seen
    BY <2>1, <2>2 DEF WatchCurrent, HasChanges, Names, Existing, TypeOK
  <2>3. CASE f \notin watch.seen
    BY <2>1, <2>3 DEF WatchCurrent, HasChanges, Names, Existing, TypeOK
  <2> QED
    BY <2>2, <2>3
<1> QED
  BY <1>1, Invariant, PTL

\* A watcher with nothing to do uses the config as it is on the disk, through errors
\* and repairs, except for one written during the build that followed its reading.
THEOREM ConfigInUse == Spec => []ConfigCurrent
<1>1. IInv => ConfigCurrent
  BY DEF IInv, ConfigRead, ConfigCurrent, HasChanges
<1> QED
  BY <1>1, Invariant, PTL

-----------------------------------------------------------------------------
(* tsc --build --watch: the inductive invariant.                           *)

(* The tasks the walk has come to.                                         *)
Walked == ToSet(order) \cup Analyzing

(* The phases in which the configs of all tasks are parsed.                *)
Settled ==
  \/ phase \in {"graph", "build", "report", "watch", "sleep"}
  \/ phase \in {"check", "decide"} /\ "config" \notin needs

(* Configs that are parsed, with all they reference.                       *)
ParsedSet(T) == \A c \in T : parsed[c] # Unparsed /\ Targets(c) \subseteq T

(* What each phase is about.                                               *)
PhaseOK ==
  /\ phase = "graph" <=> walk # <<>>
  /\ phase \notin {"start", "graph"} => order # <<>>
  /\ phase \in {"build", "report", "check"} => pos <= Len(order)
  /\ phase \in {"start", "graph", "sleep"} => pos = 1
  /\ phase = "start" => \A c \in Configs : parsed[c] = Unparsed
  /\ phase \in {"check", "decide"} =>
       \A i \in 1 .. Len(order) : phase = "decide" \/ i < pos => mCfg[order[i]] # NoTime

(* The calls under way are distinct tasks that are not completed, each     *)
(* made for the reference its caller is at.                                *)
WalkOK ==
  /\ \A i, j \in DOMAIN walk : walk[i].task = walk[j].task => i = j
  /\ \A i \in DOMAIN walk : walk[i].task \notin ToSet(order)
  /\ \A i \in DOMAIN walk : walk[i].next <= Len(RefsOf(walk[i].task)) + 1
  /\ \A i, j \in DOMAIN walk : i < j => walk[i].next <= Len(RefsOf(walk[i].task))
  /\ \A i, j \in DOMAIN walk : i <= j => walk[j].task \in Reachable({walk[i].task})

(* Upstream tasks come earlier in the order.                               *)
UpstreamEarlier ==
  /\ \A i \in DOMAIN order : \A u \in ToSet(upStream[order[i]]) : \E j \in 1 .. i - 1 : order[j] = u
  /\ \A i \in DOMAIN walk : ToSet(upStream[walk[i].task]) \subseteq ToSet(order)
  /\ phase = "graph" => \A c \in Configs \ Walked : upStream[c] = <<>>

(* A reference that has no upstream task closes a cycle.                   *)
Linked(c, r) == r.to \in ToSet(upStream[c]) \/ c \in Reachable({r.to})

ReferencesLinked ==
  Settled =>
    /\ \A i \in DOMAIN order : \A k \in DOMAIN RefsOf(order[i]) :
         RefsOf(order[i])[k].to \in Walked /\ Linked(order[i], RefsOf(order[i])[k])
    /\ \A i \in DOMAIN walk : \A k \in 1 .. walk[i].next - 1 :
         RefsOf(walk[i].task)[k].to \in Walked /\ Linked(walk[i].task, RefsOf(walk[i].task)[k])

(* Every task is parsed, and has a status or is to get one.                *)
TasksKnown ==
  /\ Settled => \E T \in SUBSET Configs :
       /\ ParsedSet(T) /\ Walked \subseteq T
       /\ \A c \in T : phase = "graph" => pending[c] \/ status[c] # NoStatus
  /\ \A c \in Tasks : pending[c] \/ status[c] # NoStatus
  /\ \A c \in Configs : status[c].kind = "upstreamErrors" => stopOnErrors

(* A task reports after the one before it in the order.                    *)
ReportersOK == \A i \in 2 .. Len(order) : prevReporter[order[i]] = order[i - 1]

(* The tasks whose turn is over in this build.                             *)
Turns == IF phase = "report" THEN pos ELSE pos - 1

Told(u, n) ==
  \E i \in 1 .. n : u \in downStream[order[i]] /\ \E j \in 1 .. i - 1 : order[j] = u

TurnsOver ==
  phase \in {"build", "report"} =>
    /\ \A j \in 1 .. Turns : done[order[j]]
    /\ \A j \in 1 .. pos - 1 : reportDone[order[j]]
    /\ \A j \in 1 .. Turns : status[order[j]] # NoStatus \/ (stopOnErrors /\ Told(order[j], Turns))

(* A config that is not parsed as it is now has been missed, or will be    *)
(* found to have changed.                                                  *)
Noticed(c) ==
  \/ phase \in {"sleep", "check"} /\ mCfg[c] = NoTime /\ watchCfg[c] # cfgTime[c]
  \/ phase \in {"build", "report", "watch"} /\ mCfg[c] # NoTime /\ mCfg[c] # cfgTime[c]

ConfigsSeen ==
  \A c \in Configs :
    /\ cfgTime[c] <= clock /\ mCfg[c] <= clock /\ watchCfg[c] <= clock
    /\ \/ parsed[c] = Unparsed \/ parsed[c] = {refs[c]} \/ <<"config", c>> \in missed
       \/ c \in Tasks /\ Noticed(c)

BuildInv ==
  BuildTypeOK /\ PhaseOK /\ WalkOK /\ UpstreamEarlier /\ ReferencesLinked /\ TasksKnown
  /\ ReportersOK /\ TurnsOver /\ ConfigsSeen

-----------------------------------------------------------------------------
(* Sequences, references and reachability.                                 *)

(* A set of numbers that has a member has a least one.                     *)
LEMMA LeastNumber ==
  ASSUME NEW S \in SUBSET Nat, S # {}
  PROVE  \E m \in S : \A k \in S : m <= k
<1> DEFINE R == OpToRel(<, Nat)
<1>1. IsWellFoundedOn(R, Nat)
  BY NatLessThanWellFounded
<1>2. \A x, y \in Nat : x < y => <<x, y>> \in R
  BY DEF OpToRel
<1> HIDE DEF R
<1>3. PICK x \in S : \A y \in S : ~ (<<y, x>> \in R)
  BY <1>1, WFMin
<1>4. \A y \in S : ~ (y < x)
  BY <1>2, <1>3
<1>5. \A y \in S : x <= y
  BY <1>4
<1> QED BY <1>5

(* The members of a sequence, and of one that is made longer.              *)
LEMMA Members ==
  ASSUME NEW S, NEW s \in Seq(S), NEW e \in S
  PROVE  /\ ToSet(s) \subseteq S
         /\ \A x : x \in ToSet(s) <=> \E i \in 1 .. Len(s) : s[i] = x
         /\ Append(s, e) \in Seq(S) /\ Len(Append(s, e)) = Len(s) + 1
         /\ \A i \in 1 .. Len(s) : Append(s, e)[i] = s[i]
         /\ Append(s, e)[Len(s) + 1] = e
         /\ ToSet(Append(s, e)) = ToSet(s) \cup {e}
BY DEF ToSet

(* A config references configs.                                            *)
LEMMA RefsOfType ==
  ASSUME BuildTypeOK, NEW c \in Configs
  PROVE  /\ RefsOf(c) \in Layouts(c) /\ RefsOf(c) \in References
         /\ Targets(c) \subseteq Configs
         /\ \A k \in DOMAIN RefsOf(c) : /\ RefsOf(c)[k] \in [to : Configs, circular : BOOLEAN]
                                        /\ RefsOf(c)[k].to \in Targets(c)
<1>1. RefsOf(c) \in Layouts(c)
  <2>1. CASE parsed[c] = Unparsed
    BY <2>1 DEF BuildTypeOK, DiskTypes, RefsOf
  <2>2. CASE parsed[c] # Unparsed
    <3>1. PICK rs \in Layouts(c) : parsed[c] = {rs}
      BY <2>2 DEF BuildTypeOK, ThreadTypes
    <3>2. RefsOf(c) = rs
      BY <2>2, <3>1 DEF RefsOf
    <3> QED BY <3>1, <3>2
  <2> QED BY <2>1, <2>2
<1>2. RefsOf(c) \in References
  BY <1>1, LayoutsAssumption
<1>3. \A k \in DOMAIN RefsOf(c) : RefsOf(c)[k] \in [to : Configs, circular : BOOLEAN]
  <2>1. \A S : \A s \in Seq(S) : \A k \in DOMAIN s : s[k] \in S
    OBVIOUS
  <2> QED BY <1>2, <2>1 DEF References
<1>4. \A k \in DOMAIN RefsOf(c) : RefsOf(c)[k].to \in Targets(c)
  BY DEF Targets, ToSet
<1>5. Targets(c) \subseteq Configs
  BY <1>3 DEF Targets, ToSet
<1> QED BY <1>1, <1>2, <1>3, <1>4, <1>5

(* A config is reachable from itself, and so are the references of what is *)
(* reachable.                                                              *)
LEMMA ReachableClosed ==
  ASSUME BuildTypeOK, NEW S \in SUBSET Configs
  PROVE  /\ S \subseteq Reachable(S) /\ Reachable(S) \subseteq Configs
         /\ \A c \in Reachable(S) : Targets(c) \subseteq Reachable(S)
<1>1. \A c \in Configs : Targets(c) \subseteq Configs
  BY RefsOfType
<1> QED BY <1>1 DEF Reachable

(* Reachability from x does not change while the configs of a set that     *)
(* has x and all its references are parsed the same.                       *)
LEMMA ReachableStable ==
  ASSUME NEW T \in SUBSET Configs, NEW x \in T, NEW c \in Reachable({x}),
         \A y \in T : Targets(y) \subseteq T /\ Targets(y)' = Targets(y)
  PROVE  c \in Reachable({x})'
<1> SUFFICES ASSUME NEW U \in SUBSET Configs, x \in U, \A y \in U : Targets(y)' \subseteq U
             PROVE  c \in U
  BY DEF Reachable
<1>1. \A y \in U \cap T : Targets(y) \subseteq U \cap T
  OBVIOUS
<1>2. c \in U \cap T
  BY <1>1 DEF Reachable
<1> QED BY <1>2

-----------------------------------------------------------------------------
(* Types.                                                                  *)

StatusType == [kind : StatusKinds, ref : Configs, input : Time \cup {NoTime}]

(* The thread leaves the files alone, but for the outputs.                 *)
LEMMA ThreadKeepsFiles ==
  ASSUME Orchestrate
  PROVE  UNCHANGED <<src, srcTime, refs, cfgTime, clock, stopOnErrors, missed>>
BY DEF Orchestrate, StartBuild, Regenerate, GenerateGraph, LinkReference, DropReference,
       EnterReference, CompleteTask, ReportOnly, SkipProject, BuildProject, Report, UpdateWatch,
       Wake, HasUpdate, NothingToDo, Rebuild, diskVars

(* Files keep their types.                                                 *)
LEMMA DiskTypesNext ==
  ASSUME BuildTypeOK, BuildNext
  PROVE  DiskTypes'
<1>1. CASE Orchestrate
  BY <1>1, ThreadKeepsFiles DEF BuildTypeOK, DiskTypes
<1>2. ASSUME NEW c \in Configs, NEW x \in Content, EditSource(c, x)
      PROVE  DiskTypes'
  BY <1>2, ClockAssumption DEF EditSource, Edited, BuildTypeOK, DiskTypes, Time
<1>3. ASSUME NEW c \in Configs, NEW rs \in Layouts(c), EditReferences(c, rs)
      PROVE  DiskTypes'
  <2>1. rs \in References
    BY LayoutsAssumption
  <2> QED
    BY <1>3, <2>1, ClockAssumption DEF EditReferences, Edited, BuildTypeOK, DiskTypes, Time
<1> QED BY <1>1, <1>2, <1>3 DEF BuildNext, Edit

(* A status that is computed, or passed on, is a status.                   *)
LEMMA StatusTypes ==
  ASSUME BuildTypeOK
  PROVE  /\ \A k \in StatusKinds : St(k) \in StatusType
         /\ \A c \in Configs : GetUpToDateStatus(c) \in StatusType
         /\ \A s \in StatusType : \A c \in Configs : \A b \in BOOLEAN :
              DownstreamStatus(s, c, b) \in StatusType
<1>1. \A k \in StatusKinds : St(k) \in StatusType
  BY RootAssumption DEF St, StatusType
<1>2. ASSUME NEW c \in Configs
      PROVE  GetUpToDateStatus(c) \in StatusType
  <2>1. status[c] \in StatusType
    BY DEF BuildTypeOK, TaskTypes, StatusType
  <2>2. InputTime(c) \in Time \cup {NoTime}
    BY DEF InputTime, TimeOf, BuildTypeOK, ThreadTypes, DiskTypes
  <2>3. ASSUME UpstreamErrors(c) # {}
        PROVE  upStream[c][Min(UpstreamErrors(c))] \in Configs
    <3>1. upStream[c] \in Seq(Configs)
      BY DEF BuildTypeOK, TaskTypes
    <3>2. UpstreamErrors(c) \in SUBSET Nat /\ UpstreamErrors(c) \subseteq DOMAIN upStream[c]
      BY <3>1 DEF UpstreamErrors
    <3>3. \E m \in UpstreamErrors(c) : \A k \in UpstreamErrors(c) : m <= k
      BY <2>3, <3>2, LeastNumber
    <3>4. Min(UpstreamErrors(c)) \in UpstreamErrors(c)
      BY <3>3 DEF Min
    <3> QED BY <3>1, <3>2, <3>4
  <2>4. CASE status[c] # NoStatus
    BY <2>1, <2>4 DEF GetUpToDateStatus
  <2>5. CASE status[c] = NoStatus /\ c \in Solutions
    <3>1. GetUpToDateStatus(c) = St("solution")
      BY <2>5 DEF GetUpToDateStatus
    <3> QED BY <3>1, <1>1 DEF StatusKinds
  <2>6. CASE status[c] = NoStatus /\ c \notin Solutions /\ stopOnErrors /\ UpstreamErrors(c) # {}
    <3>1. GetUpToDateStatus(c) = [St("upstreamErrors") EXCEPT !.ref = upStream[c][Min(UpstreamErrors(c))]]
      BY <2>6 DEF GetUpToDateStatus
    <3> QED BY <3>1, <2>6, <2>3, <1>1 DEF StatusType, StatusKinds, St
  <2>7. CASE status[c] = NoStatus /\ c \notin Solutions /\ ~(stopOnErrors /\ UpstreamErrors(c) # {})
    <3>1. \/ GetUpToDateStatus(c) = St("inputFileNewer")
          \/ \E k \in {"upToDateWithUpstreamTypes", "upToDateWithInputFileText", "upToDate"} :
               GetUpToDateStatus(c) = [kind |-> k, ref |-> Root, input |-> InputTime(c)]
      BY <2>7 DEF GetUpToDateStatus
    <3> QED BY <3>1, <1>1, <2>2, RootAssumption DEF StatusType, StatusKinds
  <2> QED BY <2>4, <2>5, <2>6, <2>7
<1>3. ASSUME NEW s \in StatusType, NEW c \in Configs, NEW b \in BOOLEAN
      PROVE  DownstreamStatus(s, c, b) \in StatusType
  <2>1. DownstreamStatus(s, c, b) \in
          {s, St("inputFileNewer"), [s EXCEPT !.kind = "upToDateWithUpstreamTypes"], NoStatus}
    BY DEF DownstreamStatus
  <2>2. [s EXCEPT !.kind = "upToDateWithUpstreamTypes"] \in StatusType
    BY DEF StatusType, StatusKinds
  <2> QED BY <2>1, <2>2, <1>1 DEF StatusKinds, NoStatus
<1> QED BY <1>1, <1>2, <1>3

FrameType == [task : Configs, next : Nat \ {0}, circular : BOOLEAN]

(* The task whose turn it is.                                              *)
LEMMA CurrentTask ==
  ASSUME BuildTypeOK, PhaseOK, phase \in {"build", "report", "check"}
  PROVE  /\ pos \in 1 .. Len(order) /\ order \in Seq(Configs)
         /\ Current = order[pos] /\ Current \in Configs /\ Current \in Tasks
BY DEF BuildTypeOK, ThreadTypes, PhaseOK, Current, Tasks, ToSet

(* The call of setup_build_task that is running, and the reference it is   *)
(* at.                                                                     *)
LEMMA TopTask ==
  ASSUME BuildTypeOK, PhaseOK, phase = "graph"
  PROVE  /\ walk \in Seq(FrameType) /\ Len(walk) \in Nat \ {0} /\ DOMAIN walk = 1 .. Len(walk)
         /\ Len(walk) \in DOMAIN walk
         /\ Top = walk[Len(walk)] /\ Top \in FrameType /\ Top.task \in Configs
         /\ Top.next \in Nat \ {0} /\ Top.circular \in BOOLEAN
         /\ Top.task \in Analyzing
         /\ RefsOf(Top.task) \in References /\ Len(RefsOf(Top.task)) \in Nat
         /\ DOMAIN RefsOf(Top.task) = 1 .. Len(RefsOf(Top.task))
         /\ HasNext => /\ Ref = RefsOf(Top.task)[Top.next] /\ Top.next \in DOMAIN RefsOf(Top.task)
                       /\ Ref \in [to : Configs, circular : BOOLEAN]
                       /\ Ref.to \in Configs /\ Ref.to \in Targets(Top.task)
                       /\ Ref.circular \in BOOLEAN
<1>1. walk \in Seq(FrameType) /\ walk # <<>>
  BY DEF BuildTypeOK, ThreadTypes, PhaseOK, FrameType
<1>2. /\ Len(walk) \in Nat \ {0} /\ DOMAIN walk = 1 .. Len(walk)
      /\ Len(walk) \in DOMAIN walk
  BY <1>1
<1>3. Top = walk[Len(walk)] /\ Top \in FrameType
  BY <1>1, <1>2 DEF Top
<1>4. Top.task \in Configs /\ Top.next \in Nat \ {0} /\ Top.circular \in BOOLEAN
  BY <1>3 DEF FrameType
<1>5. Top.task \in Analyzing
  BY <1>2, <1>3 DEF Analyzing
<1>6. RefsOf(Top.task) \in References
  BY <1>4, RefsOfType
<1>7. Len(RefsOf(Top.task)) \in Nat /\ DOMAIN RefsOf(Top.task) = 1 .. Len(RefsOf(Top.task))
  BY <1>6 DEF References
<1>8. ASSUME HasNext
      PROVE  /\ Ref = RefsOf(Top.task)[Top.next] /\ Top.next \in DOMAIN RefsOf(Top.task)
             /\ Ref \in [to : Configs, circular : BOOLEAN] /\ Ref.to \in Targets(Top.task)
  <2>1. Top.next \in DOMAIN RefsOf(Top.task)
    BY <1>8, <1>7, <1>4 DEF HasNext
  <2> QED BY <2>1, <1>4, RefsOfType DEF Ref
<1>9. HasNext => Ref.to \in Configs /\ Ref.circular \in BOOLEAN
  BY <1>8
<1> QED BY <1>1, <1>2, <1>3, <1>4, <1>5, <1>6, <1>7, <1>8, <1>9

(* The walk after a reference is dealt with, a call made, a call returned. *)
LEMMA WalkSteps ==
  ASSUME NEW w \in Seq(FrameType), w # <<>>, NEW f \in FrameType
  PROVE  /\ \A v : v = [w EXCEPT ![Len(w)].next = @ + 1] =>
              /\ v \in Seq(FrameType) /\ Len(v) = Len(w) /\ v # <<>>
              /\ DOMAIN v = DOMAIN w
              /\ \A i \in 1 .. Len(w) : v[i].task = w[i].task
              /\ \A i \in 1 .. Len(w) - 1 : v[i] = w[i]
              /\ v[Len(w)].next = w[Len(w)].next + 1
         /\ \A v : v = Append(w, f) =>
              /\ v \in Seq(FrameType) /\ Len(v) = Len(w) + 1 /\ v # <<>>
              /\ DOMAIN v = 1 .. Len(w) + 1
              /\ \A i \in 1 .. Len(w) : v[i] = w[i]
              /\ v[Len(w) + 1] = f
         /\ \A v : v = SubSeq(w, 1, Len(w) - 1) =>
              /\ v \in Seq(FrameType) /\ Len(v) = Len(w) - 1
              /\ v = <<>> <=> Len(w) = 1
              /\ DOMAIN v = 1 .. Len(w) - 1
              /\ \A i \in 1 .. Len(w) - 1 : v[i] = w[i]
<1>0. Len(w) \in Nat \ {0} /\ DOMAIN w = 1 .. Len(w) /\ \A i \in 1 .. Len(w) : w[i] \in FrameType
  OBVIOUS
<1>1. ASSUME NEW v, v = [w EXCEPT ![Len(w)].next = @ + 1]
      PROVE  /\ v \in Seq(FrameType) /\ Len(v) = Len(w) /\ v # <<>>
             /\ DOMAIN v = DOMAIN w
             /\ \A i \in 1 .. Len(w) : v[i].task = w[i].task
             /\ \A i \in 1 .. Len(w) - 1 : v[i] = w[i]
             /\ v[Len(w)].next = w[Len(w)].next + 1
  <2>1. PICK g : g = [w[Len(w)] EXCEPT !.next = @ + 1]
    OBVIOUS
  <2>2. g \in FrameType /\ g.task = w[Len(w)].task /\ g.next = w[Len(w)].next + 1
    BY <2>1, <1>0 DEF FrameType
  <2>3. v = [w EXCEPT ![Len(w)] = g]
    BY <1>1, <2>1
  <2>4. v \in Seq(FrameType) /\ Len(v) = Len(w)
    BY <2>2, <2>3
  <2>5. DOMAIN v = DOMAIN w /\ v # <<>>
    BY <2>4, <1>0
  <2>6. ASSUME NEW i \in 1 .. Len(w) - 1
        PROVE  v[i] = w[i]
    <3>1. PICK n \in Nat \ {0} : n = Len(w) /\ DOMAIN w = 1 .. n
      BY <1>0
    <3>2. i \in 1 .. n /\ i # n
      BY <3>1
    <3> QED BY <2>3, <3>1, <3>2
  <2>7. v[Len(w)] = g
    BY <2>3, <1>0
  <2>8. \A i \in 1 .. Len(w) : v[i].task = w[i].task
    BY <2>2, <2>6, <2>7, <1>0
  <2> QED BY <2>2, <2>4, <2>5, <2>6, <2>7, <2>8
<1>2. ASSUME NEW v, v = Append(w, f)
      PROVE  /\ v \in Seq(FrameType) /\ Len(v) = Len(w) + 1 /\ v # <<>>
             /\ DOMAIN v = 1 .. Len(w) + 1
             /\ \A i \in 1 .. Len(w) : v[i] = w[i]
             /\ v[Len(w) + 1] = f
  BY <1>2, <1>0
<1>3. ASSUME NEW v, v = SubSeq(w, 1, Len(w) - 1)
      PROVE  /\ v \in Seq(FrameType) /\ Len(v) = Len(w) - 1
             /\ v = <<>> <=> Len(w) = 1
             /\ DOMAIN v = 1 .. Len(w) - 1
             /\ \A i \in 1 .. Len(w) - 1 : v[i] = w[i]
  <2>1. v \in Seq(FrameType) /\ Len(v) = Len(w) - 1
    BY <1>3, <1>0
  <2>2. \A i \in 1 .. Len(w) - 1 : v[i] = w[i]
    BY <1>3, <1>0
  <2>3. v = <<>> <=> Len(v) = 0
    BY <2>1, EmptySeq
  <2> QED BY <2>1, <2>2, <2>3, <1>0
<1> QED BY <1>1, <1>2, <1>3

(* The new graph starts empty, with configs parsed as types allow.         *)
LEMMA GraphThreadTypes ==
  ASSUME BuildInv, NEW first \in BOOLEAN, GenerateGraph(first),
         UNCHANGED <<stopOnErrors, missed>>, away' \subseteq Configs
  PROVE  ThreadTypes'
<1> USE DEF BuildInv
<1>1. \A c \in Configs : RefsOf(c) \in Layouts(c) /\ RefsOf(c) \in References
  BY RefsOfType
<1>2. PICK tasks : parsed' = [c \in Configs |-> IF c \in tasks THEN {RefsOf(c)} ELSE parsed[c]]
  BY DEF GenerateGraph, CreateBuildTasks
<1>3. parsed' \in [Configs -> SUBSET References]
  BY <1>1, <1>2 DEF BuildTypeOK, ThreadTypes
<1>4. ASSUME NEW c \in Configs
      PROVE  parsed'[c] = Unparsed \/ \E rs \in Layouts(c) : parsed'[c] = {rs}
  BY <1>1, <1>2 DEF BuildTypeOK, ThreadTypes
<1>5. order' = <<>> /\ errors' = FALSE /\ phase' = "graph" /\ pos' = 1
      /\ UNCHANGED <<needs, mSrc, mCfg>> /\ walk' = <<Frame(Root, FALSE)>>
  BY DEF GenerateGraph
<1>6. walk' \in Seq(FrameType)
  BY <1>5, RootAssumption DEF Frame, FrameType
<1>7. IsInjective(order') /\ order' \in Seq(Configs) /\ pos' \in 1 .. Len(order') + 1
  BY <1>5 DEF IsInjective
<1> QED
  BY <1>3, <1>4, <1>5, <1>6, <1>7 DEF ThreadTypes, BuildTypeOK, FrameType

(* The thread's own variables keep their types.                            *)
LEMMA ThreadTypesNext ==
  ASSUME BuildInv, BuildNext
  PROVE  ThreadTypes'
<1> USE DEF BuildInv
<1> DEFINE Same == UNCHANGED <<phase, order, errors, walk, stopOnErrors, pos, needs, parsed, mSrc, mCfg>>
<1>0. away' \subseteq Configs
  <2>1. away' \subseteq away \cup Configs
    BY DEF BuildNext, Edit, Orchestrate, BuildProject
  <2> QED BY <2>1 DEF ThreadTypes, BuildTypeOK
<1>1. ASSUME NEW c \in Configs,
             \/ \E x \in Content : EditSource(c, x)
             \/ \E rs \in Layouts(c) : EditReferences(c, rs),
             UNCHANGED <<stopOnErrors, walk>>
      PROVE  ThreadTypes'
  <2>1. Same /\ \E file \in {"source", "config"} : missed' \subseteq missed \cup {<<file, c>>}
    BY <1>1 DEF EditSource, EditReferences, Edited
  <2> QED BY <1>0, <2>1 DEF ThreadTypes, BuildTypeOK
<1>2. ASSUME Orchestrate
      PROVE  ThreadTypes'
  <2> USE <1>2 DEF Orchestrate
  <2>0. UNCHANGED <<stopOnErrors, missed>> /\ away' \subseteq Configs
    BY <1>0
  <2>1. CASE StartBuild \/ Regenerate
    BY <2>0, <2>1, GraphThreadTypes DEF StartBuild, Regenerate
  <2>2. ASSUME phase = "graph", NEW v, v = Advance, walk' = v,
               UNCHANGED <<phase, order, stopOnErrors, pos, needs, parsed, mSrc, mCfg>>,
               errors' \in BOOLEAN
        PROVE  ThreadTypes'
    <3>1. v \in Seq(FrameType)
      BY <2>2, TopTask, WalkSteps DEF Advance, PhaseOK
    <3> QED BY <2>0, <2>2, <3>1 DEF ThreadTypes, BuildTypeOK, FrameType
  <2>3. CASE LinkReference
    BY <2>2, <2>3 DEF LinkReference, ThreadTypes, BuildTypeOK
  <2>4. CASE DropReference
    <3>1. errors' \in BOOLEAN
      BY <2>4 DEF DropReference
    <3> QED BY <2>2, <2>4, <3>1 DEF DropReference
  <2>5. CASE EnterReference
    <3>0. HasNext /\ phase = "graph"
      BY <2>5 DEF EnterReference
    <3>a. Ref.to \in Configs /\ (Top.circular \/ Ref.circular) \in BOOLEAN
      BY <3>0, TopTask
    <3>1. Frame(Ref.to, Top.circular \/ Ref.circular) \in FrameType
      BY <3>a DEF Frame, FrameType
    <3>2. walk' \in Seq(FrameType)
      BY <2>5, <3>1, TopTask, WalkSteps DEF EnterReference, PhaseOK
    <3> QED BY <2>0, <2>5, <3>2 DEF EnterReference, ThreadTypes, BuildTypeOK, FrameType
  <2>6. CASE CompleteTask
    <3>1. Top.task \in Configs /\ order \in Seq(Configs) /\ IsInjective(order)
      BY <2>6, TopTask DEF CompleteTask, ThreadTypes, BuildTypeOK
    <3>a. Top = walk[Len(walk)] /\ Len(walk) \in DOMAIN walk
      BY <2>6, TopTask DEF CompleteTask
    <3>2. Top.task \notin ToSet(order)
      BY <3>a DEF WalkOK
    <3>3. order' \in Seq(Configs) /\ IsInjective(order') /\ Len(order') = Len(order) + 1
      BY <2>6, <3>1, <3>2 DEF CompleteTask, IsInjective, ToSet
    <3>4. walk' \in Seq(FrameType)
      BY <2>6, TopTask, WalkSteps DEF CompleteTask, PhaseOK
    <3>5. pos' \in 1 .. Len(order') + 1 /\ phase' \in {"graph", "build", "watch"}
      BY <2>6, <3>1, <3>3 DEF CompleteTask, BuildOrClean, ThreadTypes, BuildTypeOK
    <3>6. UNCHANGED <<errors, needs, parsed, mSrc, mCfg>>
      BY <2>6 DEF CompleteTask
    <3> QED BY <2>0, <3>3, <3>4, <3>5, <3>6 DEF ThreadTypes, BuildTypeOK, FrameType
  <2>7. CASE ReportOnly /\ UNCHANGED walk
    BY <2>0, <2>7 DEF ReportOnly, Unblock, ThreadTypes, BuildTypeOK
  <2>8. ASSUME NEW c \in Configs, ReadTimes(c), phase' = "report", UNCHANGED walk,
               UNCHANGED <<order, errors, stopOnErrors, pos, needs, parsed>>
        PROVE  ThreadTypes'
    <3>1. mSrc' \in [Configs -> Time \cup {NoTime}] /\ mCfg' \in [Configs -> Time \cup {NoTime}]
      BY <2>8 DEF ReadTimes, TimeOf, ThreadTypes, DiskTypes, BuildTypeOK
    <3> QED BY <2>0, <2>8, <3>1 DEF ThreadTypes, BuildTypeOK
  <2>9. CASE SkipProject /\ UNCHANGED walk
    BY <2>8, <2>9, CurrentTask DEF SkipProject, Unblock
  <2>10. CASE BuildProject /\ UNCHANGED walk
    BY <2>8, <2>10, CurrentTask DEF BuildProject, Unblock
  <2>11. CASE Report /\ UNCHANGED walk
    BY <2>0, <2>11, CurrentTask DEF Report, ThreadTypes, BuildTypeOK
  <2>12. CASE (UpdateWatch \/ NothingToDo) /\ UNCHANGED walk
    <3>1. /\ mSrc' = [c \in Configs |-> NoTime] /\ mCfg' = [c \in Configs |-> NoTime]
          /\ phase' = "sleep" /\ pos' = 1 /\ needs' \subseteq needs
          /\ UNCHANGED <<order, errors, parsed, walk>>
      BY <2>12 DEF UpdateWatch, NothingToDo
    <3> QED BY <2>0, <3>1 DEF ThreadTypes, BuildTypeOK
  <2>13. CASE Wake /\ UNCHANGED walk
    BY <2>0, <2>13 DEF Wake, ThreadTypes, BuildTypeOK
  <2>14. CASE HasUpdate /\ UNCHANGED walk
    <3>1. Current \in Configs /\ pos \in 1 .. Len(order)
      BY <2>14, CurrentTask DEF HasUpdate
    <3>2. mSrc' \in [Configs -> Time \cup {NoTime}] /\ mCfg' \in [Configs -> Time \cup {NoTime}]
      BY <2>14, <3>1 DEF HasUpdate, TimeOf, ThreadTypes, DiskTypes, BuildTypeOK
    <3>3. parsed' = parsed \/ parsed' = [parsed EXCEPT ![Current] = Unparsed]
      BY <2>14 DEF HasUpdate, ResetConfig
    <3>4. /\ parsed' \in [Configs -> SUBSET References]
          /\ \A c \in Configs : parsed'[c] = Unparsed \/ \E rs \in Layouts(c) : parsed'[c] = {rs}
      BY <3>1, <3>3 DEF ThreadTypes, BuildTypeOK, Unparsed
    <3>5. UNCHANGED <<order, errors, walk>> /\ pos' = pos + 1 /\ phase' \in {"decide", "check"}
      BY <2>14 DEF HasUpdate
    <3>6. needs' \subseteq {"update", "config"}
      BY <2>14 DEF HasUpdate, ThreadTypes, BuildTypeOK
    <3> QED BY <2>0, <3>1, <3>2, <3>4, <3>5, <3>6 DEF ThreadTypes, BuildTypeOK
  <2>15. CASE Rebuild /\ UNCHANGED walk
    BY <2>0, <2>15 DEF Rebuild, BuildOrClean, ThreadTypes, BuildTypeOK
  <2> QED
    BY <2>1, <2>3, <2>4, <2>5, <2>6, <2>7, <2>9, <2>10, <2>11, <2>12, <2>13, <2>14, <2>15
<1> QED BY <1>1, <1>2 DEF BuildNext, Edit

(* What a new graph keeps of the old tasks: those of configs that did not  *)
(* change, and nothing when there was none.                                *)
LEMMA GraphTasks ==
  ASSUME BuildTypeOK, NEW first \in BOOLEAN, GenerateGraph(first)
  PROVE  \E kept \in SUBSET (Reachable({Root}) \cap Tasks) :
           /\ parsed' = [c \in Configs |-> IF c \in Reachable({Root}) THEN {RefsOf(c)} ELSE parsed[c]]
           /\ upStream' = [c \in Configs |-> <<>>]
           /\ downStream' \in [Configs -> SUBSET Configs]
           /\ status' = [c \in Configs |-> IF c \in kept THEN status[c] ELSE NoStatus]
           /\ pending' = [c \in Configs |-> IF c \in kept THEN pending[c] ELSE c \in Reachable({Root})]
           /\ pending' \in [Configs -> BOOLEAN]
           /\ done' \in [Configs -> BOOLEAN] /\ reportDone' \in [Configs -> BOOLEAN]
           /\ prevReporter' \in [Configs -> Reporters]
           /\ initial' \in [Configs -> BOOLEAN] /\ dirty' \in [Configs -> BOOLEAN]
           /\ watchSrc' = [c \in Configs |-> IF c \in kept THEN watchSrc[c] ELSE NoTime]
           /\ watchCfg' = [c \in Configs |-> IF c \in kept THEN watchCfg[c] ELSE NoTime]
<1> DEFINE tasks == Reachable({Root})
           kept == {c \in Configs : ~first /\ c \in tasks /\ c \in Tasks /\ ~dirty[c]}
           link(p) == IF p \notin Configs \/ p \in kept THEN p
                      ELSE IF reportDone[p] THEN "over" ELSE "never"
<1>0. CreateBuildTasks(first)
  BY DEF GenerateGraph
<1>1. \A c \in Configs : c \in kept <=> ~first /\ c \in tasks /\ c \in Tasks /\ ~dirty[c]
  OBVIOUS
<1>2. /\ parsed' = [c \in Configs |-> IF c \in tasks THEN {RefsOf(c)} ELSE parsed[c]]
      /\ upStream' = [c \in Configs |-> <<>>]
      /\ status' = [c \in Configs |-> IF c \in kept THEN status[c] ELSE NoStatus]
      /\ watchSrc' = [c \in Configs |-> IF c \in kept THEN watchSrc[c] ELSE NoTime]
      /\ watchCfg' = [c \in Configs |-> IF c \in kept THEN watchCfg[c] ELSE NoTime]
  BY <1>0, <1>1 DEF CreateBuildTasks
<1>3. pending' = [c \in Configs |-> IF c \in kept THEN pending[c] ELSE c \in tasks]
  BY <1>0, <1>1 DEF CreateBuildTasks
<1>4. downStream' \in [Configs -> SUBSET Configs]
  BY <1>0 DEF CreateBuildTasks, BuildTypeOK, TaskTypes
<1>5. /\ done' \in [Configs -> BOOLEAN] /\ reportDone' \in [Configs -> BOOLEAN]
      /\ initial' \in [Configs -> BOOLEAN] /\ dirty' \in [Configs -> BOOLEAN]
      /\ pending' \in [Configs -> BOOLEAN]
  BY <1>0 DEF CreateBuildTasks, BuildTypeOK, TaskTypes
<1>6. prevReporter' \in [Configs -> Reporters]
  <2>1. prevReporter' = [c \in Configs |-> IF c \in kept THEN link(prevReporter[c]) ELSE "nobody"]
    BY <1>0, <1>1 DEF CreateBuildTasks
  <2>2. \A p \in Reporters : link(p) \in Reporters
    BY DEF Reporters
  <2>3. \A c \in Configs : prevReporter[c] \in Reporters
    BY DEF BuildTypeOK, TaskTypes
  <2> HIDE DEF link, kept
  <2> QED BY <2>1, <2>2, <2>3 DEF Reporters
<1>7. kept \in SUBSET (tasks \cap Tasks)
  OBVIOUS
<1> HIDE DEF kept
<1> QED BY <1>2, <1>3, <1>4, <1>5, <1>6, <1>7

(* Task variables that a turn of a task changes.                           *)
LEMMA TurnTypes ==
  ASSUME BuildTypeOK, NEW c \in Configs, Unblock(c)
  PROVE  done' \in [Configs -> BOOLEAN] /\ initial' \in [Configs -> BOOLEAN]
BY DEF Unblock, BuildTypeOK, TaskTypes

(* What the build of c does to the tasks it tells.                         *)
BuildEffect(c, r, told, b) ==
  /\ r.kind \in {"buildErrors", "upToDate"}
  /\ status' = [d \in Configs |->
       IF d = c THEN r
       ELSE IF d \in told THEN DownstreamStatus(status[d], c, b) ELSE status[d]]
  /\ pending' = [d \in Configs |-> IF d = c THEN FALSE ELSE pending[d] \/ d \in told]

(* A build tells only downstream tasks.                                    *)
LEMMA BuildTellsTasks ==
  ASSUME BuildInv, BuildProject
  PROVE  \E r \in StatusType : \E told \in SUBSET downStream[Current] : \E b \in BOOLEAN :
           BuildEffect(Current, r, told, b)
<1>1. PICK b \in BOOLEAN : b = (Iface(Current) # src[Current].iface)
  OBVIOUS
<1>2. PICK r : r = St(IF src[Current].err THEN "buildErrors" ELSE "upToDate")
  OBVIOUS
<1>3. r \in StatusType /\ r.kind \in {"buildErrors", "upToDate"}
  BY <1>2, StatusTypes DEF BuildInv, StatusKinds, St
<1>4. PICK told : told = IF initial[Current] \/ (stopOnErrors /\ IsError(r)) THEN {}
                         ELSE downStream[Current]
  OBVIOUS
<1>5. told \in SUBSET downStream[Current]
  BY <1>4
<1>6. /\ status' = [d \in Configs |->
           IF d = Current THEN r
           ELSE IF d \in told THEN DownstreamStatus(status[d], Current, b) ELSE status[d]]
      /\ pending' = [d \in Configs |-> IF d = Current THEN FALSE ELSE pending[d] \/ d \in told]
  BY <1>1, <1>2, <1>4 DEF BuildProject
<1> QED BY <1>3, <1>5, <1>6 DEF BuildEffect

(* The tasks' variables keep their types.                                  *)
LEMMA TaskTypesNext ==
  ASSUME BuildInv, BuildNext
  PROVE  TaskTypes'
<1> USE DEF BuildInv
<1>1. CASE UNCHANGED taskVars
  BY <1>1 DEF taskVars, TaskTypes, BuildTypeOK
<1>2. ASSUME NEW first \in BOOLEAN, GenerateGraph(first)
      PROVE  TaskTypes'
  <2>1. PICK kept \in SUBSET (Reachable({Root}) \cap Tasks) :
           /\ upStream' = [c \in Configs |-> <<>>]
           /\ downStream' \in [Configs -> SUBSET Configs]
           /\ status' = [c \in Configs |-> IF c \in kept THEN status[c] ELSE NoStatus]
           /\ pending' = [c \in Configs |-> IF c \in kept THEN pending[c] ELSE c \in Reachable({Root})]
           /\ pending' \in [Configs -> BOOLEAN]
           /\ done' \in [Configs -> BOOLEAN] /\ reportDone' \in [Configs -> BOOLEAN]
           /\ prevReporter' \in [Configs -> Reporters]
           /\ initial' \in [Configs -> BOOLEAN] /\ dirty' \in [Configs -> BOOLEAN]
           /\ watchSrc' = [c \in Configs |-> IF c \in kept THEN watchSrc[c] ELSE NoTime]
           /\ watchCfg' = [c \in Configs |-> IF c \in kept THEN watchCfg[c] ELSE NoTime]
    BY <1>2, GraphTasks
  <2>2. NoStatus \in StatusType
    BY StatusTypes DEF NoStatus, StatusKinds
  <2>3. status' \in [Configs -> StatusType]
    BY <2>1, <2>2 DEF TaskTypes, BuildTypeOK, StatusType
  <2>4. pending' \in [Configs -> BOOLEAN]
    BY <2>1
  <2>5. upStream' \in [Configs -> Seq(Configs)]
    BY <2>1
  <2>6. watchSrc' \in [Configs -> Time \cup {NoTime}] /\ watchCfg' \in [Configs -> Time \cup {NoTime}]
    BY <2>1 DEF TaskTypes, BuildTypeOK
  <2> QED BY <2>1, <2>3, <2>4, <2>5, <2>6 DEF TaskTypes, StatusType
<1>3. CASE LinkReference
  <2>1. Top.task \in Configs /\ Ref.to \in Configs
    BY <1>3, TopTask DEF LinkReference
  <2>2. upStream' \in [Configs -> Seq(Configs)] /\ downStream' \in [Configs -> SUBSET Configs]
    BY <1>3, <2>1 DEF LinkReference, TaskTypes, BuildTypeOK
  <2> QED BY <1>3, <2>2 DEF LinkReference, TaskTypes, BuildTypeOK
<1>4. CASE DropReference \/ EnterReference
  BY <1>1, <1>4 DEF DropReference, EnterReference
<1>5. CASE CompleteTask
  <2>1. Top.task \in Configs /\ order \in Seq(Configs)
    BY <1>5, TopTask DEF CompleteTask, BuildTypeOK, ThreadTypes
  <2>2. order # <<>> => order[Len(order)] \in Configs
    BY <2>1
  <2>3. prevReporter' \in [Configs -> Reporters]
    BY <1>5, <2>1, <2>2 DEF CompleteTask, TaskTypes, BuildTypeOK, Reporters
  <2>4. done' \in [Configs -> BOOLEAN] /\ reportDone' \in [Configs -> BOOLEAN]
    BY <1>5, <2>1 DEF CompleteTask, TaskTypes, BuildTypeOK
  <2> QED BY <1>5, <2>3, <2>4 DEF CompleteTask, TaskTypes, BuildTypeOK
<1>6. CASE ReportOnly
  <2>1. Current \in Configs
    BY <1>6, CurrentTask DEF ReportOnly
  <2>2. done' \in [Configs -> BOOLEAN] /\ initial' \in [Configs -> BOOLEAN]
    BY <1>6, <2>1, TurnTypes DEF ReportOnly
  <2> QED BY <1>6, <2>2 DEF ReportOnly, TaskTypes, BuildTypeOK
<1>7. CASE SkipProject
  <2>1. Current \in Configs
    BY <1>7, CurrentTask DEF SkipProject
  <2>2. done' \in [Configs -> BOOLEAN] /\ initial' \in [Configs -> BOOLEAN]
    BY <1>7, <2>1, TurnTypes DEF SkipProject
  <2>3. PICK s, t : s = GetUpToDateStatus(Current) /\ t = [s EXCEPT !.kind = "upToDate"]
    OBVIOUS
  <2>4. s \in StatusType
    BY <2>1, <2>3, StatusTypes
  <2>5. t \in StatusType
    BY <2>3, <2>4 DEF StatusType, StatusKinds
  <2>6. status' = [status EXCEPT ![Current] = s] \/ status' = [status EXCEPT ![Current] = t]
    BY <1>7, <2>3 DEF SkipProject
  <2>7. status' \in [Configs -> StatusType]
    BY <2>1, <2>4, <2>5, <2>6 DEF TaskTypes, BuildTypeOK, StatusType
  <2>8. pending' \in [Configs -> BOOLEAN]
    BY <1>7, <2>1 DEF SkipProject, TaskTypes, BuildTypeOK
  <2> QED BY <1>7, <2>2, <2>7, <2>8 DEF SkipProject, TaskTypes, BuildTypeOK, StatusType
<1>8. CASE BuildProject
  <2>1. Current \in Configs
    BY <1>8, CurrentTask DEF BuildProject
  <2>2. done' \in [Configs -> BOOLEAN] /\ initial' \in [Configs -> BOOLEAN]
    BY <1>8, <2>1, TurnTypes DEF BuildProject
  <2>3. PICK r \in StatusType, told \in SUBSET downStream[Current], b \in BOOLEAN :
          BuildEffect(Current, r, told, b)
    BY <1>8, BuildTellsTasks
  <2>4. \A d \in Configs : DownstreamStatus(status[d], Current, b) \in StatusType /\ status[d] \in StatusType
    BY <2>1, StatusTypes DEF TaskTypes, BuildTypeOK, StatusType
  <2>5. status' \in [Configs -> StatusType]
    BY <2>3, <2>4 DEF BuildEffect
  <2>6. pending' \in [Configs -> BOOLEAN]
    BY <2>3 DEF BuildEffect, TaskTypes, BuildTypeOK
  <2> QED BY <1>8, <2>2, <2>5, <2>6 DEF BuildProject, TaskTypes, BuildTypeOK, StatusType
<1>9. CASE Report
  <2>1. Current \in Configs
    BY <1>9, CurrentTask DEF Report
  <2>2. reportDone' \in [Configs -> BOOLEAN]
    BY <1>9, <2>1 DEF Report, TaskTypes, BuildTypeOK
  <2> QED BY <1>9, <2>2 DEF Report, TaskTypes, BuildTypeOK
<1>10. CASE UpdateWatch
  <2>1. watchSrc' \in [Configs -> Time \cup {NoTime}] /\ watchCfg' \in [Configs -> Time \cup {NoTime}]
    BY <1>10 DEF UpdateWatch, TimeOf, TaskTypes, DiskTypes, ThreadTypes, BuildTypeOK
  <2> QED BY <1>10, <2>1 DEF UpdateWatch, TaskTypes, BuildTypeOK
<1>11. CASE HasUpdate
  <2>1. Current \in Configs
    BY <1>11, CurrentTask DEF HasUpdate
  <2>2. /\ done' \in [Configs -> BOOLEAN] /\ reportDone' \in [Configs -> BOOLEAN]
        /\ pending' \in [Configs -> BOOLEAN] /\ dirty' \in [Configs -> BOOLEAN]
    BY <1>11, <2>1 DEF HasUpdate, ResetConfig, TaskTypes, BuildTypeOK
  <2>3. NoStatus \in StatusType
    BY StatusTypes DEF NoStatus, StatusKinds
  <2>4. status' \in [Configs -> StatusType]
    BY <1>11, <2>1, <2>3 DEF HasUpdate, TaskTypes, BuildTypeOK, StatusType
  <2> QED BY <1>11, <2>2, <2>4 DEF HasUpdate, TaskTypes, BuildTypeOK, StatusType
<1>12. CASE Wake \/ NothingToDo \/ Rebuild
  BY <1>1, <1>12 DEF Wake, NothingToDo, Rebuild
<1>13. CASE Edit
  BY <1>1, <1>13 DEF Edit, EditSource, EditReferences
<1>14. StartBuild \/ Regenerate => TaskTypes'
  BY <1>2 DEF StartBuild, Regenerate
<1> QED
  BY <1>3, <1>4, <1>5, <1>6, <1>7, <1>8, <1>9, <1>10, <1>11, <1>12, <1>13, <1>14
     DEF BuildNext, Orchestrate

-----------------------------------------------------------------------------
(* The graph.                                                              *)

(* A parsed config references the same whatever happens to its file.       *)
LEMMA ParsedKept ==
  ASSUME parsed' = parsed, NEW c, parsed[c] # Unparsed
  PROVE  RefsOf(c)' = RefsOf(c) /\ Targets(c)' = Targets(c)
BY DEF RefsOf, Targets

(* The invariant of the graph.                                             *)
TasksParsed ==
  Settled => \E T \in SUBSET Configs :
    /\ ParsedSet(T) /\ Walked \subseteq T
    /\ \A c \in T : phase = "graph" => pending[c] \/ status[c] # NoStatus

GraphInv == WalkOK /\ UpstreamEarlier /\ ReferencesLinked /\ TasksParsed

(* Steps that leave the graph alone: edits, the turns of the tasks, the    *)
(* polling.                                                                *)
LEMMA GraphKept ==
  ASSUME BuildInv, UNCHANGED <<order, walk, upStream>>,
         Settled' => Settled /\ parsed' = parsed,
         walk # <<>> => Settled',
         phase' = "graph" => phase = "graph" /\ UNCHANGED <<pending, status>>
  PROVE  GraphInv'
<1> USE DEF BuildInv
<1>1. Walked' = Walked
  BY DEF Walked, Analyzing
<1>2. UpstreamEarlier'
  BY <1>1 DEF UpstreamEarlier
<1>3. ASSUME Settled'
      PROVE  /\ ReferencesLinked' /\ TasksParsed' /\ WalkOK'
  <2>1. Settled /\ parsed' = parsed
    BY <1>3
  <2>2. PICK T \in SUBSET Configs :
          /\ ParsedSet(T) /\ Walked \subseteq T
          /\ \A c \in T : phase = "graph" => pending[c] \/ status[c] # NoStatus
    BY <2>1 DEF TasksKnown
  <2>3. \A c \in T : RefsOf(c)' = RefsOf(c) /\ Targets(c)' = Targets(c) /\ Targets(c) \subseteq T
    BY <2>1, <2>2, ParsedKept DEF ParsedSet
  <2>4. ParsedSet(T)'
    BY <2>1, <2>2, <2>3 DEF ParsedSet
  <2>5. TasksParsed'
    BY <1>1, <2>2, <2>4 DEF TasksParsed
  <2>6. \A x \in T : \A c \in Reachable({x}) : c \in Reachable({x})'
    BY <2>3, ReachableStable
  <2>7. \A i \in DOMAIN order : order[i] \in T
    BY <2>2 DEF Walked, ToSet
  <2>8. \A i \in DOMAIN walk : walk[i].task \in T
    BY <2>2 DEF Walked, Analyzing
  <2>9. WalkOK'
    <3>1. /\ \A i, j \in DOMAIN walk : walk[i].task = walk[j].task => i = j
          /\ \A i \in DOMAIN walk : walk[i].task \notin ToSet(order)
      BY DEF WalkOK
    <3>2. /\ \A i \in DOMAIN walk : walk[i].next <= Len(RefsOf(walk[i].task)') + 1
          /\ \A i, j \in DOMAIN walk : i < j => walk[i].next <= Len(RefsOf(walk[i].task)')
      BY <2>3, <2>8 DEF WalkOK
    <3>3. \A i, j \in DOMAIN walk : i <= j => walk[j].task \in Reachable({walk[i].task})'
      BY <2>6, <2>8 DEF WalkOK
    <3> QED BY <3>1, <3>2, <3>3 DEF WalkOK
  <2>10. \A c \in T : \A k \in DOMAIN RefsOf(c) :
           RefsOf(c)[k].to \in Walked /\ Linked(c, RefsOf(c)[k]) =>
             RefsOf(c)'[k].to \in Walked' /\ Linked(c, RefsOf(c)[k])'
    <3> SUFFICES ASSUME NEW c \in T, NEW k \in DOMAIN RefsOf(c), RefsOf(c)[k].to \in Walked,
                        Linked(c, RefsOf(c)[k])
                 PROVE  RefsOf(c)'[k].to \in Walked' /\ Linked(c, RefsOf(c)[k])'
      OBVIOUS
    <3>1. PICK t, r : t = RefsOf(c)[k].to /\ r = RefsOf(c)[k]
      OBVIOUS
    <3>2. t \in T /\ t \in Walked /\ RefsOf(c)' = RefsOf(c)
      BY <2>2, <2>3, <3>1
    <3>3. t \in ToSet(upStream[c]) \/ c \in Reachable({t})
      BY <3>1 DEF Linked
    <3>4. t \in ToSet(upStream[c])' \/ c \in Reachable({t})'
      BY <3>2, <3>3, <2>6
    <3>5. RefsOf(c)[k]' = r
      BY <3>1, <3>2
    <3> QED BY <1>1, <3>1, <3>2, <3>4, <3>5 DEF Linked
  <2>11. ReferencesLinked'
    <3>1. /\ \A i \in DOMAIN order : \A k \in DOMAIN RefsOf(order[i]) :
               RefsOf(order[i])[k].to \in Walked /\ Linked(order[i], RefsOf(order[i])[k])
          /\ \A i \in DOMAIN walk : \A k \in 1 .. walk[i].next - 1 :
               RefsOf(walk[i].task)[k].to \in Walked /\ Linked(walk[i].task, RefsOf(walk[i].task)[k])
      BY <2>1 DEF ReferencesLinked
    <3>2. \A i \in DOMAIN walk : \A k \in 1 .. walk[i].next - 1 : k \in DOMAIN RefsOf(walk[i].task)
      <4> SUFFICES ASSUME NEW i \in DOMAIN walk, NEW k \in 1 .. walk[i].next - 1
                   PROVE  k \in DOMAIN RefsOf(walk[i].task)
        OBVIOUS
      <4>0. walk \in Seq(FrameType)
        BY DEF BuildTypeOK, ThreadTypes, FrameType
      <4>1. walk[i] \in FrameType
        BY <4>0, ElementOfSeq
      <4>2. walk[i].next \in Nat /\ walk[i].task \in Configs
        BY <4>1 DEF FrameType
      <4>3. RefsOf(walk[i].task) \in References
        BY <4>2, RefsOfType
      <4>4. walk[i].next <= Len(RefsOf(walk[i].task)) + 1
        BY DEF WalkOK
      <4> QED BY <4>2, <4>3, <4>4 DEF References
    <3> QED BY <2>3, <2>7, <2>8, <2>10, <3>1, <3>2 DEF ReferencesLinked
  <2> QED BY <2>5, <2>9, <2>11
<1>4. ASSUME ~Settled'
      PROVE  /\ ReferencesLinked' /\ TasksParsed' /\ WalkOK'
  <2>1. walk' = <<>>
    BY <1>4
  <2> QED BY <1>4, <2>1 DEF ReferencesLinked, TasksParsed, WalkOK
<1> QED BY <1>2, <1>3, <1>4 DEF GraphInv

(* A new graph: the root is being analyzed, and nothing else.              *)
LEMMA GraphStarted ==
  ASSUME BuildInv, NEW first \in BOOLEAN, GenerateGraph(first)
  PROVE  GraphInv'
<1> USE DEF BuildInv
<1>1. PICK T \in SUBSET Configs : T = Reachable({Root})
  BY RootAssumption, ReachableClosed
<1>2. Root \in T /\ \A c \in T : Targets(c) \subseteq T
  BY <1>1, RootAssumption, ReachableClosed
<1>3. PICK kept \in SUBSET (T \cap Tasks) :
        /\ parsed' = [c \in Configs |-> IF c \in T THEN {RefsOf(c)} ELSE parsed[c]]
        /\ upStream' = [c \in Configs |-> <<>>]
        /\ status' = [c \in Configs |-> IF c \in kept THEN status[c] ELSE NoStatus]
        /\ pending' = [c \in Configs |-> IF c \in kept THEN pending[c] ELSE c \in T]
  <2>1. PICK kept \in SUBSET (Reachable({Root}) \cap Tasks) :
          /\ parsed' = [c \in Configs |-> IF c \in Reachable({Root}) THEN {RefsOf(c)} ELSE parsed[c]]
          /\ upStream' = [c \in Configs |-> <<>>]
          /\ status' = [c \in Configs |-> IF c \in kept THEN status[c] ELSE NoStatus]
          /\ pending' = [c \in Configs |-> IF c \in kept THEN pending[c] ELSE c \in Reachable({Root})]
    BY GraphTasks
  <2>2. kept \in SUBSET (T \cap Tasks)
    BY <1>1, <2>1
  <2> QED BY <1>1, <2>1, <2>2
<1>4. order' = <<>> /\ walk' = <<Frame(Root, FALSE)>> /\ phase' = "graph"
  BY DEF GenerateGraph
<1>5. DOMAIN walk' = {1} /\ walk'[1].task = Root /\ walk'[1].next = 1
  BY <1>4 DEF Frame
<1>6. ToSet(order') = {} /\ DOMAIN order' = {}
  BY <1>4 DEF ToSet
<1>7. \A c \in T : parsed'[c] # Unparsed /\ RefsOf(c)' = RefsOf(c)
  BY <1>3 DEF RefsOf, Unparsed
<1>8. \A c \in T : Targets(c)' = Targets(c)
  BY <1>7 DEF Targets
<1>9. ParsedSet(T)'
  BY <1>2, <1>7, <1>8 DEF ParsedSet
<1>10. Walked' = {Root}
  BY <1>5, <1>6 DEF Walked, Analyzing
<1>11. ASSUME NEW c \in T
       PROVE  pending'[c] \/ status'[c] # NoStatus
  BY <1>3 DEF TasksKnown
<1>12. TasksParsed'
  BY <1>2, <1>9, <1>10, <1>11 DEF TasksParsed
<1>13. UpstreamEarlier'
  BY <1>3, <1>5, <1>6, RootAssumption DEF UpstreamEarlier, ToSet
<1>14. ReferencesLinked'
  BY <1>5, <1>6 DEF ReferencesLinked
<1>15. Len(RefsOf(Root)') \in Nat
  BY <1>2, <1>7, RefsOfType DEF References
<1>16. Root \in Reachable({Root})'
  BY RootAssumption DEF Reachable
<1>17. WalkOK'
  <2>1. \A i \in DOMAIN walk' : i = 1 /\ walk'[i].task = Root /\ walk'[i].next = 1
    BY <1>5
  <2>2. /\ (\A i, j \in DOMAIN walk : walk[i].task = walk[j].task => i = j)'
        /\ (\A i \in DOMAIN walk : walk[i].task \notin ToSet(order))'
        /\ (\A i, j \in DOMAIN walk : i < j => walk[i].next <= Len(RefsOf(walk[i].task)))'
    BY <2>1, <1>6
  <2>3. (\A i \in DOMAIN walk : walk[i].next <= Len(RefsOf(walk[i].task)) + 1)'
    BY <2>1, <1>15
  <2>4. (\A i, j \in DOMAIN walk : i <= j => walk[j].task \in Reachable({walk[i].task}))'
    BY <2>1, <1>16
  <2> QED BY <2>2, <2>3, <2>4 DEF WalkOK
<1> QED BY <1>12, <1>13, <1>14, <1>17 DEF GraphInv

(* The walk does not change what is referenced.                            *)
LEMMA ReferencesSame ==
  ASSUME UNCHANGED <<refs, parsed>>
  PROVE  /\ \A c \in Configs : RefsOf(c)' = RefsOf(c) /\ Targets(c)' = Targets(c)
         /\ \A x \in Configs : Reachable({x})' = Reachable({x})
<1>1. \A c \in Configs : RefsOf(c)' = RefsOf(c) /\ Targets(c)' = Targets(c)
  BY DEF RefsOf, Targets
<1>2. ASSUME NEW x \in Configs
      PROVE  Reachable({x})' = Reachable({x})
  <2>1. \A T \in SUBSET Configs :
          (\A y \in T : Targets(y)' \subseteq T) <=> (\A y \in T : Targets(y) \subseteq T)
    BY <1>1
  <2> QED BY <2>1 DEF Reachable
<1> QED BY <1>1, <1>2

(* The frames of the walk while a graph is being made.                     *)
LEMMA Frames ==
  ASSUME BuildInv, phase = "graph"
  PROVE  /\ \A i \in DOMAIN walk : /\ walk[i].task \in Configs /\ walk[i].next \in Nat \ {0}
                                   /\ walk[i].task \in Analyzing
                                   /\ Len(RefsOf(walk[i].task)) \in Nat
         /\ \A i \in DOMAIN order : order[i] \in Configs /\ order[i] \in ToSet(order)
         /\ \A i \in DOMAIN order : \A j \in DOMAIN walk : order[i] # walk[j].task
         /\ order \in Seq(Configs) /\ Settled
<1> USE DEF BuildInv
<1>1. walk \in Seq(FrameType)
  BY TopTask
<1>2. \A i \in DOMAIN walk : walk[i] \in FrameType
  BY <1>1, ElementOfSeq
<1>3. \A i \in DOMAIN walk : walk[i].task \in Configs /\ walk[i].next \in Nat \ {0}
  BY <1>2 DEF FrameType
<1>4. \A i \in DOMAIN walk : walk[i].task \in Analyzing
  BY DEF Analyzing
<1>5. \A i \in DOMAIN walk : Len(RefsOf(walk[i].task)) \in Nat
  BY <1>3, RefsOfType DEF References
<1>6. order \in Seq(Configs)
  BY DEF BuildTypeOK, ThreadTypes
<1>7. \A i \in DOMAIN order : order[i] \in Configs /\ order[i] \in ToSet(order)
  BY <1>6 DEF ToSet
<1>8. \A i \in DOMAIN order : \A j \in DOMAIN walk : order[i] # walk[j].task
  BY <1>7 DEF WalkOK
<1>9. Settled
  BY DEF Settled
<1> QED BY <1>3, <1>4, <1>5, <1>6, <1>7, <1>8, <1>9

(* The caller goes on to its next reference when the one it is at is       *)
(* linked, or closes a cycle.                                              *)
LEMMA ReferenceDone ==
  ASSUME BuildInv, phase = "graph", HasNext, walk' = Advance,
         UNCHANGED <<refs, parsed, order, phase, pending, status>>,
         upStream' \in [Configs -> Seq(Configs)],
         \A c \in Configs \ {Top.task} : upStream'[c] = upStream[c],
         ToSet(upStream[Top.task]) \subseteq ToSet(upStream'[Top.task]),
         ToSet(upStream'[Top.task]) \subseteq ToSet(upStream[Top.task]) \cup ToSet(order),
         Ref.to \in Walked,
         Ref.to \in ToSet(upStream'[Top.task]) \/ Top.task \in Reachable({Ref.to})
  PROVE  GraphInv'
<1> USE DEF BuildInv
<1>0. PICK n, v : n = Len(walk) /\ v = Advance
  OBVIOUS
<1>1. /\ walk \in Seq(FrameType) /\ n \in Nat \ {0} /\ DOMAIN walk = 1 .. n
      /\ Top = walk[n] /\ Top.task \in Configs /\ Top.next \in Nat \ {0}
      /\ Ref = RefsOf(Top.task)[Top.next] /\ Ref.to \in Configs
      /\ Len(RefsOf(Top.task)) \in Nat
  BY <1>0, TopTask
<1>a. PICK f \in FrameType : f = Top
  BY TopTask
<1>2. /\ DOMAIN v = 1 .. n
      /\ \A i \in 1 .. n : v[i].task = walk[i].task
      /\ \A i \in 1 .. n - 1 : v[i] = walk[i]
      /\ v[n].next = walk[n].next + 1
  <2>1. walk # <<>>
    BY DEF PhaseOK
  <2> QED BY <1>0, <1>1, <1>a, <2>1, WalkSteps DEF Advance
<1>3. walk' = v
  BY <1>0
<1>4. Analyzing' = Analyzing /\ Walked' = Walked
  <2>1. Analyzing = {walk[i].task : i \in 1 .. n} /\ Analyzing' = {v[i].task : i \in 1 .. n}
    BY <1>1, <1>2, <1>3 DEF Analyzing
  <2>2. Analyzing' = Analyzing
    BY <2>1, <1>2
  <2> QED BY <2>2 DEF Walked
<1>5. /\ \A c \in Configs : RefsOf(c)' = RefsOf(c) /\ Targets(c)' = Targets(c)
      /\ \A x \in Configs : Reachable({x})' = Reachable({x})
  BY ReferencesSame
<1>6. Top.next <= Len(RefsOf(Top.task))
  BY DEF HasNext
<1>7. WalkOK'
  <2>1. /\ \A i, j \in DOMAIN v : v[i].task = v[j].task => i = j
        /\ \A i \in DOMAIN v : v[i].task \notin ToSet(order)
        /\ \A i, j \in DOMAIN v : i <= j => v[j].task \in Reachable({v[i].task})
    BY <1>1, <1>2 DEF WalkOK
  <2>2. \A i, j \in DOMAIN v : i < j => v[i].next <= Len(RefsOf(v[i].task))
    <3> SUFFICES ASSUME NEW i \in 1 .. n, NEW j \in 1 .. n, i < j
                 PROVE  v[i].next <= Len(RefsOf(v[i].task))
      BY <1>2
    <3>1. i \in 1 .. n - 1
      BY <1>1
    <3> QED BY <3>1, <1>1, <1>2 DEF WalkOK
  <2>3. \A i \in DOMAIN v : v[i].next <= Len(RefsOf(v[i].task)) + 1
    <3> SUFFICES ASSUME NEW i \in 1 .. n
                 PROVE  v[i].next <= Len(RefsOf(v[i].task)) + 1
      BY <1>2
    <3>1. CASE i = n
      BY <3>1, <1>1, <1>2, <1>6
    <3>2. CASE i # n
      <4>1. i \in 1 .. n - 1
        BY <1>1, <3>2
      <4> QED BY <4>1, <1>1, <1>2 DEF WalkOK
    <3> QED BY <3>1, <3>2
  <2>4. \A i \in DOMAIN v : v[i].task \in Configs
    BY <1>1, <1>2, Frames
  <2>5. /\ \A i, j \in DOMAIN v : i <= j => v[j].task \in Reachable({v[i].task})'
        /\ \A i, j \in DOMAIN v : i < j => v[i].next <= Len(RefsOf(v[i].task)')
        /\ \A i \in DOMAIN v : v[i].next <= Len(RefsOf(v[i].task)') + 1
    BY <1>5, <2>1, <2>2, <2>3, <2>4
  <2> QED BY <1>3, <2>1, <2>5 DEF WalkOK
<1>8. UpstreamEarlier'
  <2>0. \A i \in DOMAIN order : order[i] \in Configs /\ order[i] # Top.task
    BY <1>1, Frames
  <2>1. \A i \in DOMAIN order : upStream'[order[i]] = upStream[order[i]]
    BY <2>0
  <2>2. ASSUME NEW i \in 1 .. n
        PROVE  ToSet(upStream'[v[i].task]) \subseteq ToSet(order)
    <3>1. v[i].task \in Configs /\ v[i].task = walk[i].task
      BY <1>1, <1>2, Frames
    <3>2. ToSet(upStream[walk[i].task]) \subseteq ToSet(order)
      BY <1>1 DEF UpstreamEarlier
    <3> QED BY <3>1, <3>2
  <2>3. Top.task \in Walked
    BY TopTask DEF Walked
  <2>4. \A c \in Configs \ Walked : upStream'[c] = <<>>
    BY <2>3 DEF UpstreamEarlier
  <2>5. \A i \in DOMAIN order : \A u \in ToSet(upStream'[order[i]]) : \E j \in 1 .. i - 1 : order[j] = u
    BY <2>1 DEF UpstreamEarlier
  <2> QED BY <1>2, <1>3, <1>4, <2>2, <2>4, <2>5 DEF UpstreamEarlier
<1>9. TasksParsed'
  <2>1. PICK T \in SUBSET Configs :
          /\ ParsedSet(T) /\ Walked \subseteq T
          /\ \A c \in T : phase = "graph" => pending[c] \/ status[c] # NoStatus
    BY Frames DEF TasksKnown
  <2>2. ParsedSet(T)'
    BY <1>5, <2>1 DEF ParsedSet
  <2> QED BY <1>4, <2>1, <2>2 DEF TasksParsed
<1>10. ReferencesLinked'
  <2>1. /\ \A i \in DOMAIN order : \A k \in DOMAIN RefsOf(order[i]) :
             RefsOf(order[i])[k].to \in Walked /\ Linked(order[i], RefsOf(order[i])[k])
        /\ \A i \in DOMAIN walk : \A k \in 1 .. walk[i].next - 1 :
             RefsOf(walk[i].task)[k].to \in Walked /\ Linked(walk[i].task, RefsOf(walk[i].task)[k])
    BY Frames DEF ReferencesLinked
  <2>2. ASSUME NEW c \in Configs, NEW r, r.to \in Configs, Linked(c, r)
        PROVE  Linked(c, r)'
    <3>0. c # Top.task => upStream'[c] = upStream[c]
      OBVIOUS
    <3>1. ToSet(upStream[c]) \subseteq ToSet(upStream'[c])
      BY <3>0
    <3> QED BY <2>2, <3>1, <1>5 DEF Linked
  <2>3. Walked \subseteq Configs
    BY Members, Frames DEF Walked, Analyzing, ToSet
  <2>4. \A i \in DOMAIN order : \A k \in DOMAIN RefsOf(order[i])' :
             RefsOf(order[i])'[k].to \in Walked /\ Linked(order[i], RefsOf(order[i])[k])'
    <3> SUFFICES ASSUME NEW i \in DOMAIN order, NEW k \in DOMAIN RefsOf(order[i])'
                 PROVE  RefsOf(order[i])'[k].to \in Walked /\ Linked(order[i], RefsOf(order[i])[k])'
      OBVIOUS
    <3>1. PICK r : r = RefsOf(order[i])[k]
      OBVIOUS
    <3>2. order[i] \in Configs /\ RefsOf(order[i])' = RefsOf(order[i])
      BY <1>5, Frames
    <3>3. r.to \in Walked /\ Linked(order[i], r)
      BY <2>1, <3>1, <3>2
    <3>4. Linked(order[i], r)'
      BY <2>2, <2>3, <3>2, <3>3
    <3>5. RefsOf(order[i])[k]' = r
      BY <3>1, <3>2
    <3> QED BY <3>3, <3>4, <3>5 DEF Linked
  <2>5. ASSUME NEW i \in 1 .. n, NEW k \in 1 .. v[i].next - 1
        PROVE  RefsOf(v[i].task)'[k].to \in Walked /\ Linked(v[i].task, RefsOf(v[i].task)[k])'
    <3>1. PICK c \in Configs : c = walk[i].task /\ c = v[i].task /\ RefsOf(c)' = RefsOf(c)
      BY <1>1, <1>2, <1>5, Frames
    <3>2. PICK r : r = RefsOf(c)[k]
      OBVIOUS
    <3>3. r.to \in Walked /\ Linked(c, r)'
      <4>1. CASE k \in 1 .. walk[i].next - 1
        <5>1. r.to \in Walked /\ Linked(c, r)
          BY <4>1, <2>1, <3>1, <3>2, <1>1
        <5> QED BY <5>1, <2>2, <2>3
      <4>2. CASE k \notin 1 .. walk[i].next - 1
        <5>1. i = n /\ k = Top.next
          BY <4>2, <1>1, <1>2, Frames
        <5>2. c = Top.task /\ r = Ref
          BY <5>1, <1>1, <3>1, <3>2
        <5>3. r.to \in ToSet(upStream'[c]) \/ c \in Reachable({r.to})'
          BY <5>2, <1>1, <1>5
        <5> QED BY <5>2, <5>3 DEF Linked
      <4> QED BY <4>1, <4>2
    <3>4. RefsOf(c)[k]' = r
      BY <3>1, <3>2
    <3> QED BY <3>1, <3>3, <3>4 DEF Linked
  <2> QED BY <1>2, <1>3, <1>4, <2>4, <2>5 DEF ReferencesLinked
<1> QED BY <1>7, <1>8, <1>9, <1>10 DEF GraphInv

(* A completed task is linked.                                             *)
LEMMA GraphLinked ==
  ASSUME BuildInv, LinkReference
  PROVE  GraphInv'
<1> USE DEF BuildInv
<1>1. /\ phase = "graph" /\ HasNext /\ Ref.to \in ToSet(order) /\ walk' = Advance
      /\ UNCHANGED <<refs, parsed, order, phase, pending, status>>
      /\ upStream' = [upStream EXCEPT ![Top.task] = Append(@, Ref.to)]
  BY DEF LinkReference, Completed, diskVars
<1>2. Top.task \in Configs /\ Ref.to \in Configs
  BY <1>1, TopTask
<1>3. upStream \in [Configs -> Seq(Configs)]
  BY DEF BuildTypeOK, TaskTypes
<1>4. /\ upStream' \in [Configs -> Seq(Configs)]
      /\ \A c \in Configs \ {Top.task} : upStream'[c] = upStream[c]
      /\ upStream'[Top.task] = Append(upStream[Top.task], Ref.to)
  BY <1>1, <1>2, <1>3
<1>5. ToSet(upStream'[Top.task]) = ToSet(upStream[Top.task]) \cup {Ref.to}
  BY <1>2, <1>3, <1>4, Members
<1>6. Ref.to \in Walked
  BY <1>1 DEF Walked
<1> QED BY <1>1, <1>4, <1>5, <1>6, ReferenceDone

(* A reference to a task that is being analyzed closes a cycle: the calls  *)
(* under way lead from that task to the one that references it.            *)
LEMMA GraphDropped ==
  ASSUME BuildInv, DropReference
  PROVE  GraphInv'
<1> USE DEF BuildInv
<1>1. /\ phase = "graph" /\ HasNext /\ Ref.to \in Analyzing /\ walk' = Advance
      /\ UNCHANGED <<refs, parsed, order, phase, pending, status, upStream>>
  BY DEF DropReference, diskVars, taskVars
<1>2. Ref.to \in Walked
  BY <1>1 DEF Walked
<1>3. PICK i \in DOMAIN walk : walk[i].task = Ref.to
  BY <1>1 DEF Analyzing
<1>4. Top.task \in Reachable({Ref.to})
  BY <1>1, <1>3, TopTask DEF WalkOK
<1>5. upStream' \in [Configs -> Seq(Configs)]
  BY <1>1 DEF BuildTypeOK, TaskTypes
<1> QED BY <1>1, <1>2, <1>4, <1>5, ReferenceDone

(* A call for a reference.                                                 *)
LEMMA GraphEntered ==
  ASSUME BuildInv, EnterReference
  PROVE  GraphInv'
<1> USE DEF BuildInv
<1>0. /\ phase = "graph" /\ HasNext /\ Ref.to \notin ToSet(order) /\ Ref.to \notin Analyzing
      /\ UNCHANGED <<refs, parsed, order, phase, pending, status, upStream>>
  BY DEF EnterReference, Completed, diskVars, taskVars
<1>1. PICK n, t, f, v : /\ n = Len(walk) /\ t = Ref.to
                        /\ f = Frame(t, Top.circular \/ Ref.circular) /\ v = Append(walk, f)
  OBVIOUS
<1>2. /\ walk \in Seq(FrameType) /\ n \in Nat \ {0} /\ DOMAIN walk = 1 .. n
      /\ Top = walk[n] /\ Top.task \in Configs /\ t \in Configs /\ t \in Targets(Top.task)
      /\ Top.circular \in BOOLEAN /\ Ref.circular \in BOOLEAN
  BY <1>0, <1>1, TopTask
<1>3. f \in FrameType /\ f.task = t /\ f.next = 1
  BY <1>1, <1>2 DEF Frame, FrameType
<1>4. walk' = v
  BY <1>1 DEF EnterReference
<1>5. /\ DOMAIN v = 1 .. n + 1 /\ v[n + 1] = f
      /\ \A i \in 1 .. n : v[i] = walk[i]
  <2>1. walk # <<>>
    BY <1>0 DEF PhaseOK
  <2> QED BY <1>1, <1>2, <1>3, <2>1, WalkSteps
<1>6. Analyzing' = Analyzing \cup {t} /\ Walked' = Walked \cup {t}
  <2>1. Analyzing = {walk[i].task : i \in 1 .. n} /\ Analyzing' = {v[i].task : i \in 1 .. n + 1}
    BY <1>2, <1>4, <1>5 DEF Analyzing
  <2>2. Analyzing' = Analyzing \cup {t}
    BY <2>1, <1>2, <1>3, <1>5
  <2> QED BY <1>0, <2>2 DEF Walked
<1>7. /\ \A c \in Configs : RefsOf(c)' = RefsOf(c) /\ Targets(c)' = Targets(c)
      /\ \A x \in Configs : Reachable({x})' = Reachable({x})
  BY <1>0, ReferencesSame
<1>8. \A i \in 1 .. n + 1 : i = n + 1 \/ i \in 1 .. n
  BY <1>2
<1>9. \A i \in 1 .. n + 1 : v[i].task \in Configs
  BY <1>2, <1>3, <1>5, <1>8, <1>0, Frames
<1>10. WalkOK'
  <2>1. \A i, j \in 1 .. n + 1 : v[i].task = v[j].task => i = j
    <3>1. \A i \in 1 .. n : v[i].task # t
      BY <1>0, <1>1, <1>2, <1>5 DEF Analyzing
    <3>2. \A i, j \in 1 .. n : v[i].task = v[j].task => i = j
      BY <1>2, <1>5 DEF WalkOK
    <3> QED BY <3>1, <3>2, <1>3, <1>5, <1>8
  <2>2. \A i \in 1 .. n + 1 : v[i].task \notin ToSet(order)
    BY <1>0, <1>1, <1>2, <1>3, <1>5, <1>8 DEF WalkOK
  <2>3. \A i \in 1 .. n + 1 : v[i].next <= Len(RefsOf(v[i].task)) + 1
    <3>1. Len(RefsOf(t)) \in Nat
      BY <1>2, RefsOfType DEF References
    <3>2. \A i \in 1 .. n : v[i].next <= Len(RefsOf(v[i].task)) + 1
      BY <1>2, <1>5 DEF WalkOK
    <3> QED BY <3>1, <3>2, <1>3, <1>5, <1>8
  <2>4. \A i \in 1 .. n : v[i].next <= Len(RefsOf(v[i].task))
    <3> SUFFICES ASSUME NEW i \in 1 .. n
                 PROVE  walk[i].next <= Len(RefsOf(walk[i].task))
      BY <1>5
    <3>1. CASE i = n
      BY <1>0, <1>2, <3>1 DEF HasNext
    <3>2. CASE i # n
      <4>1. i < n /\ n \in DOMAIN walk /\ i \in DOMAIN walk
        BY <1>2, <3>2
      <4> QED BY <4>1 DEF WalkOK
    <3> QED BY <3>1, <3>2
  <2>5. \A i, j \in 1 .. n + 1 : i < j => i \in 1 .. n
    BY <1>2
  <2>6. ASSUME NEW i \in 1 .. n + 1, NEW j \in 1 .. n + 1, i <= j
        PROVE  v[j].task \in Reachable({v[i].task})
    <3>1. CASE j \in 1 .. n
      <4>1. i \in 1 .. n
        BY <2>6, <3>1, <1>2
      <4> QED BY <2>6, <3>1, <4>1, <1>2, <1>5 DEF WalkOK
    <3>2. CASE j = n + 1 /\ i = n + 1
      <4>1. t \in Reachable({t})
        BY <1>2, ReachableClosed
      <4> QED BY <3>2, <4>1, <1>3, <1>5
    <3>3. CASE j = n + 1 /\ i \in 1 .. n
      <4>0. i \in DOMAIN walk /\ n \in DOMAIN walk /\ i <= n
        BY <3>3, <1>2
      <4>1. Top.task \in Reachable({walk[i].task})
        BY <4>0, <1>2 DEF WalkOK
      <4>2. t \in Reachable({walk[i].task})
        BY <4>1, <1>2, <3>3, <1>0, Frames, ReachableClosed
      <4> QED BY <3>3, <4>2, <1>3, <1>5
    <3> QED BY <3>1, <3>2, <3>3, <1>8
  <2>7. /\ \A i, j \in 1 .. n + 1 : i <= j => v[j].task \in Reachable({v[i].task})'
        /\ \A i, j \in 1 .. n + 1 : i < j => v[i].next <= Len(RefsOf(v[i].task)')
        /\ \A i \in 1 .. n + 1 : v[i].next <= Len(RefsOf(v[i].task)') + 1
    BY <1>7, <1>9, <2>3, <2>4, <2>5, <2>6
  <2> QED BY <1>0, <1>4, <1>5, <2>1, <2>2, <2>7 DEF WalkOK
<1>11. UpstreamEarlier'
  <2>1. t \notin Walked
    BY <1>0, <1>1 DEF Walked
  <2>2. upStream[t] = <<>>
    BY <1>0, <1>2, <2>1 DEF UpstreamEarlier
  <2>3. ToSet(upStream[t]) = {}
    BY <2>2 DEF ToSet
  <2>4. \A i \in 1 .. n + 1 : ToSet(upStream[v[i].task]) \subseteq ToSet(order)
    BY <1>2, <1>3, <1>5, <1>8, <2>3 DEF UpstreamEarlier
  <2>5. \A c \in Configs \ Walked' : upStream[c] = <<>>
    BY <1>0, <1>6 DEF UpstreamEarlier
  <2>6. \A i \in DOMAIN order : \A u \in ToSet(upStream[order[i]]) : \E j \in 1 .. i - 1 : order[j] = u
    BY DEF UpstreamEarlier
  <2> QED BY <1>0, <1>4, <1>5, <2>4, <2>5, <2>6 DEF UpstreamEarlier
<1>12. TasksParsed'
  <2>1. PICK T \in SUBSET Configs :
          /\ ParsedSet(T) /\ Walked \subseteq T
          /\ \A c \in T : phase = "graph" => pending[c] \/ status[c] # NoStatus
    BY <1>0, Frames DEF TasksKnown
  <2>2. ParsedSet(T)'
    BY <1>0, <1>7, <2>1 DEF ParsedSet
  <2>3. Top.task \in T
    BY <1>0, <2>1, TopTask DEF Walked
  <2>4. t \in T
    BY <1>2, <2>1, <2>3 DEF ParsedSet
  <2> QED BY <1>0, <1>6, <2>1, <2>2, <2>4 DEF TasksParsed
<1>13. ReferencesLinked'
  <2>1. /\ \A i \in DOMAIN order : \A k \in DOMAIN RefsOf(order[i]) :
             RefsOf(order[i])[k].to \in Walked /\ Linked(order[i], RefsOf(order[i])[k])
        /\ \A i \in DOMAIN walk : \A k \in 1 .. walk[i].next - 1 :
             RefsOf(walk[i].task)[k].to \in Walked /\ Linked(walk[i].task, RefsOf(walk[i].task)[k])
    BY <1>0, Frames DEF ReferencesLinked
  <2>2. Walked \subseteq Configs
    BY <1>0, Frames DEF Walked, Analyzing, ToSet
  <2>3. ASSUME NEW c \in Configs, NEW k, RefsOf(c)[k].to \in Walked, Linked(c, RefsOf(c)[k])
        PROVE  (RefsOf(c)[k].to \in Walked /\ Linked(c, RefsOf(c)[k]))'
    <3>0. PICK r : r = RefsOf(c)[k]
      OBVIOUS
    <3>1. PICK x \in Configs : r = RefsOf(c)[k] /\ x = r.to
      BY <2>2, <2>3, <3>0
    <3>2. RefsOf(c)[k]' = r /\ Reachable({x})' = Reachable({x})
      BY <3>1, <1>7
    <3>3. x \in ToSet(upStream[c])' \/ c \in Reachable({x})'
      BY <2>3, <3>1, <3>2, <1>0 DEF Linked
    <3> QED BY <2>3, <3>1, <3>2, <3>3, <1>6 DEF Linked
  <2>4. \A i \in DOMAIN order : \A k \in DOMAIN RefsOf(order[i])' :
             (RefsOf(order[i])[k].to \in Walked /\ Linked(order[i], RefsOf(order[i])[k]))'
    <3> SUFFICES ASSUME NEW i \in DOMAIN order, NEW k \in DOMAIN RefsOf(order[i])'
                 PROVE  (RefsOf(order[i])[k].to \in Walked /\ Linked(order[i], RefsOf(order[i])[k]))'
      OBVIOUS
    <3>1. PICK c \in Configs : c = order[i] /\ order'[i] = c
      BY <1>0, Frames
    <3>2. k \in DOMAIN RefsOf(c)
      BY <3>1, <1>7, <1>0
    <3>3. RefsOf(c)[k].to \in Walked /\ Linked(c, RefsOf(c)[k])
      BY <2>1, <3>1, <3>2
    <3>4. (RefsOf(c)[k].to \in Walked /\ Linked(c, RefsOf(c)[k]))'
      BY <2>3, <3>3
    <3> QED BY <3>1, <3>4
  <2>5. ASSUME NEW i \in 1 .. n + 1, NEW k \in 1 .. v[i].next - 1
        PROVE  (RefsOf(walk[i].task)[k].to \in Walked /\ Linked(walk[i].task, RefsOf(walk[i].task)[k]))'
    <3>1. i \in 1 .. n
      BY <1>3, <1>5, <1>8
    <3>2. PICK c \in Configs : c = v[i].task /\ c = walk[i].task /\ c = walk'[i].task
      BY <1>4, <1>5, <1>9, <3>1
    <3>3. RefsOf(c)[k].to \in Walked /\ Linked(c, RefsOf(c)[k])
      BY <2>1, <3>1, <3>2, <1>2, <1>5
    <3>4. (RefsOf(c)[k].to \in Walked /\ Linked(c, RefsOf(c)[k]))'
      BY <2>3, <3>3
    <3> QED BY <3>2, <3>4
  <2> QED BY <1>0, <1>4, <1>5, <2>4, <2>5 DEF ReferencesLinked
<1> QED BY <1>10, <1>11, <1>12, <1>13 DEF GraphInv

(* A call returns: its task is completed, with all its references.         *)
LEMMA GraphCompleted ==
  ASSUME BuildInv, CompleteTask
  PROVE  GraphInv'
<1> USE DEF BuildInv
<1>0. /\ phase = "graph" /\ ~HasNext /\ order' = Append(order, Top.task)
      /\ walk' = SubSeq(walk, 1, Len(walk) - 1)
      /\ phase' \in {"graph", "build", "watch"}
      /\ UNCHANGED <<refs, parsed, pending, status, upStream>>
  BY DEF CompleteTask, BuildOrClean, diskVars
<1>1. PICK n, m, t, v, w : /\ n = Len(walk) /\ m = Len(order) /\ t = Top.task
                           /\ v = SubSeq(walk, 1, Len(walk) - 1) /\ w = Append(order, t)
  OBVIOUS
<1>2. /\ walk \in Seq(FrameType) /\ n \in Nat \ {0} /\ DOMAIN walk = 1 .. n
      /\ Top = walk[n] /\ t \in Configs /\ Top.next \in Nat \ {0}
      /\ Len(RefsOf(t)) \in Nat /\ DOMAIN RefsOf(t) = 1 .. Len(RefsOf(t))
  BY <1>0, <1>1, TopTask
<1>3. walk' = v /\ order' = w /\ Settled'
  BY <1>0, <1>1 DEF Settled
<1>4. DOMAIN v = 1 .. n - 1 /\ \A i \in 1 .. n - 1 : v[i] = walk[i]
  <2>1. walk # <<>> /\ Top \in FrameType
    BY <1>0, TopTask DEF PhaseOK
  <2> QED BY <1>1, <1>2, <2>1, WalkSteps
<1>5. /\ m \in Nat /\ DOMAIN order = 1 .. m /\ DOMAIN w = 1 .. m + 1
      /\ w[m + 1] = t /\ \A i \in 1 .. m : w[i] = order[i]
      /\ ToSet(w) = ToSet(order) \cup {t}
      /\ \A x : x \in ToSet(order) <=> \E i \in 1 .. m : order[i] = x
  BY <1>0, <1>1, <1>2, Frames, Members
<1>6. \A i \in 1 .. n - 1 : i \in 1 .. n /\ i < n
  BY <1>2
<1>7. \A i \in 1 .. n : i \in 1 .. n - 1 \/ i = n
  BY <1>2
<1>8. Walked' = Walked
  <2>1. Analyzing = {walk[i].task : i \in 1 .. n} /\ Analyzing' = {v[i].task : i \in 1 .. n - 1}
    BY <1>2, <1>3, <1>4 DEF Analyzing
  <2>2. Analyzing = Analyzing' \cup {t}
    BY <2>1, <1>1, <1>2, <1>4, <1>6, <1>7
  <2> QED BY <1>3, <1>5, <2>2 DEF Walked
<1>9. /\ \A c \in Configs : RefsOf(c)' = RefsOf(c) /\ Targets(c)' = Targets(c)
      /\ \A x \in Configs : Reachable({x})' = Reachable({x})
  BY <1>0, ReferencesSame
<1>10. \A i \in 1 .. n : walk[i].task \in Configs /\ walk[i].next \in Nat \ {0}
  BY <1>0, <1>2, Frames
<1>11. Top.next = Len(RefsOf(t)) + 1
  <2>1. Top.next <= Len(RefsOf(t)) + 1
    BY <1>1, <1>2 DEF WalkOK
  <2> QED BY <2>1, <1>0, <1>1, <1>2 DEF HasNext
<1>12. WalkOK'
  <2>1. /\ \A i, j \in 1 .. n - 1 : v[i].task = v[j].task => i = j
        /\ \A i \in 1 .. n - 1 : v[i].next <= Len(RefsOf(v[i].task)) + 1
        /\ \A i, j \in 1 .. n - 1 : i < j => v[i].next <= Len(RefsOf(v[i].task))
        /\ \A i, j \in 1 .. n - 1 : i <= j => v[j].task \in Reachable({v[i].task})
    BY <1>2, <1>4, <1>6 DEF WalkOK
  <2>a. n \in 1 .. n /\ t = walk[n].task
    BY <1>1, <1>2
  <2>b. \A i \in 1 .. n : i # n => walk[i].task # t
    BY <1>2, <2>a DEF WalkOK
  <2>c. \A i \in 1 .. n : walk[i].task \notin ToSet(order)
    BY <1>2 DEF WalkOK
  <2>2. \A i \in 1 .. n - 1 : v[i].task # t /\ v[i].task \notin ToSet(order)
    BY <1>2, <1>4, <1>6, <2>b, <2>c
  <2>3. \A i \in 1 .. n - 1 : v[i].task \notin ToSet(w)
    BY <2>2, <1>5
  <2>4. \A i \in 1 .. n - 1 : v[i].task \in Configs
    BY <1>4, <1>6, <1>10
  <2>5. /\ \A i, j \in 1 .. n - 1 : i <= j => v[j].task \in Reachable({v[i].task})'
        /\ \A i, j \in 1 .. n - 1 : i < j => v[i].next <= Len(RefsOf(v[i].task)')
        /\ \A i \in 1 .. n - 1 : v[i].next <= Len(RefsOf(v[i].task)') + 1
    BY <1>9, <2>1, <2>4
  <2> QED BY <1>3, <1>4, <2>1, <2>3, <2>5 DEF WalkOK
<1>13. UpstreamEarlier'
  <2>1. \A i \in 1 .. n : ToSet(upStream[walk[i].task]) \subseteq ToSet(order)
    BY <1>2 DEF UpstreamEarlier
  <2>2. \A i \in 1 .. n - 1 : ToSet(upStream[v[i].task]) \subseteq ToSet(w)
    BY <2>1, <1>4, <1>5, <1>6
  <2>3. ASSUME NEW i \in 1 .. m + 1, NEW u \in ToSet(upStream[w[i]])
        PROVE  \E j \in 1 .. i - 1 : w[j] = u
    <3>1. CASE i \in 1 .. m
      <4>1. PICK j \in 1 .. i - 1 : order[j] = u
        BY <2>3, <3>1, <1>5 DEF UpstreamEarlier
      <4>2. j \in 1 .. m
        BY <3>1, <1>5
      <4> QED BY <4>1, <4>2, <1>5
    <3>2. CASE i = m + 1
      <4>1. u \in ToSet(order)
        BY <2>1, <2>3, <3>2, <1>1, <1>2, <1>5
      <4>2. PICK j \in 1 .. m : order[j] = u
        BY <4>1, <1>5
      <4> QED BY <3>2, <4>2, <1>5
    <3> QED BY <3>1, <3>2, <1>5
  <2>4. \A c \in Configs \ Walked : upStream[c] = <<>>
    BY <1>0 DEF UpstreamEarlier
  <2>5. (\A i \in DOMAIN order : \A u \in ToSet(upStream[order[i]]) : \E j \in 1 .. i - 1 : order[j] = u)'
    <3>1. \A i \in DOMAIN w : \A u \in ToSet(upStream[w[i]]) : \E j \in 1 .. i - 1 : w[j] = u
      BY <1>5, <2>3
    <3>2. upStream' = upStream /\ order' = w
      BY <1>0, <1>3
    <3> QED BY <3>1, <3>2
  <2>6. (\A i \in DOMAIN walk : ToSet(upStream[walk[i].task]) \subseteq ToSet(order))'
    BY <1>0, <1>3, <1>4, <2>2
  <2>7. (\A c \in Configs \ Walked : upStream[c] = <<>>)'
    BY <1>0, <1>8, <2>4
  <2> QED BY <2>5, <2>6, <2>7 DEF UpstreamEarlier
<1>14. TasksParsed'
  <2>1. PICK T \in SUBSET Configs :
          /\ ParsedSet(T) /\ Walked \subseteq T
          /\ \A c \in T : phase = "graph" => pending[c] \/ status[c] # NoStatus
    BY <1>0, Frames DEF TasksKnown
  <2>2. ParsedSet(T)'
    BY <1>0, <1>9, <2>1 DEF ParsedSet
  <2> QED BY <1>0, <1>8, <2>1, <2>2 DEF TasksParsed
<1>15. ReferencesLinked'
  <2>1. /\ \A i \in DOMAIN order : \A k \in DOMAIN RefsOf(order[i]) :
             RefsOf(order[i])[k].to \in Walked /\ Linked(order[i], RefsOf(order[i])[k])
        /\ \A i \in DOMAIN walk : \A k \in 1 .. walk[i].next - 1 :
             RefsOf(walk[i].task)[k].to \in Walked /\ Linked(walk[i].task, RefsOf(walk[i].task)[k])
    BY <1>0, Frames DEF ReferencesLinked
  <2>2. Walked \subseteq Configs
    BY <1>0, Frames DEF Walked, Analyzing, ToSet
  <2>3. ASSUME NEW c \in Configs, NEW k, RefsOf(c)[k].to \in Walked, Linked(c, RefsOf(c)[k])
        PROVE  (RefsOf(c)[k].to \in Walked /\ Linked(c, RefsOf(c)[k]))'
    <3>0. PICK r : r = RefsOf(c)[k]
      OBVIOUS
    <3>1. PICK x \in Configs : r = RefsOf(c)[k] /\ x = r.to
      BY <2>2, <2>3, <3>0
    <3>2. RefsOf(c)[k]' = r /\ Reachable({x})' = Reachable({x})
      BY <3>1, <1>9
    <3>3. x \in ToSet(upStream[c])' \/ c \in Reachable({x})'
      BY <2>3, <3>1, <3>2, <1>0 DEF Linked
    <3> QED BY <2>3, <3>1, <3>2, <3>3, <1>8 DEF Linked
  <2>4. ASSUME NEW i \in 1 .. m + 1, NEW k \in DOMAIN RefsOf(w[i])'
        PROVE  (RefsOf(order[i])[k].to \in Walked /\ Linked(order[i], RefsOf(order[i])[k]))'
    <3>1. PICK c \in Configs : c = w[i] /\ order'[i] = c /\ (i \in 1 .. m => c = order[i])
                               /\ (i = m + 1 => c = t)
      <4>1. i = m + 1 \/ i \in 1 .. m
        BY <1>5
      <4>2. w[i] \in Configs
        BY <1>0, <1>2, <1>5, <4>1, Frames
      <4> QED BY <1>3, <1>5, <4>1, <4>2
    <3>2. k \in DOMAIN RefsOf(c)
      BY <3>1, <1>9
    <3>3. RefsOf(c)[k].to \in Walked /\ Linked(c, RefsOf(c)[k])
      <4>1. CASE i \in 1 .. m
        BY <2>1, <3>1, <3>2, <4>1, <1>5
      <4>2. CASE i = m + 1
        <5>1. c = walk[n].task /\ k \in 1 .. walk[n].next - 1 /\ n \in DOMAIN walk
          BY <3>1, <3>2, <4>2, <1>1, <1>2, <1>11
        <5> QED BY <5>1, <2>1
      <4> QED BY <4>1, <4>2, <1>5
    <3>4. (RefsOf(c)[k].to \in Walked /\ Linked(c, RefsOf(c)[k]))'
      BY <2>3, <3>3
    <3> QED BY <3>1, <3>4
  <2>5. ASSUME NEW i \in 1 .. n - 1, NEW k \in 1 .. v[i].next - 1
        PROVE  (RefsOf(walk[i].task)[k].to \in Walked /\ Linked(walk[i].task, RefsOf(walk[i].task)[k]))'
    <3>2. PICK c \in Configs : c = v[i].task /\ c = walk[i].task /\ c = walk'[i].task
      BY <1>3, <1>4, <1>6, <1>10
    <3>3. RefsOf(c)[k].to \in Walked /\ Linked(c, RefsOf(c)[k])
      BY <2>1, <3>2, <1>2, <1>4, <1>6
    <3>4. (RefsOf(c)[k].to \in Walked /\ Linked(c, RefsOf(c)[k]))'
      BY <2>3, <3>3
    <3> QED BY <3>2, <3>4
  <2> QED BY <1>3, <1>4, <1>5, <2>4, <2>5 DEF ReferencesLinked
<1> QED BY <1>12, <1>13, <1>14, <1>15 DEF GraphInv

(* Every step keeps the graph.                                             *)
LEMMA GraphInvNext ==
  ASSUME BuildInv, BuildNext
  PROVE  GraphInv'
<1> USE DEF BuildInv
<1>1. ASSUME phase \notin {"start", "graph"}
      PROVE  walk = <<>>
  BY <1>1 DEF PhaseOK
<1>2. CASE Edit
  <2>1. UNCHANGED <<order, walk, upStream, parsed, phase, needs, pending, status>>
    BY <1>2 DEF Edit, EditSource, EditReferences, taskVars
  <2>2. Settled' <=> Settled
    BY <2>1 DEF Settled
  <2>3. walk # <<>> => Settled'
    BY <2>1 DEF PhaseOK, Settled
  <2> QED BY <2>1, <2>2, <2>3, GraphKept
<1>3. CASE StartBuild \/ Regenerate
  BY <1>3, GraphStarted DEF StartBuild, Regenerate
<1>4. CASE LinkReference \/ DropReference \/ EnterReference \/ CompleteTask
  BY <1>4, GraphLinked, GraphDropped, GraphEntered, GraphCompleted
<1>5. ASSUME UNCHANGED <<order, walk, upStream, parsed>>, phase \notin {"start", "graph"}, Settled,
             phase' # "graph"
      PROVE  GraphInv'
  BY <1>1, <1>5, GraphKept
<1>6. CASE (ReportOnly \/ SkipProject \/ BuildProject \/ Report) /\ UNCHANGED walk
  BY <1>5, <1>6 DEF ReportOnly, SkipProject, BuildProject, Report, Unblock, Settled
<1>7. CASE (UpdateWatch \/ Wake) /\ UNCHANGED walk
  BY <1>5, <1>7 DEF UpdateWatch, Wake, taskVars, Settled
<1>8. CASE (NothingToDo \/ Rebuild) /\ UNCHANGED walk
  BY <1>5, <1>8 DEF NothingToDo, Rebuild, BuildOrClean, taskVars, Settled
<1>9. CASE HasUpdate /\ UNCHANGED walk
  <2>1. UNCHANGED <<order, walk, upStream>> /\ phase = "check" /\ phase' # "graph"
    BY <1>9 DEF HasUpdate
  <2>2. ASSUME Settled'
        PROVE  Settled /\ parsed' = parsed
    <3>1. "config" \notin needs'
      BY <1>9, <2>2 DEF HasUpdate, Settled
    <3>2. "config" \notin needs
      BY <1>9, <3>1 DEF HasUpdate
    <3>3. parsed' = parsed
      BY <1>9, <3>1 DEF HasUpdate
    <3> QED BY <2>1, <3>2, <3>3 DEF Settled
  <2> QED BY <1>1, <2>1, <2>2, GraphKept
<1> QED BY <1>2, <1>3, <1>4, <1>6, <1>7, <1>8, <1>9 DEF BuildNext, Orchestrate

-----------------------------------------------------------------------------
(* The phases.                                                             *)

(* Each step goes to the phase that its effects belong to.                 *)
LEMMA PhaseNext ==
  ASSUME BuildInv, BuildNext
  PROVE  PhaseOK'
<1> USE DEF BuildInv
<1>0. /\ order \in Seq(Configs) /\ Len(order) \in Nat /\ pos \in Nat /\ pos >= 1
      /\ DOMAIN order = 1 .. Len(order)
  BY DEF BuildTypeOK, ThreadTypes
<1>1. CASE Edit
  <2>1. UNCHANGED <<phase, walk, order, pos, parsed, mCfg>>
    BY <1>1 DEF Edit, EditSource, EditReferences
  <2> QED BY <2>1 DEF PhaseOK
<1>2. CASE StartBuild \/ Regenerate
  <2>1. phase' = "graph" /\ walk' = <<Frame(Root, FALSE)>> /\ pos' = 1
    BY <1>2 DEF StartBuild, Regenerate, GenerateGraph
  <2> QED BY <2>1 DEF PhaseOK
<1>3. CASE LinkReference \/ DropReference
  <2>1. phase = "graph" /\ walk' = Advance /\ UNCHANGED <<phase, pos>>
    BY <1>3 DEF LinkReference, DropReference
  <2>2. walk' # <<>>
    BY <2>1, TopTask, WalkSteps DEF Advance, PhaseOK
  <2> QED BY <2>1, <2>2 DEF PhaseOK
<1>4. CASE EnterReference
  <2>1. phase = "graph" /\ UNCHANGED <<phase, pos>>
    BY <1>4 DEF EnterReference
  <2>2. walk' # <<>>
    BY <1>4, <2>1, TopTask DEF EnterReference
  <2> QED BY <2>1, <2>2 DEF PhaseOK
<1>5. CASE CompleteTask
  <2>1. /\ phase = "graph" /\ walk' = SubSeq(walk, 1, Len(walk) - 1)
        /\ order' = Append(order, Top.task)
        /\ IF Len(walk) = 1 THEN phase' \in {"build", "watch"} /\ pos' = 1
           ELSE phase' = "graph" /\ pos' = pos
    BY <1>5 DEF CompleteTask, BuildOrClean
  <2>2. walk' = <<>> <=> Len(walk) = 1
    BY <2>1, TopTask, WalkSteps DEF PhaseOK
  <2>3. order' # <<>> /\ Len(order') = Len(order) + 1
    BY <2>1, <1>0, TopTask
  <2> QED BY <1>0, <2>1, <2>2, <2>3 DEF PhaseOK
<1>6. ASSUME UNCHANGED <<walk, order>>, phase \notin {"start", "graph"}, phase' \in {"report", "build", "watch", "sleep"},
             phase' \in {"build", "report"} => pos' <= Len(order),
             phase' = "sleep" => pos' = 1
      PROVE  PhaseOK'
  BY <1>6 DEF PhaseOK
<1>7. CASE (ReportOnly \/ SkipProject \/ BuildProject) /\ UNCHANGED walk
  <2>1. UNCHANGED <<walk, order, pos>> /\ phase = "build" /\ phase' = "report"
    BY <1>7 DEF ReportOnly, SkipProject, BuildProject, Unblock
  <2> QED BY <1>6, <2>1 DEF PhaseOK
<1>8. CASE Report /\ UNCHANGED walk
  <2>1. UNCHANGED <<walk, order>> /\ phase = "report" /\ pos' = pos + 1
        /\ phase' = IF pos = Len(order) THEN "watch" ELSE "build"
    BY <1>8 DEF Report
  <2>2. pos <= Len(order)
    BY <2>1 DEF PhaseOK
  <2>3. phase' = "build" \/ phase' = "report" => pos' <= Len(order)
    <3>1. CASE pos = Len(order)
      BY <2>1, <3>1
    <3>2. CASE pos # Len(order)
      <4>1. PICK n \in Nat, p \in Nat : n = Len(order) /\ p = pos
        BY <1>0
      <4>2. p <= n /\ p # n /\ pos' = p + 1
        BY <2>1, <2>2, <3>2, <4>1
      <4>3. p + 1 <= n
        BY <4>2
      <4> QED BY <4>1, <4>2, <4>3
    <3> QED BY <3>1, <3>2
  <2>4. phase' = "watch" \/ phase' = "build"
    BY <2>1
  <2> QED BY <1>6, <2>1, <2>3, <2>4
<1>9. CASE (UpdateWatch \/ NothingToDo) /\ UNCHANGED walk
  BY <1>6, <1>9 DEF UpdateWatch, NothingToDo
<1>10. CASE Rebuild /\ UNCHANGED walk
  <2>1. UNCHANGED <<walk, order>> /\ phase = "decide" /\ pos' = 1 /\ phase' \in {"watch", "build"}
    BY <1>10 DEF Rebuild, BuildOrClean
  <2>2. 1 <= Len(order)
    BY <1>0, <2>1, EmptySeq DEF PhaseOK
  <2> QED BY <1>6, <2>1, <2>2
<1>11. CASE Wake /\ UNCHANGED walk
  <2>1. UNCHANGED <<walk, order, pos, mCfg>> /\ phase = "sleep" /\ phase' = "check"
    BY <1>11 DEF Wake
  <2>2. pos = 1 /\ order # <<>> /\ walk = <<>>
    BY <2>1 DEF PhaseOK
  <2>3. 1 <= Len(order)
    BY <1>0, <2>2, EmptySeq
  <2>4. \A i \in 1 .. Len(order) : ~(i < 1)
    BY <1>0
  <2> QED BY <2>1, <2>2, <2>3, <2>4 DEF PhaseOK
<1>12. CASE HasUpdate /\ UNCHANGED walk
  <2>1. /\ UNCHANGED <<walk, order>> /\ phase = "check" /\ pos' = pos + 1
        /\ phase' = IF pos = Len(order) THEN "decide" ELSE "check"
        /\ mCfg' = [mCfg EXCEPT ![Current] = TimeOf(@, cfgTime[Current])]
    BY <1>12 DEF HasUpdate
  <2>2. pos <= Len(order) /\ order # <<>> /\ walk = <<>>
    BY <2>1 DEF PhaseOK
  <2>3. Current \in Configs /\ Current = order[pos]
    BY <2>1, CurrentTask
  <2>4. mCfg'[Current] # NoTime
    BY <2>1, <2>3 DEF TimeOf, BuildTypeOK, DiskTypes, ThreadTypes, Time, NoTime
  <2>5. ASSUME NEW i \in 1 .. Len(order), i <= pos
        PROVE  mCfg'[order[i]] # NoTime
    <3>1. order[i] \in Configs
      BY <1>0
    <3>2. CASE order[i] = Current
      BY <2>4, <3>2
    <3>3. CASE order[i] # Current
      <4>1. i < pos
        BY <1>0, <2>3, <2>5, <3>3
      <4>2. mCfg[order[i]] # NoTime
        BY <2>1, <4>1 DEF PhaseOK
      <4> QED BY <2>1, <2>3, <3>1, <3>3, <4>2 DEF BuildTypeOK, ThreadTypes
    <3> QED BY <3>2, <3>3
  <2>6. \A i \in 1 .. Len(order) : phase' = "decide" \/ i < pos' => i <= pos
    <3>1. CASE pos = Len(order)
      BY <3>1
    <3>2. CASE pos # Len(order)
      <4>1. phase' # "decide" /\ pos' = pos + 1
        BY <2>1, <3>2
      <4> QED BY <4>1, <1>0
    <3> QED BY <3>1, <3>2
  <2>7. \A i \in 1 .. Len(order) : phase' = "decide" \/ i < pos' => mCfg'[order[i]] # NoTime
    BY <2>5, <2>6
  <2>8. phase' = "check" => pos' <= Len(order)
    <3>1. CASE pos = Len(order)
      BY <2>1, <3>1
    <3>2. CASE pos # Len(order)
      <4>1. PICK n \in Nat, p \in Nat : n = Len(order) /\ p = pos
        BY <1>0
      <4>2. p <= n /\ p # n /\ pos' = p + 1
        BY <2>1, <2>2, <3>2, <4>1
      <4>3. p + 1 <= n
        BY <4>2
      <4> QED BY <4>1, <4>2, <4>3
    <3> QED BY <3>1, <3>2
  <2>9. phase' = "check" \/ phase' = "decide"
    BY <2>1
  <2> QED BY <2>1, <2>2, <2>7, <2>8, <2>9 DEF PhaseOK
<1> QED
  BY <1>1, <1>2, <1>3, <1>4, <1>5, <1>7, <1>8, <1>9, <1>10, <1>11, <1>12 DEF BuildNext, Orchestrate

(* Each task reports after the one before it.                              *)
LEMMA ReportersNext ==
  ASSUME BuildInv, BuildNext
  PROVE  ReportersOK'
<1> USE DEF BuildInv
<1>1. CASE StartBuild \/ Regenerate
  <2>1. order' = <<>>
    BY <1>1 DEF StartBuild, Regenerate, GenerateGraph
  <2> QED BY <2>1 DEF ReportersOK
<1>2. CASE CompleteTask
  <2>1. PICK m, t : m = Len(order) /\ t = Top.task
    OBVIOUS
  <2>2. /\ phase = "graph" /\ order' = Append(order, t)
        /\ prevReporter' = [prevReporter EXCEPT ![t] = IF order = <<>> THEN @ ELSE order[m]]
    BY <1>2, <2>1 DEF CompleteTask
  <2>3. /\ m \in Nat /\ order \in Seq(Configs) /\ t \in Configs
        /\ DOMAIN order = 1 .. m /\ t \notin ToSet(order)
    <3>1. Top = walk[Len(walk)] /\ Len(walk) \in DOMAIN walk /\ Top.task \in Configs
      BY <2>2, TopTask
    <3>2. t \notin ToSet(order)
      BY <2>1, <3>1 DEF WalkOK
    <3>3. order \in Seq(Configs)
      BY DEF BuildTypeOK, ThreadTypes
    <3> QED BY <2>1, <3>1, <3>2, <3>3
  <2>4. /\ \A i \in 1 .. m : order'[i] = order[i] /\ order[i] \in Configs /\ order[i] # t
        /\ order'[m + 1] = t /\ Len(order') = m + 1
    BY <2>1, <2>2, <2>3 DEF ToSet
  <2>5. ASSUME NEW i \in 2 .. m + 1
        PROVE  prevReporter'[order'[i]] = order'[i - 1]
    <3>1. CASE i \in 2 .. m
      <4>1. i \in 1 .. m /\ i - 1 \in 1 .. m
        BY <3>1, <2>3
      <4>2. prevReporter[order[i]] = order[i - 1]
        BY <2>1, <3>1 DEF ReportersOK
      <4> QED BY <2>2, <2>4, <4>1, <4>2 DEF BuildTypeOK, TaskTypes
    <3>2. CASE i = m + 1
      <4>1. m \in 1 .. m /\ order # <<>> /\ i - 1 = m
        BY <3>2, <2>3, <2>1
      <4>2. prevReporter'[t] = order[m]
        BY <2>2, <2>3, <4>1 DEF BuildTypeOK, TaskTypes
      <4> QED BY <2>4, <3>2, <4>1, <4>2
    <3> QED BY <2>3, <3>1, <3>2
  <2> QED BY <2>4, <2>5 DEF ReportersOK
<1>3. ASSUME UNCHANGED <<order, prevReporter>>
      PROVE  ReportersOK'
  BY <1>3 DEF ReportersOK
<1>4. CASE Edit
  BY <1>3, <1>4 DEF Edit, EditSource, EditReferences, taskVars
<1>5. CASE LinkReference \/ DropReference \/ EnterReference
  BY <1>3, <1>5 DEF LinkReference, DropReference, EnterReference, taskVars
<1>6. CASE ReportOnly \/ SkipProject \/ BuildProject \/ Report
  BY <1>3, <1>6 DEF ReportOnly, SkipProject, BuildProject, Report
<1>7. CASE UpdateWatch \/ Wake \/ HasUpdate \/ NothingToDo \/ Rebuild
  BY <1>3, <1>7 DEF UpdateWatch, Wake, HasUpdate, NothingToDo, Rebuild, taskVars
<1> QED BY <1>1, <1>2, <1>4, <1>5, <1>6, <1>7 DEF BuildNext, Orchestrate

-----------------------------------------------------------------------------
(* Statuses and turns.                                                     *)

(* A task that is skipped or built has a status; only --stopBuildOnErrors  *)
(* blames an upstream project, and takes a status back from a task that is *)
(* told.                                                                   *)
LEMMA StatusKnown ==
  ASSUME BuildInv
  PROVE  /\ \A s \in StatusType : NoBuildNeeded(s) => s # NoStatus
         /\ \A s \in StatusType : s.kind \in {"buildErrors", "upToDate"} => s # NoStatus
         /\ \A c \in Configs : GetUpToDateStatus(c).kind = "upstreamErrors" => stopOnErrors
         /\ \A s \in StatusType : \A c \in Configs : \A b \in BOOLEAN :
              /\ DownstreamStatus(s, c, b) = NoStatus => s = NoStatus \/ s.kind = "upstreamErrors"
              /\ DownstreamStatus(s, c, b).kind = "upstreamErrors" => s.kind = "upstreamErrors"
<1> USE DEF BuildInv
<1>0. NoStatus.kind = "none" /\ St("inputFileNewer").kind = "inputFileNewer"
  BY DEF NoStatus, St
<1>1. \A s \in StatusType : NoBuildNeeded(s) => s # NoStatus
  BY <1>0 DEF NoBuildNeeded
<1>2. \A s \in StatusType : s.kind \in {"buildErrors", "upToDate"} => s # NoStatus
  BY <1>0
<1>3. ASSUME NEW c \in Configs, GetUpToDateStatus(c).kind = "upstreamErrors"
      PROVE  stopOnErrors
  <2>1. CASE status[c] # NoStatus
    <3>1. GetUpToDateStatus(c) = status[c]
      BY <2>1 DEF GetUpToDateStatus
    <3> QED BY <1>3, <3>1 DEF TasksKnown
  <2>2. CASE status[c] = NoStatus /\ c \in Solutions
    <3>1. GetUpToDateStatus(c) = St("solution")
      BY <2>2 DEF GetUpToDateStatus
    <3> QED BY <1>3, <3>1 DEF St
  <2>3. CASE status[c] = NoStatus /\ c \notin Solutions /\ ~stopOnErrors
    <3>1. \/ GetUpToDateStatus(c) = St("inputFileNewer")
          \/ \E k \in {"upToDateWithUpstreamTypes", "upToDateWithInputFileText", "upToDate"} :
               GetUpToDateStatus(c) = [kind |-> k, ref |-> Root, input |-> InputTime(c)]
      BY <2>3 DEF GetUpToDateStatus
    <3> QED BY <1>3, <3>1, <1>0
  <2> QED BY <2>1, <2>2, <2>3
<1>4. ASSUME NEW s \in StatusType, NEW c \in Configs, NEW b \in BOOLEAN
      PROVE  /\ DownstreamStatus(s, c, b) = NoStatus => s = NoStatus \/ s.kind = "upstreamErrors"
             /\ DownstreamStatus(s, c, b).kind = "upstreamErrors" => s.kind = "upstreamErrors"
  <2>1. CASE s.kind \in {"upToDate", "upToDateWithUpstreamTypes", "upToDateWithInputFileText"}
    <3>1. DownstreamStatus(s, c, b) \in
            {s, St("inputFileNewer"), [s EXCEPT !.kind = "upToDateWithUpstreamTypes"]}
      BY <2>1 DEF DownstreamStatus
    <3>2. [s EXCEPT !.kind = "upToDateWithUpstreamTypes"].kind = "upToDateWithUpstreamTypes"
      BY DEF StatusType
    <3> QED BY <2>1, <3>1, <3>2, <1>0
  <2>2. CASE s.kind = "upstreamErrors"
    BY <2>2
  <2>3. CASE s.kind \notin {"upToDate", "upToDateWithUpstreamTypes", "upToDateWithInputFileText",
                            "upstreamErrors"}
    <3>1. DownstreamStatus(s, c, b) = s
      BY <2>3 DEF DownstreamStatus
    <3> QED BY <3>1
  <2> QED BY <2>1, <2>2, <2>3
<1> QED BY <1>1, <1>2, <1>3, <1>4

(* What the turn of a task does to another one.                            *)
TurnLeaves(d) ==
  \/ status'[d] = status[d] /\ pending'[d] = pending[d]
  \/ /\ d \in downStream[Current] /\ pending'[d]
     /\ status'[d] = NoStatus => status[d] = NoStatus \/ stopOnErrors
     /\ status'[d].kind = "upstreamErrors" => stopOnErrors

(* After its turn a task has a status and is done.                         *)
LEMMA Turn ==
  ASSUME BuildInv, ReportOnly \/ SkipProject \/ BuildProject
  PROVE  /\ phase = "build" /\ phase' = "report"
         /\ UNCHANGED <<order, pos, downStream, reportDone>>
         /\ done' = [done EXCEPT ![Current] = TRUE]
         /\ status'[Current] # NoStatus
         /\ status'[Current].kind = "upstreamErrors" => stopOnErrors
         /\ \A d \in Configs \ {Current} : TurnLeaves(d)
<1> USE DEF BuildInv
<1>1. /\ phase = "build" /\ phase' = "report"
      /\ UNCHANGED <<order, pos, downStream, reportDone>>
      /\ done' = [done EXCEPT ![Current] = TRUE]
  BY DEF ReportOnly, SkipProject, BuildProject, Unblock
<1>2. Current \in Configs /\ Current \in Tasks
  BY <1>1, CurrentTask
<1>3. status \in [Configs -> StatusType] /\ pending \in [Configs -> BOOLEAN]
  BY DEF BuildTypeOK, TaskTypes, StatusType
<1>4. \A d \in Configs : status[d].kind = "upstreamErrors" => stopOnErrors
  BY DEF TasksKnown
<1>5. CASE ReportOnly
  <2>1. UNCHANGED <<status, pending>> /\ ~pending[Current]
    BY <1>5 DEF ReportOnly
  <2>2. status[Current] # NoStatus
    BY <1>2, <2>1 DEF TasksKnown
  <2> QED BY <1>1, <1>2, <1>4, <2>1, <2>2 DEF TurnLeaves
<1>6. CASE SkipProject
  <2>1. PICK s, t : s = GetUpToDateStatus(Current) /\ t = [s EXCEPT !.kind = "upToDate"]
    OBVIOUS
  <2>2. s \in StatusType /\ t \in StatusType /\ t.kind = "upToDate"
    <3>1. s \in StatusType
      BY <1>2, <2>1, StatusTypes
    <3> QED BY <2>1, <3>1 DEF StatusType, StatusKinds
  <2>3. /\ NoBuildNeeded(s)
        /\ status' = [status EXCEPT ![Current] = s] \/ status' = [status EXCEPT ![Current] = t]
        /\ pending' = [pending EXCEPT ![Current] = FALSE]
    BY <1>6, <2>1 DEF SkipProject
  <2>4. s # NoStatus /\ t # NoStatus
    BY <2>2, <2>3, StatusKnown
  <2>5. s.kind = "upstreamErrors" => stopOnErrors
    BY <1>2, <2>1, StatusKnown
  <2>6. status'[Current] = s \/ status'[Current] = t
    BY <1>2, <1>3, <2>3
  <2>7. \A d \in Configs \ {Current} : status'[d] = status[d] /\ pending'[d] = pending[d]
    BY <1>2, <1>3, <2>3
  <2> QED BY <1>1, <2>2, <2>4, <2>5, <2>6, <2>7 DEF TurnLeaves
<1>7. CASE BuildProject
  <2>1. PICK r \in StatusType, told \in SUBSET downStream[Current], b \in BOOLEAN :
          BuildEffect(Current, r, told, b)
    BY <1>7, BuildTellsTasks
  <2>2. /\ r.kind \in {"buildErrors", "upToDate"} /\ status'[Current] = r
        /\ \A d \in Configs \ {Current} :
             IF d \in told THEN status'[d] = DownstreamStatus(status[d], Current, b) /\ pending'[d]
             ELSE status'[d] = status[d] /\ pending'[d] = pending[d]
    BY <1>2, <1>3, <2>1 DEF BuildEffect
  <2>3. r # NoStatus
    BY <2>1, <2>2, StatusKnown
  <2>4. ASSUME NEW d \in Configs \ {Current}
        PROVE  TurnLeaves(d)
    <3>1. CASE d \notin told
      BY <2>2, <3>1 DEF TurnLeaves
    <3>2. CASE d \in told
      <4>1. status[d] \in StatusType
        BY <1>3
      <4>2. /\ status'[d] = NoStatus => status[d] = NoStatus \/ status[d].kind = "upstreamErrors"
            /\ status'[d].kind = "upstreamErrors" => status[d].kind = "upstreamErrors"
        BY <1>2, <2>1, <2>2, <3>2, <4>1, StatusKnown
      <4> QED BY <1>4, <2>1, <2>2, <3>2, <4>2 DEF TurnLeaves
    <3> QED BY <3>1, <3>2
  <2> QED BY <1>1, <2>2, <2>3, <2>4
<1> QED BY <1>5, <1>6, <1>7

(* Every task has a status or is to get one.                               *)
LEMMA TasksKnownNext ==
  ASSUME BuildInv, BuildNext
  PROVE  TasksKnown'
<1> USE DEF BuildInv
<1> DEFINE Known == \A c \in Tasks : pending[c] \/ status[c] # NoStatus
           Blames == \A c \in Configs : status[c].kind = "upstreamErrors" => stopOnErrors
<1>1. SUFFICES Known' /\ Blames'
  <2>1. TasksParsed'
    BY GraphInvNext DEF GraphInv
  <2> QED BY <2>1 DEF TasksKnown, TasksParsed
<1>2. Known /\ Blames /\ stopOnErrors' = stopOnErrors
  BY DEF TasksKnown, BuildNext, Edit, Orchestrate
<1>3. ASSUME UNCHANGED <<order, pending, status>>
      PROVE  Known' /\ Blames'
  BY <1>2, <1>3 DEF Tasks
<1>4. CASE Edit
  BY <1>3, <1>4 DEF Edit, EditSource, EditReferences, taskVars
<1>5. CASE StartBuild \/ Regenerate
  <2>1. PICK first \in BOOLEAN : GenerateGraph(first)
    BY <1>5 DEF StartBuild, Regenerate
  <2>2. order' = <<>>
    BY <2>1 DEF GenerateGraph
  <2>3. PICK kept \in SUBSET (Reachable({Root}) \cap Tasks) :
          status' = [c \in Configs |-> IF c \in kept THEN status[c] ELSE NoStatus]
    BY <2>1, GraphTasks
  <2>4. Tasks' = {}
    BY <2>2 DEF Tasks, ToSet
  <2> QED BY <1>2, <2>3, <2>4 DEF NoStatus, St
<1>6. CASE LinkReference \/ DropReference \/ EnterReference
  BY <1>3, <1>6 DEF LinkReference, DropReference, EnterReference, taskVars
<1>7. CASE CompleteTask
  <2>1. phase = "graph" /\ order' = Append(order, Top.task) /\ UNCHANGED <<pending, status>>
    BY <1>7 DEF CompleteTask
  <2>2. Top.task \in Walked /\ Top.task \in Configs /\ order \in Seq(Configs) /\ Settled
    BY <2>1, TopTask, Frames DEF Walked
  <2>3. Tasks' = Tasks \cup {Top.task}
    BY <2>1, <2>2, Members DEF Tasks
  <2>4. pending[Top.task] \/ status[Top.task] # NoStatus
    BY <2>1, <2>2 DEF TasksKnown
  <2> QED BY <1>2, <2>1, <2>3, <2>4
<1>8. CASE ReportOnly \/ SkipProject \/ BuildProject
  <2>1. /\ order' = order /\ status'[Current] # NoStatus
        /\ status'[Current].kind = "upstreamErrors" => stopOnErrors
        /\ \A d \in Configs \ {Current} : TurnLeaves(d)
    BY <1>8, Turn
  <2>2. Tasks' = Tasks /\ Tasks \subseteq Configs
    BY <2>1, Members, RootAssumption DEF Tasks, BuildTypeOK, ThreadTypes
  <2>3. Known'
    BY <1>2, <2>1, <2>2 DEF TurnLeaves
  <2>4. Blames'
    BY <1>2, <2>1 DEF TurnLeaves
  <2> QED BY <2>3, <2>4
<1>9. CASE HasUpdate
  <2>1. PICK c \in Configs, updated \in BOOLEAN :
          /\ status' = [status EXCEPT ![c] = IF updated THEN NoStatus ELSE @]
          /\ pending' = [pending EXCEPT ![c] = @ \/ updated]
          /\ order' = order
    <3>1. Current \in Configs
      BY <1>9, CurrentTask DEF HasUpdate
    <3>2. PICK updated \in BOOLEAN :
            updated = (Current \notin Solutions /\ TimeOf(mSrc[Current], srcTime[Current]) # watchSrc[Current])
      OBVIOUS
    <3> QED BY <1>9, <3>1, <3>2 DEF HasUpdate
  <2>2. status \in [Configs -> StatusType] /\ pending \in [Configs -> BOOLEAN]
    BY DEF BuildTypeOK, TaskTypes, StatusType
  <2>3. Tasks' = Tasks /\ Tasks \subseteq Configs
    BY <2>1, Members, RootAssumption DEF Tasks, BuildTypeOK, ThreadTypes
  <2>4. ASSUME NEW d \in Configs
        PROVE  /\ pending[d] => pending'[d]
               /\ status'[d] = status[d] \/ (status'[d] = NoStatus /\ pending'[d])
    <3>1. pending'[d] = (pending[d] \/ (d = c /\ updated))
      BY <2>1, <2>2
    <3>2. status'[d] = IF d = c /\ updated THEN NoStatus ELSE status[d]
      BY <2>1, <2>2
    <3> QED BY <3>1, <3>2
  <2>5. Known'
    BY <1>2, <2>3, <2>4
  <2>6. Blames'
    BY <1>2, <2>4 DEF NoStatus, St
  <2> QED BY <2>5, <2>6
<1>10. CASE Report \/ UpdateWatch \/ Wake \/ NothingToDo \/ Rebuild
  BY <1>3, <1>10 DEF Report, UpdateWatch, Wake, NothingToDo, Rebuild, taskVars
<1> QED BY <1>4, <1>5, <1>6, <1>7, <1>8, <1>9, <1>10 DEF BuildNext, Orchestrate

(* What a turn is over for stays over.                                     *)
LEMMA TurnsOverNext ==
  ASSUME BuildInv, BuildNext
  PROVE  TurnsOver'
<1> USE DEF BuildInv
<1>0. stopOnErrors' = stopOnErrors
  BY DEF BuildNext, Edit, Orchestrate
<1>1. ASSUME phase' \notin {"build", "report"}
      PROVE  TurnsOver'
  BY <1>1 DEF TurnsOver
<1>2. ASSUME phase' = "build", pos' = 1
      PROVE  TurnsOver'
  <2>1. Turns' = 0 /\ pos' - 1 = 0
    BY <1>2 DEF Turns
  <2> QED BY <2>1 DEF TurnsOver
<1>3. CASE Edit
  <2>1. UNCHANGED <<phase, pos, order, done, reportDone, status, downStream>>
    BY <1>3 DEF Edit, EditSource, EditReferences, taskVars
  <2>2. Turns' = Turns
    BY <2>1 DEF Turns
  <2> QED BY <1>0, <2>1, <2>2 DEF TurnsOver, Told
<1>4. CASE StartBuild \/ Regenerate
  BY <1>1, <1>4 DEF StartBuild, Regenerate, GenerateGraph
<1>5. CASE LinkReference \/ DropReference \/ EnterReference
  BY <1>1, <1>5 DEF LinkReference, DropReference, EnterReference
<1>6. CASE CompleteTask
  <2>1. phase = "graph" /\ (phase' = phase \/ phase' = "watch" \/ (phase' = "build" /\ pos' = 1))
    BY <1>6 DEF CompleteTask, BuildOrClean
  <2> QED BY <1>1, <1>2, <2>1
<1>7. CASE Rebuild
  <2>1. phase' = "watch" \/ (phase' = "build" /\ pos' = 1)
    BY <1>7 DEF Rebuild, BuildOrClean
  <2> QED BY <1>1, <1>2, <2>1
<1>8. CASE UpdateWatch \/ Wake \/ HasUpdate \/ NothingToDo
  <2>1. phase' \in {"sleep", "check", "decide"}
    BY <1>8 DEF UpdateWatch, Wake, HasUpdate, NothingToDo
  <2> QED BY <1>1, <2>1
<1>9. CASE ReportOnly \/ SkipProject \/ BuildProject
  <2>1. /\ phase = "build" /\ phase' = "report"
        /\ UNCHANGED <<order, pos, downStream, reportDone>>
        /\ done' = [done EXCEPT ![Current] = TRUE]
        /\ status'[Current] # NoStatus
        /\ \A d \in Configs \ {Current} : TurnLeaves(d)
    BY <1>9, Turn
  <2>2. PICK n \in Nat, p \in Nat : n = Len(order) /\ p = pos /\ p >= 1 /\ p <= n
    BY <2>1, CurrentTask DEF BuildTypeOK, ThreadTypes
  <2>3. Turns = p - 1 /\ Turns' = p /\ Current = order[p] /\ pos' = p
    BY <2>1, <2>2 DEF Turns, Current
  <2>4. \A j \in 1 .. n : order[j] \in Configs
    BY <2>2 DEF BuildTypeOK, ThreadTypes
  <2>5. \A j \in 1 .. p : j \in 1 .. n /\ (j \in 1 .. p - 1 \/ j = p)
    BY <2>2
  <2>6. /\ \A j \in 1 .. p - 1 : done[order[j]] /\ reportDone[order[j]]
        /\ \A j \in 1 .. p - 1 : status[order[j]] # NoStatus \/ (stopOnErrors /\ Told(order[j], p - 1))
    BY <2>1, <2>2, <2>3 DEF TurnsOver
  <2>7. \A j \in 1 .. p : done'[order[j]]
    BY <2>1, <2>3, <2>4, <2>5, <2>6 DEF BuildTypeOK, TaskTypes
  <2>8. ASSUME NEW j \in 1 .. p
        PROVE  status'[order[j]] # NoStatus \/ (stopOnErrors /\ Told(order[j], p)')
    <3>1. PICK u \in Configs : u = order[j]
      BY <2>4, <2>5
    <3>2. CASE u = Current
      BY <2>1, <3>1, <3>2
    <3>3. CASE u # Current
      <4>1. j \in 1 .. p - 1 /\ p \in 1 .. p
        BY <2>2, <2>3, <2>5, <3>1, <3>3
      <4>2. CASE status[u] # NoStatus \/ ~stopOnErrors
        <5>1. status[u] # NoStatus
          BY <2>6, <3>1, <4>1, <4>2
        <5>2. status'[u] = NoStatus => u \in downStream[order[p]] /\ stopOnErrors
          BY <2>1, <2>3, <3>3, <5>1 DEF TurnLeaves
        <5>3. u \in downStream[order[p]] => Told(u, p)'
          BY <2>1, <3>1, <4>1 DEF Told
        <5> QED BY <2>1, <3>1, <5>2, <5>3 DEF Told
      <4>3. CASE status[u] = NoStatus /\ stopOnErrors
        <5>1. Told(u, p - 1)
          BY <2>6, <3>1, <4>1, <4>3
        <5>2. PICK i \in 1 .. p - 1 : u \in downStream[order[i]] /\ \E k \in 1 .. i - 1 : order[k] = u
          BY <5>1 DEF Told
        <5>3. i \in 1 .. p
          BY <2>2
        <5>4. Told(u, p)'
          BY <2>1, <5>2, <5>3 DEF Told
        <5> QED BY <2>1, <3>1, <4>3, <5>4 DEF Told
      <4> QED BY <4>2, <4>3
    <3> QED BY <3>2, <3>3
  <2>9. \A j \in 1 .. p - 1 : reportDone'[order[j]]
    BY <2>1, <2>6
  <2>10. \A j \in 1 .. p : (status[order[j]] # NoStatus \/ (stopOnErrors /\ Told(order[j], p)))'
    BY <1>0, <2>1, <2>2, <2>8 DEF Told
  <2> QED BY <2>1, <2>3, <2>7, <2>9, <2>10 DEF TurnsOver, Told
<1>10. CASE Report
  <2>1. /\ phase = "report" /\ pos' = pos + 1 /\ phase' \in {"watch", "build"}
        /\ UNCHANGED <<order, done, downStream, status>>
        /\ reportDone' = [reportDone EXCEPT ![Current] = TRUE]
    BY <1>10 DEF Report
  <2>2. PICK n \in Nat, p \in Nat : n = Len(order) /\ p = pos /\ p >= 1 /\ p <= n
    BY <2>1, CurrentTask DEF BuildTypeOK, ThreadTypes
  <2>3. Turns = p /\ Turns' = p /\ Current = order[p] /\ pos' - 1 = p
    BY <2>1, <2>2 DEF Turns, Current
  <2>4. \A j \in 1 .. n : order[j] \in Configs
    BY <2>2 DEF BuildTypeOK, ThreadTypes
  <2>5. \A j \in 1 .. p : j \in 1 .. n /\ (j \in 1 .. p - 1 \/ j = p)
    BY <2>2
  <2>6. /\ \A j \in 1 .. p : done[order[j]]
        /\ \A j \in 1 .. p - 1 : reportDone[order[j]]
        /\ \A j \in 1 .. p : status[order[j]] # NoStatus \/ (stopOnErrors /\ Told(order[j], p))
    BY <2>1, <2>2, <2>3 DEF TurnsOver
  <2>7. \A j \in 1 .. p : reportDone'[order[j]]
    BY <2>1, <2>3, <2>4, <2>5, <2>6 DEF BuildTypeOK, TaskTypes
  <2>8. \A j \in 1 .. p : (status[order[j]] # NoStatus \/ (stopOnErrors /\ Told(order[j], p)))'
    BY <1>0, <2>1, <2>6 DEF Told
  <2> QED BY <2>1, <2>3, <2>6, <2>7, <2>8 DEF TurnsOver, Told
<1> QED BY <1>3, <1>4, <1>5, <1>6, <1>7, <1>8, <1>9, <1>10 DEF BuildNext, Orchestrate

-----------------------------------------------------------------------------
(* Configs.                                                                *)

(* Times of configs are not ahead of the clock.                            *)
TimesPast(c) == cfgTime[c] <= clock /\ mCfg[c] <= clock /\ watchCfg[c] <= clock

(* A config is parsed as it is, or not at all, or was missed.              *)
ParseGood(c) == parsed[c] = Unparsed \/ parsed[c] = {refs[c]} \/ <<"config", c>> \in missed

(* No step records a time of a config that is ahead of the clock.          *)
LEMMA TimesPastNext ==
  ASSUME BuildInv, BuildNext, NEW c \in Configs
  PROVE  TimesPast(c)'
<1> USE DEF BuildInv
<1>1. /\ cfgTime \in [Configs -> Time] /\ clock \in Nat
      /\ mCfg \in [Configs -> Time \cup {NoTime}] /\ watchCfg \in [Configs -> Time \cup {NoTime}]
      /\ cfgTime[c] \in Int /\ mCfg[c] \in Int /\ watchCfg[c] \in Int /\ NoTime <= clock
  BY ClockAssumption DEF BuildTypeOK, DiskTypes, ThreadTypes, TaskTypes, Time, NoTime
<1>2. TimesPast(c)
  BY DEF ConfigsSeen, TimesPast
<1>3. ASSUME Edit
      PROVE  TimesPast(c)'
  <2>1. /\ clock' = clock + 1 /\ UNCHANGED <<mCfg, watchCfg>>
        /\ cfgTime'[c] = cfgTime[c] \/ cfgTime'[c] = clock + 1
    BY <1>1, <1>3 DEF Edit, EditSource, EditReferences, Edited, taskVars
  <2> QED BY <1>1, <1>2, <2>1 DEF TimesPast
<1>4. ASSUME Orchestrate
      PROVE  TimesPast(c)'
  <2>1. UNCHANGED <<cfgTime, clock>>
    BY <1>4, ThreadKeepsFiles
  <2>2. mCfg'[c] \in {mCfg[c], cfgTime[c], NoTime}
    <3>1. mCfg' = mCfg \/ mCfg' = [d \in Configs |-> NoTime]
            \/ \E d, e : mCfg' = [mCfg EXCEPT ![d] = e] /\ e \in {mCfg[d], cfgTime[d]}
      BY <1>4 DEF Orchestrate, StartBuild, Regenerate, GenerateGraph, LinkReference, DropReference,
       EnterReference, CompleteTask, ReportOnly, SkipProject, BuildProject, Report, UpdateWatch,
       Wake, HasUpdate, NothingToDo, Rebuild, ReadTimes, TimeOf
    <3> QED BY <1>1, <3>1
  <2>3. watchCfg'[c] \in {watchCfg[c], mCfg[c], cfgTime[c], NoTime}
    <3>1. CASE StartBuild \/ Regenerate
      <4>1. PICK first \in BOOLEAN : GenerateGraph(first)
        BY <3>1 DEF StartBuild, Regenerate
      <4>2. \E kept : watchCfg' = [d \in Configs |-> IF d \in kept THEN watchCfg[d] ELSE NoTime]
        BY <4>1, GraphTasks
      <4> QED BY <4>2
    <3>2. CASE UpdateWatch
      BY <3>2 DEF UpdateWatch, TimeOf
    <3>3. CASE LinkReference \/ DropReference \/ EnterReference \/ CompleteTask
      BY <3>3 DEF LinkReference, DropReference, EnterReference, CompleteTask, taskVars
    <3>4. CASE ReportOnly \/ SkipProject \/ BuildProject \/ Report
      BY <3>4 DEF ReportOnly, SkipProject, BuildProject, Report
    <3>5. CASE Wake \/ HasUpdate \/ NothingToDo \/ Rebuild
      BY <3>5 DEF Wake, HasUpdate, NothingToDo, Rebuild, taskVars
    <3> QED BY <1>4, <3>1, <3>2, <3>3, <3>4, <3>5 DEF Orchestrate
  <2> QED BY <1>1, <1>2, <2>1, <2>2, <2>3 DEF TimesPast
<1> QED BY <1>3, <1>4 DEF BuildNext

(* An edit of a config is missed, or will be found.                        *)
LEMMA ConfigsSeenEdit ==
  ASSUME BuildInv, NEW d \in Configs, NEW rs \in Layouts(d), EditReferences(d, rs), NEW c \in Configs
  PROVE  ParseGood(c)' \/ (c \in Tasks /\ Noticed(c))'
<1> USE DEF BuildInv
<1>1. /\ UNCHANGED <<phase, order, parsed, mCfg, watchCfg>> /\ clock' = clock + 1
      /\ refs' = [refs EXCEPT ![d] = rs] /\ cfgTime' = [cfgTime EXCEPT ![d] = clock + 1]
      /\ missed' = IF InTime("config", d, mCfg[d]) THEN missed \ {<<"config", d>>}
                   ELSE missed \cup {<<"config", d>>}
  BY DEF EditReferences, Edited, taskVars
<1>2. ParseGood(c) \/ (c \in Tasks /\ Noticed(c))
  BY DEF ConfigsSeen, ParseGood
<1>3. Tasks' = Tasks
  BY <1>1 DEF Tasks
<1>4. CASE c # d
  <2>1. refs'[c] = refs[c] /\ cfgTime'[c] = cfgTime[c]
    BY <1>1, <1>4 DEF BuildTypeOK, DiskTypes
  <2>2. <<"config", c>> \in missed => <<"config", c>> \in missed'
    BY <1>1, <1>4
  <2> QED BY <1>1, <1>2, <1>3, <2>1, <2>2 DEF ParseGood, Noticed
<1>5. CASE c = d /\ ~InTime("config", d, mCfg[d])
  BY <1>1, <1>5 DEF ParseGood
<1>6. CASE c = d /\ InTime("config", d, mCfg[d])
  <2>1. cfgTime'[c] = clock + 1
    BY <1>1, <1>6 DEF BuildTypeOK, DiskTypes
  <2>2. mCfg[c] # clock + 1 /\ watchCfg[c] # clock + 1
    <3>1. mCfg[c] <= clock /\ watchCfg[c] <= clock
      BY DEF ConfigsSeen
    <3>2. mCfg[c] \in Int /\ watchCfg[c] \in Int /\ clock \in Int
      BY ClockAssumption DEF BuildTypeOK, DiskTypes, ThreadTypes, TaskTypes, Time, NoTime
    <3> QED BY <3>1, <3>2
  <2>3. CASE phase = "start"
    BY <1>1, <2>3 DEF PhaseOK, ParseGood
  <2>4. CASE phase # "start"
    <3>1. /\ c \in Tasks
          /\ \/ phase \in {"sleep", "check"} /\ mCfg[c] = NoTime
             \/ phase \in {"build", "report", "watch"} /\ mCfg[c] # NoTime
      BY <1>6, <2>4 DEF InTime
    <3> QED BY <1>1, <1>3, <2>1, <2>2, <3>1 DEF Noticed
  <2> QED BY <2>3, <2>4
<1> QED BY <1>4, <1>5, <1>6

(* A config is parsed as it is, was missed, or will be found.              *)
LEMMA ConfigsSeenNext ==
  ASSUME BuildInv, BuildNext
  PROVE  ConfigsSeen'
<1> USE DEF BuildInv
<1>1. SUFFICES ASSUME NEW c \in Configs
               PROVE  ParseGood(c)' \/ (c \in Tasks /\ Noticed(c))'
  <2>1. \A c \in Configs : TimesPast(c)'
    BY TimesPastNext
  <2> QED BY <2>1 DEF ConfigsSeen, ParseGood, TimesPast
<1>2. ParseGood(c) \/ (c \in Tasks /\ Noticed(c))
  BY DEF ConfigsSeen, ParseGood
<1>3. CASE Edit
  <2>1. ASSUME NEW d \in Configs, NEW x \in Content, EditSource(d, x)
        PROVE  ParseGood(c)' \/ (c \in Tasks /\ Noticed(c))'
    <3>1. UNCHANGED <<phase, order, parsed, mCfg, watchCfg, refs, cfgTime>>
      BY <2>1 DEF EditSource, taskVars
    <3>2. <<"config", c>> \in missed => <<"config", c>> \in missed'
      BY <2>1 DEF EditSource, Edited
    <3> QED BY <1>2, <3>1, <3>2 DEF ParseGood, Noticed, Tasks
  <2> QED BY <1>3, <2>1, ConfigsSeenEdit DEF Edit
<1>4. ASSUME Orchestrate
      PROVE  ParseGood(c)' \/ (c \in Tasks /\ Noticed(c))'
  <2>1. UNCHANGED <<refs, cfgTime, missed>>
    BY <1>4, ThreadKeepsFiles
  <2>2. ASSUME phase \in {"start", "graph", "decide"}
        PROVE  ParseGood(c)
    BY <1>2, <2>2 DEF Noticed
  <2>3. ASSUME parsed' = parsed, ParseGood(c)
        PROVE  ParseGood(c)'
    BY <2>1, <2>3 DEF ParseGood
  <2>4. CASE StartBuild \/ Regenerate
    <3>1. PICK first \in BOOLEAN : GenerateGraph(first) /\ phase \in {"start", "decide"}
      BY <2>4 DEF StartBuild, Regenerate
    <3>2. parsed' = [d \in Configs |-> IF d \in Reachable({Root}) THEN {RefsOf(d)} ELSE parsed[d]]
      BY <3>1, GraphTasks
    <3>3. parsed'[c] = parsed[c] \/ parsed'[c] = {RefsOf(c)}
      BY <3>2
    <3>4. parsed[c] = Unparsed => RefsOf(c) = refs[c]
      BY DEF RefsOf
    <3>5. parsed[c] # Unparsed => {RefsOf(c)} = parsed[c]
      <4>1. parsed[c] # Unparsed => \E rs \in Layouts(c) : parsed[c] = {rs}
        BY DEF BuildTypeOK, ThreadTypes
      <4> QED BY <4>1 DEF RefsOf
    <3> QED BY <2>1, <2>2, <3>1, <3>3, <3>4, <3>5 DEF ParseGood
  <2>5. CASE LinkReference \/ DropReference \/ EnterReference \/ CompleteTask
    BY <2>2, <2>3, <2>5 DEF LinkReference, DropReference, EnterReference, CompleteTask
  <2>6. CASE NothingToDo \/ Rebuild
    BY <2>2, <2>3, <2>6 DEF NothingToDo, Rebuild
  <2>7. ASSUME parsed' = parsed, order' = order, phase \in {"build", "report"},
               phase' \in {"build", "report", "watch"},
               mCfg[c] # NoTime => mCfg'[c] = mCfg[c]
        PROVE  ParseGood(c)' \/ (c \in Tasks /\ Noticed(c))'
    <3>1. c \in Tasks /\ Noticed(c) => (c \in Tasks /\ Noticed(c))'
      BY <2>1, <2>7 DEF Noticed, Tasks
    <3> QED BY <1>2, <2>3, <2>7, <3>1
  <2>8. CASE ReportOnly \/ Report
    BY <2>7, <2>8 DEF ReportOnly, Report, Unblock
  <2>9. CASE SkipProject \/ BuildProject
    <3>1. /\ parsed' = parsed /\ order' = order /\ phase = "build" /\ phase' = "report"
          /\ ReadTimes(Current)
      BY <2>9 DEF SkipProject, BuildProject, Unblock
    <3>2. mCfg[c] # NoTime => mCfg'[c] = mCfg[c]
      BY <3>1 DEF ReadTimes, TimeOf, BuildTypeOK, ThreadTypes
    <3> QED BY <2>7, <3>1, <3>2
  <2>10. CASE UpdateWatch
    <3>1. /\ UNCHANGED <<order, parsed>> /\ phase = "watch" /\ phase' = "sleep"
          /\ mCfg'[c] = NoTime
          /\ c \in Tasks /\ mCfg[c] # NoTime => watchCfg'[c] = mCfg[c]
      BY <2>10 DEF UpdateWatch, TimeOf
    <3>2. c \in Tasks /\ Noticed(c) => (c \in Tasks /\ Noticed(c))'
      BY <2>1, <3>1 DEF Noticed, Tasks
    <3> QED BY <1>2, <2>3, <3>1, <3>2
  <2>11. CASE Wake
    <3>1. UNCHANGED <<order, parsed, mCfg, watchCfg>> /\ phase = "sleep" /\ phase' = "check"
      BY <2>11 DEF Wake, taskVars
    <3>2. c \in Tasks /\ Noticed(c) => (c \in Tasks /\ Noticed(c))'
      BY <2>1, <3>1 DEF Noticed, Tasks
    <3> QED BY <1>2, <2>3, <3>1, <3>2
  <2>12. CASE HasUpdate
    <3>1. /\ UNCHANGED <<order, watchCfg>> /\ phase = "check"
          /\ phase' = IF pos = Len(order) THEN "decide" ELSE "check"
          /\ mCfg' = [mCfg EXCEPT ![Current] = TimeOf(@, cfgTime[Current])]
      BY <2>12 DEF HasUpdate
    <3>2. Current \in Configs /\ Current = order[pos] /\ pos \in 1 .. Len(order) /\ order \in Seq(Configs)
      BY <3>1, CurrentTask
    <3>3. /\ parsed' = parsed \/ parsed' = [parsed EXCEPT ![Current] = Unparsed]
          /\ TimeOf(mCfg[Current], cfgTime[Current]) # watchCfg[Current] =>
               parsed' = [parsed EXCEPT ![Current] = Unparsed]
      BY <2>12 DEF HasUpdate, ResetConfig
    <3>4. parsed'[c] = parsed[c] \/ parsed'[c] = Unparsed
      BY <3>2, <3>3 DEF BuildTypeOK, ThreadTypes
    <3>5. CASE ParseGood(c)
      BY <2>1, <3>4, <3>5 DEF ParseGood
    <3>6. CASE ~ParseGood(c)
      <4>1. c \in Tasks /\ mCfg[c] = NoTime /\ watchCfg[c] # cfgTime[c]
        BY <1>2, <3>1, <3>6 DEF Noticed
      <4>2. CASE c = Current
        <5>1. parsed'[c] = Unparsed
          BY <3>2, <3>3, <4>1, <4>2 DEF TimeOf, BuildTypeOK, ThreadTypes
        <5> QED BY <5>1 DEF ParseGood
      <4>3. CASE c # Current
        <5>1. PICK i \in 1 .. Len(order) : c = order[i]
          BY <3>2, <4>1, Members DEF Tasks
        <5>2. i # pos /\ ~(i < pos)
          BY <3>1, <3>2, <4>1, <4>3, <5>1 DEF PhaseOK
        <5>3. pos # Len(order)
          BY <3>2, <5>1, <5>2
        <5>4. phase' = "check" /\ mCfg'[c] = NoTime
          BY <3>1, <3>2, <4>1, <4>3, <5>3 DEF BuildTypeOK, ThreadTypes
        <5> QED BY <2>1, <3>1, <4>1, <5>4 DEF Noticed, Tasks
      <4> QED BY <4>2, <4>3
    <3> QED BY <3>5, <3>6
  <2> QED
    BY <1>4, <2>4, <2>5, <2>6, <2>8, <2>9, <2>10, <2>11, <2>12 DEF Orchestrate
<1> QED BY <1>3, <1>4 DEF BuildNext

-----------------------------------------------------------------------------
(* The invariant holds.                                                    *)

(* Before the start there are no tasks.                                    *)
LEMMA BuildInitInv ==
  ASSUME BuildInit
  PROVE  BuildInv
<1>1. DiskTypes
  <2>1. \A c \in Configs : refs[c] \in Layouts(c) /\ refs[c] \in References
    BY LayoutsAssumption DEF BuildInit
  <2>2. refs \in [Configs -> References]
    BY <2>1 DEF BuildInit
  <2>3. 0 \in Time /\ 1 \in Time
    BY ClockAssumption DEF Time
  <2> QED BY <2>1, <2>2, <2>3 DEF BuildInit, DiskTypes, Time
<1>2. ThreadTypes
  <2>1. /\ order = <<>> /\ walk = <<>> /\ pos = 1 /\ phase = "start" /\ errors = FALSE
        /\ needs = {} /\ missed = {} /\ away = {} /\ stopOnErrors \in BOOLEAN
        /\ parsed = [c \in Configs |-> Unparsed]
        /\ mSrc = [c \in Configs |-> NoTime] /\ mCfg = [c \in Configs |-> NoTime]
    BY DEF BuildInit
  <2>2. /\ order \in Seq(Configs) /\ IsInjective(order) /\ pos \in 1 .. Len(order) + 1
        /\ walk \in Seq([task : Configs, next : Nat \ {0}, circular : BOOLEAN])
    BY <2>1 DEF IsInjective
  <2>3. /\ parsed \in [Configs -> SUBSET References]
        /\ \A c \in Configs : parsed[c] = Unparsed
    BY <2>1 DEF Unparsed
  <2>4. mSrc \in [Configs -> Time \cup {NoTime}] /\ mCfg \in [Configs -> Time \cup {NoTime}]
    BY <2>1
  <2> QED BY <2>1, <2>2, <2>3, <2>4 DEF ThreadTypes
<1>3. TaskTypes
  BY RootAssumption DEF BuildInit, TaskTypes, NoStatus, St, StatusKinds, Reporters
<1>4. ToSet(order) = {} /\ DOMAIN order = {} /\ Len(order) = 0 /\ DOMAIN walk = {} /\ Len(walk) = 0
  BY DEF BuildInit, ToSet
<1>5. PhaseOK
  BY DEF BuildInit, PhaseOK
<1>6. WalkOK /\ UpstreamEarlier
  BY <1>4 DEF BuildInit, WalkOK, UpstreamEarlier
<1>7. ~Settled
  BY DEF BuildInit, Settled
<1>8. ReferencesLinked /\ TasksKnown
  BY <1>4, <1>7 DEF BuildInit, ReferencesLinked, TasksKnown, Tasks, NoStatus, St
<1>9. ReportersOK /\ TurnsOver
  BY <1>4 DEF BuildInit, ReportersOK, TurnsOver
<1>10. ConfigsSeen
  BY DEF BuildInit, ConfigsSeen, NoTime
<1> QED BY <1>1, <1>2, <1>3, <1>5, <1>6, <1>8, <1>9, <1>10 DEF BuildInv, BuildTypeOK

(* Every step keeps the invariant.                                         *)
LEMMA BuildInvNext ==
  ASSUME BuildInv, [BuildNext]_orchestratorVars
  PROVE  BuildInv'
<1>1. CASE BuildNext
  <2>1. BuildTypeOK'
    BY <1>1, DiskTypesNext, ThreadTypesNext, TaskTypesNext DEF BuildInv, BuildTypeOK
  <2>2. WalkOK' /\ UpstreamEarlier' /\ ReferencesLinked'
    BY <1>1, GraphInvNext DEF GraphInv
  <2>3. PhaseOK' /\ ReportersOK' /\ TasksKnown' /\ TurnsOver' /\ ConfigsSeen'
    BY <1>1, PhaseNext, ReportersNext, TasksKnownNext, TurnsOverNext, ConfigsSeenNext
  <2> QED BY <2>1, <2>2, <2>3 DEF BuildInv
<1>2. CASE UNCHANGED orchestratorVars
  <2> USE <1>2 DEF orchestratorVars, diskVars, taskVars
  <2>1. BuildTypeOK'
    BY DEF BuildInv, BuildTypeOK, DiskTypes, ThreadTypes, TaskTypes
  <2>2. PhaseOK' /\ ReportersOK'
    BY DEF BuildInv, PhaseOK, ReportersOK
  <2>3. Settled' <=> Settled
    BY DEF Settled
  <2>4. walk # <<>> => Settled'
    BY DEF BuildInv, PhaseOK, Settled
  <2>5. GraphInv'
    BY <2>3, <2>4, GraphKept
  <2>6. TasksKnown'
    BY <2>5 DEF BuildInv, TasksKnown, GraphInv, TasksParsed, Tasks
  <2>7. TurnsOver'
    BY DEF BuildInv, TurnsOver, Turns, Told
  <2>8. ConfigsSeen'
    BY DEF BuildInv, ConfigsSeen, Noticed, Tasks
  <2> QED BY <2>1, <2>2, <2>5, <2>6, <2>7, <2>8 DEF BuildInv, GraphInv
<1> QED BY <1>1, <1>2

(* The inductive invariant of tsc --build --watch.                         *)
THEOREM BuildInvariant == BuildSpec => []BuildInv
<1>1. BuildInit => BuildInv
  BY BuildInitInv
<1>2. BuildInv /\ [BuildNext]_orchestratorVars => BuildInv'
  BY BuildInvNext
<1> QED BY <1>1, <1>2, PTL DEF BuildSpec

(* No task waits in vain: when a task's turn comes, wait_on_upstream finds *)
(* its upstream tasks done and report finds that the previous reporter has *)
(* reported, but for a reused task that a new order puts first.            *)
THEOREM NobodyWaitsInVain == BuildSpec => []WaitsAreOver
<1>1. BuildInv => WaitsAreOver
  <2> SUFFICES ASSUME BuildInv PROVE WaitsAreOver
    OBVIOUS
  <2> USE DEF BuildInv
  <2>1. ASSUME phase = "build"
        PROVE  UpstreamDone(Current)
    <3>1. pos \in 1 .. Len(order) /\ Current = order[pos] /\ order \in Seq(Configs)
      BY <2>1, CurrentTask
    <3>2. Turns = pos - 1
      BY <2>1 DEF Turns
    <3>3. \A u \in ToSet(upStream[Current]) : \E j \in 1 .. pos - 1 : order[j] = u
      <4>1. pos \in DOMAIN order
        BY <3>1
      <4> QED BY <3>1, <4>1 DEF UpstreamEarlier
    <3> QED BY <2>1, <3>2, <3>3 DEF TurnsOver, UpstreamDone
  <2>2. ASSUME phase = "report"
        PROVE  PreviousReported(Current) \/ (pos = 1 /\ prevReporter[Current] # "nobody")
    <3>1. pos \in 1 .. Len(order) /\ Current = order[pos] /\ order \in Seq(Configs)
      BY <2>2, CurrentTask
    <3>2. CASE pos = 1
      BY <3>2 DEF PreviousReported
    <3>3. CASE pos # 1
      <4>1. pos \in 2 .. Len(order) /\ pos - 1 \in 1 .. Len(order) /\ pos - 1 \in 1 .. pos - 1
        BY <3>1, <3>3
      <4>2. prevReporter[Current] = order[pos - 1] /\ order[pos - 1] \in Configs
        BY <3>1, <4>1 DEF ReportersOK
      <4>3. reportDone[order[pos - 1]]
        BY <2>2, <4>1 DEF TurnsOver
      <4> QED BY <4>2, <4>3 DEF PreviousReported
    <3> QED BY <3>2, <3>3
  <2> QED BY <2>1, <2>2 DEF WaitsAreOver
<1> QED BY <1>1, BuildInvariant, PTL

(* The order follows the references, and a task that computes its status   *)
(* finds a status of every upstream task ("upstream status should be       *)
(* computed"), unless --stopBuildOnErrors let a build tell it late.        *)
THEOREM UpstreamStatusIsKnown == BuildSpec => []UpstreamStatusKnown
<1>1. BuildInv => UpstreamStatusKnown
  <2> SUFFICES ASSUME BuildInv PROVE UpstreamStatusKnown
    OBVIOUS
  <2> USE DEF BuildInv
  <2>0. order \in Seq(Configs) /\ DOMAIN order = 1 .. Len(order)
    BY DEF BuildTypeOK, ThreadTypes
  <2>1. ASSUME NEW i \in 1 .. Len(order), phase \in {"build", "report", "watch", "sleep"},
               NEW r \in ToSet(RefsOf(order[i])), r.to \notin ToSet(upStream[order[i]])
        PROVE  order[i] \in Reachable({r.to})
    <3>1. PICK k \in DOMAIN RefsOf(order[i]) : r = RefsOf(order[i])[k]
      BY DEF ToSet
    <3>2. Linked(order[i], RefsOf(order[i])[k])
      BY <2>0, <2>1 DEF ReferencesLinked, Settled
    <3> QED BY <2>1, <3>1, <3>2 DEF Linked
  <2>2. OrderFollowsReferences
    BY <2>0, <2>1 DEF OrderFollowsReferences, UpstreamEarlier
  <2>3. ASSUME phase = "build", NEW u \in ToSet(upStream[Current])
        PROVE  status[u] # NoStatus \/ (stopOnErrors /\ ToldLate(u))
    <3>1. pos \in 1 .. Len(order) /\ Current = order[pos]
      BY <2>3, CurrentTask
    <3>2. Turns = pos - 1
      BY <2>3 DEF Turns
    <3>3. PICK j \in 1 .. pos - 1 : order[j] = u
      BY <2>0, <3>1 DEF UpstreamEarlier
    <3>4. status[u] # NoStatus \/ (stopOnErrors /\ Told(u, pos - 1))
      BY <2>3, <3>2, <3>3 DEF TurnsOver
    <3> QED BY <3>4 DEF Told, ToldLate
  <2> QED BY <2>2, <2>3 DEF UpstreamStatusKnown
<1> QED BY <1>1, BuildInvariant, PTL

(* Asleep, with no watched config changed since its time was recorded, the *)
(* tasks work with what is in the config files, late edits excepted.       *)
THEOREM ConfigsAreCurrent == BuildSpec => []ConfigsCurrent
<1>1. BuildInv => ConfigsCurrent
  <2> SUFFICES ASSUME BuildInv, phase = "sleep", \A c \in Tasks : Watched(c), NEW c \in Tasks
               PROVE  <<"config", c>> \in missed \/ parsed[c] = {refs[c]}
    BY DEF ConfigsCurrent
  <2> USE DEF BuildInv
  <2>1. Tasks \subseteq Configs
    BY Members, RootAssumption DEF Tasks, BuildTypeOK, ThreadTypes
  <2>2. parsed[c] # Unparsed
    <3>1. PICK T \in SUBSET Configs : ParsedSet(T) /\ Walked \subseteq T
      BY DEF TasksKnown, Settled
    <3> QED BY <3>1 DEF ParsedSet, Walked, Tasks
  <2>3. ~Noticed(c)
    BY DEF Noticed, Watched
  <2> QED BY <2>1, <2>2, <2>3 DEF ConfigsSeen
<1> QED BY <1>1, BuildInvariant, PTL

-----------------------------------------------------------------------------
(* tsc --build --watch: no edit of a source is lost.                       *)

(* Outputs are records, and no time is ahead of the clock.                 *)
OutputsPast ==
  /\ DOMAIN output = Configs
  /\ \A c \in Configs :
       /\ output[c] = [src |-> output[c].src, at |-> output[c].at, seen |-> output[c].seen]
       /\ output[c].at \in Int /\ output[c].at <= clock
       /\ srcTime[c] <= clock /\ mSrc[c] <= clock /\ watchSrc[c] <= clock

(* A task whose turn is still to come is not done.                         *)
NotYetDone ==
  /\ phase = "graph" => \A i \in DOMAIN order : ~done[order[i]]
  /\ phase \in {"build", "report"} => \A i \in Turns + 1 .. Len(order) : ~done[order[i]]
  /\ phase \in {"check", "decide"} /\ "config" \notin needs =>
       \A i \in DOMAIN order : phase = "decide" \/ i < pos => ~done[order[i]]

(* The times of sources a cycle has asked for.                             *)
TimesAsked ==
  /\ phase = "start" => order = <<>>
  /\ phase \in {"start", "sleep"} => \A c \in Configs : mSrc[c] = NoTime
  /\ phase \in {"check", "decide"} =>
       /\ \A c \in Configs \ Tasks : mSrc[c] = NoTime
       /\ \A i \in DOMAIN order : phase = "decide" \/ i < pos => mSrc[order[i]] # NoTime

(* A build gives every task a status, and only a change takes it away.     *)
StatusesKnown ==
  ~stopOnErrors /\ ~errors =>
    /\ phase \in {"watch", "sleep"} => \A c \in Tasks : status[c] # NoStatus
    /\ phase \in {"check", "decide"} /\ "update" \notin needs => \A c \in Tasks : status[c] # NoStatus

(* An edit that the next cycle will find.                                  *)
SourceNoticed(c) ==
  \/ phase \in {"sleep", "check"} /\ mSrc[c] = NoTime /\ watchSrc[c] # srcTime[c]
  \/ phase \in {"build", "report", "watch"} /\ mSrc[c] # NoTime /\ mSrc[c] # srcTime[c] /\ done[c]

(* An edit that was found.                                                 *)
ToBuild(c) == status[c] = NoStatus /\ (mSrc[c] = NoTime \/ mSrc[c] = srcTime[c])

(* The output of c is older than its source, and c will be built.          *)
Outdated(c) ==
  /\ output[c] = NoOutput \/ srcTime[c] > output[c].at
  /\ phase = "graph" => ToBuild(c)
  /\ phase # "graph" /\ c \in Tasks => ToBuild(c) \/ SourceNoticed(c)

SourcesSeen ==
  ~stopOnErrors =>
    \A c \in Configs \ Solutions : <<"source", c>> \in missed \/ Built(c) \/ Outdated(c)

SourceInv == OutputsPast /\ NotYetDone /\ TimesAsked /\ StatusesKnown /\ SourcesSeen

(* The thread writes no output but the one of the task whose turn it is:   *)
(* a pseudo build stamps it, a build makes it from the source.             *)
LEMMA OutputWritten ==
  ASSUME BuildInv, SourceInv, Orchestrate
  PROVE  \/ output' = output
         \/ SkipProject /\ output' = [output EXCEPT ![Current] =
              [src |-> output[Current].src, at |-> clock, seen |-> output[Current].seen]]
         \/ BuildProject /\ output' = [output EXCEPT ![Current] = Compiled(Current)]
<1>1. CASE StartBuild \/ Regenerate
  BY <1>1 DEF StartBuild, Regenerate, GenerateGraph, diskVars
<1>2. CASE LinkReference \/ DropReference \/ EnterReference \/ CompleteTask
  BY <1>2 DEF LinkReference, DropReference, EnterReference, CompleteTask, diskVars
<1>3. CASE ReportOnly \/ Report \/ UpdateWatch
  BY <1>3 DEF ReportOnly, Report, UpdateWatch, diskVars
<1>4. CASE Wake \/ HasUpdate \/ NothingToDo \/ Rebuild
  BY <1>4 DEF Wake, HasUpdate, NothingToDo, Rebuild, diskVars
<1>5. CASE BuildProject
  BY <1>5 DEF BuildProject
<1>6. CASE SkipProject
  <2>1. output' = output \/ output' = [output EXCEPT ![Current].at = clock]
    BY <1>6 DEF SkipProject
  <2>2. Current \in Configs
    BY <1>6, CurrentTask DEF SkipProject, BuildInv
  <2>3. PICK r, a, b, d : r = output[Current] /\ a = r.src /\ b = r.at /\ d = r.seen
    OBVIOUS
  <2>4. r = [src |-> a, at |-> b, seen |-> d]
    BY <2>2, <2>3 DEF SourceInv, OutputsPast
  <2>5. [r EXCEPT !.at = clock] = [src |-> a, at |-> clock, seen |-> d]
    BY <2>4
  <2> QED BY <1>6, <2>1, <2>3, <2>5
<1> QED BY <1>1, <1>2, <1>3, <1>4, <1>5, <1>6 DEF Orchestrate

(* The times of sources the thread has, and those it records.              *)
LEMMA SourceTimesNoted ==
  ASSUME BuildInv, Orchestrate, NEW c \in Configs
  PROVE  /\ mSrc'[c] \in {mSrc[c], srcTime[c], NoTime}
         /\ watchSrc'[c] \in {watchSrc[c], mSrc[c], srcTime[c], NoTime}
<1> USE DEF BuildInv
<1>1. mSrc \in [Configs -> Time \cup {NoTime}]
  BY DEF BuildTypeOK, ThreadTypes
<1>2. mSrc'[c] \in {mSrc[c], srcTime[c], NoTime}
  <2>1. \/ mSrc' = mSrc
        \/ mSrc' = [d \in Configs |-> NoTime]
        \/ \E d, e : mSrc' = [mSrc EXCEPT ![d] = e] /\ e \in {mSrc[d], srcTime[d]}
    BY DEF Orchestrate, StartBuild, Regenerate, GenerateGraph, LinkReference, DropReference,
           EnterReference, CompleteTask, ReportOnly, SkipProject, BuildProject, Report,
           UpdateWatch, Wake, HasUpdate, NothingToDo, Rebuild, ReadTimes, TimeOf
  <2> QED BY <1>1, <2>1
<1>3. watchSrc'[c] \in {watchSrc[c], mSrc[c], srcTime[c], NoTime}
  <2>1. CASE StartBuild \/ Regenerate
    <3>1. PICK first \in BOOLEAN : GenerateGraph(first)
      BY <2>1 DEF StartBuild, Regenerate
    <3>2. \E kept : watchSrc' = [d \in Configs |-> IF d \in kept THEN watchSrc[d] ELSE NoTime]
      BY <3>1, GraphTasks
    <3> QED BY <3>2
  <2>2. CASE UpdateWatch
    BY <2>2 DEF UpdateWatch, TimeOf
  <2>3. CASE LinkReference \/ DropReference \/ EnterReference \/ CompleteTask
    BY <2>3 DEF LinkReference, DropReference, EnterReference, CompleteTask, taskVars
  <2>4. CASE ReportOnly \/ SkipProject \/ BuildProject \/ Report
    BY <2>4 DEF ReportOnly, SkipProject, BuildProject, Report
  <2>5. CASE Wake \/ HasUpdate \/ NothingToDo \/ Rebuild
    BY <2>5 DEF Wake, HasUpdate, NothingToDo, Rebuild, taskVars
  <2> QED BY <2>1, <2>2, <2>3, <2>4, <2>5 DEF Orchestrate
<1> QED BY <1>2, <1>3

(* Times stay in the past.                                                 *)
LEMMA OutputsPastNext ==
  ASSUME BuildInv, SourceInv, BuildNext
  PROVE  OutputsPast'
<1> USE DEF BuildInv, SourceInv
<1>1. clock \in Int /\ NoTime <= clock
  BY ClockAssumption DEF BuildTypeOK, DiskTypes, Time, NoTime
<1>2. \A c \in Configs : srcTime[c] \in Int /\ mSrc[c] \in Int /\ watchSrc[c] \in Int
  BY ClockAssumption DEF BuildTypeOK, DiskTypes, ThreadTypes, TaskTypes, Time, NoTime
<1>3. CASE Edit
  <2>1. /\ clock' = clock + 1 /\ UNCHANGED <<output, mSrc, watchSrc>>
        /\ \A c \in Configs : srcTime'[c] = srcTime[c] \/ srcTime'[c] = clock + 1
    <3>1. srcTime \in [Configs -> Time]
      BY DEF BuildTypeOK, DiskTypes
    <3> QED BY <1>3, <3>1 DEF Edit, EditSource, EditReferences, Edited, taskVars
  <2> QED BY <1>1, <1>2, <2>1 DEF OutputsPast
<1>4. CASE Orchestrate
  <2>1. UNCHANGED <<srcTime, clock>>
    BY <1>4, ThreadKeepsFiles
  <2>2. \A c \in Configs : srcTime'[c] <= clock' /\ mSrc'[c] <= clock' /\ watchSrc'[c] <= clock'
    BY <1>1, <1>2, <1>4, <2>1, SourceTimesNoted DEF OutputsPast
  <2>3. /\ DOMAIN output' = Configs
        /\ \A c \in Configs :
             /\ output'[c] = [src |-> output'[c].src, at |-> output'[c].at, seen |-> output'[c].seen]
             /\ output'[c].at \in Int /\ output'[c].at <= clock
    <3>1. CASE output' = output
      BY <3>1 DEF OutputsPast
    <3>2. ASSUME NEW a, NEW b,
                 output' = [output EXCEPT ![Current] = [src |-> a, at |-> clock, seen |-> b]]
          PROVE  /\ DOMAIN output' = Configs
                 /\ \A c \in Configs :
                      /\ output'[c] = [src |-> output'[c].src, at |-> output'[c].at, seen |-> output'[c].seen]
                      /\ output'[c].at \in Int /\ output'[c].at <= clock
      <4>1. PICK r : r = [src |-> a, at |-> clock, seen |-> b]
        OBVIOUS
      <4>2. r = [src |-> r.src, at |-> r.at, seen |-> r.seen] /\ r.at = clock
        BY <4>1
      <4>3. DOMAIN output' = Configs /\ \A c \in Configs : output'[c] = output[c] \/ output'[c] = r
        BY <3>2, <4>1 DEF OutputsPast
      <4> QED BY <1>1, <4>2, <4>3 DEF OutputsPast
    <3>3. PICK a, b : Compiled(Current) = [src |-> a, at |-> clock, seen |-> b]
      BY DEF Compiled
    <3> QED BY <1>4, <3>1, <3>2, <3>3, OutputWritten
  <2> QED BY <2>1, <2>2, <2>3 DEF OutputsPast
<1> QED BY <1>3, <1>4 DEF BuildNext

(* done is reset before the next build.                                    *)
LEMMA NotYetDoneNext ==
  ASSUME BuildInv, SourceInv, BuildNext
  PROVE  NotYetDone'
<1> USE DEF BuildInv, SourceInv
<1>0. PICK n \in Nat, p \in Nat : /\ n = Len(order) /\ p = pos /\ p >= 1 /\ order \in Seq(Configs)
                                  /\ DOMAIN order = 1 .. n
  BY DEF BuildTypeOK, ThreadTypes
<1>a. \A i \in 1 .. n : order[i] \in Configs
  BY <1>0
<1>b. done \in [Configs -> BOOLEAN] /\ \A i, j \in 1 .. n : order[i] = order[j] => i = j
  BY <1>0 DEF BuildTypeOK, TaskTypes, ThreadTypes, IsInjective
<1>1. CASE Edit
  <2>1. UNCHANGED <<phase, pos, order, done, needs>>
    BY <1>1 DEF Edit, EditSource, EditReferences, taskVars
  <2>2. Turns' = Turns
    BY <2>1 DEF Turns
  <2> QED BY <2>1, <2>2 DEF NotYetDone
<1>2. CASE StartBuild \/ Regenerate
  <2>1. phase' = "graph" /\ order' = <<>>
    BY <1>2 DEF StartBuild, Regenerate, GenerateGraph
  <2> QED BY <2>1 DEF NotYetDone
<1>3. CASE LinkReference \/ DropReference \/ EnterReference
  <2>1. phase = "graph" /\ UNCHANGED <<phase, order, done>>
    BY <1>3 DEF LinkReference, DropReference, EnterReference, taskVars
  <2> QED BY <2>1 DEF NotYetDone
<1>4. CASE CompleteTask
  <2>1. /\ phase = "graph" /\ order' = Append(order, Top.task)
        /\ done' = [done EXCEPT ![Top.task] = FALSE]
        /\ phase' = "graph" \/ phase' = "watch" \/ (phase' = "build" /\ pos' = 1)
    BY <1>4 DEF CompleteTask, BuildOrClean
  <2>2. Top.task \in Configs
    BY <2>1, TopTask
  <2>3. DOMAIN order' = 1 .. Len(order') /\ \A i \in DOMAIN order' : i \in 1 .. n \/ order'[i] = Top.task
    BY <1>0, <2>1, <2>2
  <2>4. \A i \in 1 .. n : order'[i] = order[i] /\ ~done[order[i]]
    BY <1>0, <2>1, <2>2 DEF NotYetDone
  <2>5. \A i \in DOMAIN order' : ~done'[order'[i]]
    BY <1>a, <1>b, <2>1, <2>2, <2>3, <2>4
  <2>6. phase' = "build" => Turns' = 0
    BY <2>1 DEF Turns
  <2> QED BY <2>1, <2>3, <2>5, <2>6 DEF NotYetDone
<1>5. CASE ReportOnly \/ SkipProject \/ BuildProject
  <2>1. /\ phase = "build" /\ phase' = "report" /\ UNCHANGED <<order, pos>>
        /\ done' = [done EXCEPT ![Current] = TRUE]
    BY <1>5, Turn
  <2>2. Turns = p - 1 /\ Turns' = p /\ Current = order[p] /\ p \in 1 .. n
    BY <1>0, <2>1, CurrentTask DEF Turns, Current
  <2>3. ASSUME NEW i \in p + 1 .. n
        PROVE  ~done'[order[i]]
    <3>1. i \in 1 .. n /\ i # p /\ i \in p .. n
      BY <1>0
    <3>2. order[i] # Current
      BY <1>b, <2>2, <3>1
    <3>3. ~done[order[i]]
      BY <1>0, <2>1, <2>2, <3>1 DEF NotYetDone
    <3> QED BY <1>a, <1>b, <2>1, <3>1, <3>2, <3>3
  <2> QED BY <1>0, <2>1, <2>2, <2>3 DEF NotYetDone
<1>6. CASE Report
  <2>1. phase = "report" /\ phase' \in {"watch", "build"} /\ UNCHANGED <<order, done>> /\ pos' = pos + 1
    BY <1>6 DEF Report
  <2>2. phase' = "build" => Turns' = Turns
    BY <1>0, <2>1 DEF Turns
  <2> QED BY <2>1, <2>2 DEF NotYetDone
<1>7. CASE UpdateWatch \/ NothingToDo
  <2>1. phase' = "sleep"
    BY <1>7 DEF UpdateWatch, NothingToDo
  <2> QED BY <2>1 DEF NotYetDone
<1>8. CASE Wake
  <2>1. phase = "sleep" /\ phase' = "check" /\ UNCHANGED <<pos, order, done>>
    BY <1>8 DEF Wake, taskVars
  <2>2. p = 1
    BY <1>0, <2>1 DEF PhaseOK
  <2>3. \A i \in 1 .. n : ~(i < 1)
    OBVIOUS
  <2> QED BY <1>0, <2>1, <2>2, <2>3 DEF NotYetDone
<1>9. CASE Rebuild
  <2>1. /\ phase = "decide" /\ needs = {"update"} /\ UNCHANGED <<order, done>>
        /\ phase' = "watch" \/ (phase' = "build" /\ pos' = 1)
    BY <1>9 DEF Rebuild, BuildOrClean, taskVars
  <2>2. \A i \in 1 .. n : ~done[order[i]]
    BY <1>0, <2>1 DEF NotYetDone
  <2>3. phase' = "build" => Turns' = 0
    BY <2>1 DEF Turns
  <2> QED BY <1>0, <2>1, <2>2, <2>3 DEF NotYetDone
<1>10. CASE HasUpdate
  <2>1. PICK changed \in BOOLEAN :
          /\ done' = [done EXCEPT ![Current] = changed /\ @]
          /\ changed => "config" \in needs'
          /\ needs \subseteq needs'
          /\ phase = "check" /\ order' = order /\ pos' = pos + 1
          /\ phase' = IF pos = Len(order) THEN "decide" ELSE "check"
    <3>1. PICK changed \in BOOLEAN :
            changed = (TimeOf(mCfg[Current], cfgTime[Current]) # watchCfg[Current])
      OBVIOUS
    <3> QED BY <1>10, <3>1 DEF HasUpdate
  <2>2. p \in 1 .. n /\ Current = order[p] /\ Current \in Configs
    BY <1>0, <2>1, CurrentTask
  <2>3. ASSUME "config" \notin needs', NEW i \in 1 .. n, phase' = "decide" \/ i < pos'
        PROVE  ~done'[order[i]]
    <3>1. i <= p
      <4>1. CASE p = n
        BY <4>1
      <4>2. CASE p # n
        <5>1. phase' = "check"
          BY <1>0, <2>1, <4>2
        <5>2. i < p + 1
          BY <1>0, <2>1, <2>3, <5>1
        <5> QED BY <5>2
      <4> QED BY <4>1, <4>2
    <3>2. CASE i = p
      BY <1>b, <2>1, <2>2, <2>3, <3>2
    <3>3. CASE i # p
      <4>1. i < p /\ "config" \notin needs
        BY <2>1, <2>3, <3>1, <3>3
      <4>2. ~done[order[i]]
        BY <1>0, <2>1, <4>1 DEF NotYetDone
      <4>3. order[i] # Current
        BY <1>b, <2>2, <3>3
      <4> QED BY <1>a, <1>b, <2>1, <4>2, <4>3
    <3> QED BY <3>2, <3>3
  <2>4. phase' = "decide" \/ phase' = "check"
    BY <2>1
  <2> QED BY <1>0, <2>1, <2>3, <2>4 DEF NotYetDone
<1> QED
  BY <1>1, <1>2, <1>3, <1>4, <1>5, <1>6, <1>7, <1>8, <1>9, <1>10 DEF BuildNext, Orchestrate

(* A cycle starts with no times, and asks for those of its tasks.          *)
LEMMA TimesAskedNext ==
  ASSUME BuildInv, SourceInv, BuildNext
  PROVE  TimesAsked'
<1> USE DEF BuildInv, SourceInv
<1>0. PICK n \in Nat, p \in Nat : /\ n = Len(order) /\ p = pos /\ p >= 1 /\ order \in Seq(Configs)
                                  /\ DOMAIN order = 1 .. n
  BY DEF BuildTypeOK, ThreadTypes
<1>1. CASE Edit
  <2>1. UNCHANGED <<phase, pos, order, mSrc>>
    BY <1>1 DEF Edit, EditSource, EditReferences
  <2> QED BY <2>1 DEF TimesAsked, Tasks
<1>2. ASSUME phase' \in {"graph", "build", "report", "watch"}
      PROVE  TimesAsked'
  BY <1>2 DEF TimesAsked
<1>3. CASE StartBuild \/ Regenerate
  BY <1>2, <1>3 DEF StartBuild, Regenerate, GenerateGraph
<1>4. CASE LinkReference \/ DropReference \/ EnterReference \/ CompleteTask
  BY <1>2, <1>4 DEF LinkReference, DropReference, EnterReference, CompleteTask, BuildOrClean
<1>5. CASE ReportOnly \/ SkipProject \/ BuildProject
  BY <1>2, <1>5, Turn
<1>6. CASE Report \/ Rebuild
  BY <1>2, <1>6 DEF Report, Rebuild, BuildOrClean
<1>7. CASE UpdateWatch \/ NothingToDo
  <2>1. phase' = "sleep" /\ mSrc' = [c \in Configs |-> NoTime]
    BY <1>7 DEF UpdateWatch, NothingToDo
  <2> QED BY <2>1 DEF TimesAsked
<1>8. CASE Wake
  <2>1. phase = "sleep" /\ phase' = "check" /\ UNCHANGED <<pos, order, mSrc>>
    BY <1>8 DEF Wake
  <2>2. p = 1
    BY <1>0, <2>1 DEF PhaseOK
  <2>3. \A i \in 1 .. n : ~(i < 1)
    OBVIOUS
  <2> QED BY <1>0, <2>1, <2>2, <2>3 DEF TimesAsked
<1>9. CASE HasUpdate
  <2>1. /\ phase = "check" /\ order' = order /\ pos' = pos + 1
        /\ phase' = IF pos = Len(order) THEN "decide" ELSE "check"
        /\ mSrc' = [mSrc EXCEPT ![Current] = TimeOf(@, srcTime[Current])]
    BY <1>9 DEF HasUpdate
  <2>2. p \in 1 .. n /\ Current = order[p] /\ Current \in Configs /\ Current \in Tasks
    BY <1>0, <2>1, CurrentTask
  <2>3. mSrc \in [Configs -> Time \cup {NoTime}] /\ srcTime \in [Configs -> Time]
    BY DEF BuildTypeOK, DiskTypes, ThreadTypes
  <2>4. mSrc'[Current] # NoTime
    BY <2>1, <2>2, <2>3 DEF TimeOf, Time, NoTime
  <2>5. \A c \in Configs \ {Current} : mSrc'[c] = mSrc[c]
    BY <2>1, <2>3
  <2>6. ASSUME NEW i \in 1 .. n, phase' = "decide" \/ i < pos'
        PROVE  mSrc'[order[i]] # NoTime
    <3>1. i <= p
      <4>1. CASE p = n
        BY <4>1
      <4>2. CASE p # n
        <5>1. phase' = "check"
          BY <1>0, <2>1, <4>2
        <5>2. i < p + 1
          BY <1>0, <2>1, <2>6, <5>1
        <5> QED BY <5>2
      <4> QED BY <4>1, <4>2
    <3>2. CASE i = p
      BY <2>2, <2>4, <3>2
    <3>3. CASE i # p
      <4>1. i < p
        BY <3>1, <3>3
      <4>2. mSrc[order[i]] # NoTime /\ order[i] \in Configs
        BY <1>0, <2>1, <4>1 DEF TimesAsked
      <4> QED BY <2>4, <2>5, <4>2
    <3> QED BY <3>2, <3>3
  <2>7. \A c \in Configs \ Tasks : mSrc'[c] = NoTime
    BY <2>1, <2>2, <2>5 DEF TimesAsked
  <2>8. Tasks' = Tasks /\ (phase' = "decide" \/ phase' = "check")
    BY <2>1 DEF Tasks
  <2> QED BY <1>0, <2>1, <2>6, <2>7, <2>8 DEF TimesAsked
<1> QED
  BY <1>1, <1>3, <1>4, <1>5, <1>6, <1>7, <1>8, <1>9 DEF BuildNext, Orchestrate

(* Without --stopBuildOnErrors a build leaves no task without a status.    *)
LEMMA StatusesKnownNext ==
  ASSUME BuildInv, SourceInv, BuildNext
  PROVE  StatusesKnown'
<1> USE DEF BuildInv, SourceInv
<1>0. stopOnErrors' = stopOnErrors
  BY DEF BuildNext, Edit, Orchestrate
<1>1. CASE Edit
  <2>1. UNCHANGED <<phase, order, errors, needs, status>>
    BY <1>1 DEF Edit, EditSource, EditReferences, taskVars
  <2> QED BY <1>0, <2>1 DEF StatusesKnown, Tasks
<1>2. ASSUME phase' \in {"graph", "build", "report"} \/ errors'
      PROVE  StatusesKnown'
  BY <1>2 DEF StatusesKnown
<1>3. CASE StartBuild \/ Regenerate
  BY <1>2, <1>3 DEF StartBuild, Regenerate, GenerateGraph
<1>4. CASE LinkReference \/ DropReference \/ EnterReference
  BY <1>2, <1>4 DEF LinkReference, DropReference, EnterReference
<1>5. CASE CompleteTask \/ Rebuild
  BY <1>2, <1>5 DEF CompleteTask, Rebuild, BuildOrClean
<1>6. CASE ReportOnly \/ SkipProject \/ BuildProject
  BY <1>2, <1>6, Turn
<1>7. CASE Report
  <2>1. /\ phase = "report" /\ UNCHANGED <<order, status>>
        /\ phase' = "build" \/ (phase' = "watch" /\ pos = Len(order))
    BY <1>7 DEF Report
  <2>2. CASE phase' = "build"
    BY <1>2, <2>2
  <2>3. CASE phase' = "watch" /\ ~stopOnErrors
    <3>1. Turns = Len(order)
      BY <2>1, <2>3 DEF Turns
    <3>2. \A i \in 1 .. Len(order) : status[order[i]] # NoStatus
      BY <2>1, <2>3, <3>1 DEF TurnsOver
    <3>3. \A c \in Tasks : status[c] # NoStatus
      BY <3>2, Members, RootAssumption DEF Tasks, BuildTypeOK, ThreadTypes
    <3> QED BY <2>1, <2>3, <3>3 DEF StatusesKnown, Tasks
  <2>4. CASE phase' = "watch" /\ stopOnErrors
    BY <1>0, <2>4 DEF StatusesKnown
  <2> QED BY <2>1, <2>2, <2>3, <2>4
<1>8. CASE UpdateWatch \/ Wake
  <2>1. UNCHANGED <<order, status, errors>> /\ phase \in {"watch", "sleep"} /\ phase' \in {"sleep", "check"}
    BY <1>8 DEF UpdateWatch, Wake, taskVars
  <2> QED BY <1>0, <2>1 DEF StatusesKnown, Tasks
<1>9. CASE NothingToDo
  <2>1. UNCHANGED <<order, status, errors>> /\ phase = "decide" /\ phase' = "sleep" /\ needs = {}
    BY <1>9 DEF NothingToDo, taskVars
  <2> QED BY <1>0, <2>1 DEF StatusesKnown, Tasks
<1>10. CASE HasUpdate
  <2>1. PICK updated \in BOOLEAN :
          /\ status' = [status EXCEPT ![Current] = IF updated THEN NoStatus ELSE @]
          /\ updated => "update" \in needs'
          /\ needs \subseteq needs' /\ phase = "check" /\ phase' \in {"check", "decide"}
          /\ UNCHANGED <<order, errors>>
    <3>1. PICK updated \in BOOLEAN :
            updated = (Current \notin Solutions /\ TimeOf(mSrc[Current], srcTime[Current]) # watchSrc[Current])
      OBVIOUS
    <3> QED BY <1>10, <3>1 DEF HasUpdate
  <2>2. "update" \notin needs' => status' = status /\ "update" \notin needs
    BY <2>1 DEF BuildTypeOK, TaskTypes
  <2> QED BY <1>0, <2>1, <2>2 DEF StatusesKnown, Tasks
<1> QED
  BY <1>1, <1>3, <1>4, <1>5, <1>6, <1>7, <1>8, <1>9, <1>10 DEF BuildNext, Orchestrate

(* An edit of a source is missed, or the next cycle will find it.          *)
LEMMA SourceEdited ==
  ASSUME BuildInv, SourceInv, NEW d \in Configs, NEW x \in Content, EditSource(d, x),
         UNCHANGED stopOnErrors
  PROVE  SourcesSeen'
<1> USE DEF BuildInv, SourceInv
<1>1. /\ UNCHANGED <<phase, order, status, output, mSrc, watchSrc, done>> /\ clock' = clock + 1
      /\ src' = [src EXCEPT ![d] = x] /\ srcTime' = [srcTime EXCEPT ![d] = clock + 1]
      /\ missed' = IF InTime("source", d, mSrc[d]) THEN missed \ {<<"source", d>>}
                   ELSE missed \cup {<<"source", d>>}
  BY DEF EditSource, Edited, taskVars
<1>2. Tasks' = Tasks
  BY <1>1 DEF Tasks
<1>3. SUFFICES ASSUME ~stopOnErrors, NEW c \in Configs \ Solutions
               PROVE  (<<"source", c>> \in missed \/ Built(c) \/ Outdated(c))'
  BY DEF SourcesSeen
<1>4. <<"source", c>> \in missed \/ Built(c) \/ Outdated(c)
  BY <1>3 DEF SourcesSeen
<1>5. CASE c # d
  <2>1. src'[c] = src[c] /\ srcTime'[c] = srcTime[c]
    BY <1>1, <1>5 DEF BuildTypeOK, DiskTypes
  <2>2. <<"source", c>> \in missed => <<"source", c>> \in missed'
    BY <1>1, <1>5
  <2>3. Built(c) => Built(c)'
    BY <1>1, <2>1 DEF Built
  <2>4. Outdated(c) => Outdated(c)'
    BY <1>1, <1>2, <2>1 DEF Outdated, ToBuild, SourceNoticed
  <2> QED BY <1>4, <2>2, <2>3, <2>4
<1>6. CASE c = d /\ ~InTime("source", d, mSrc[d])
  BY <1>1, <1>6
<1>7. CASE c = d /\ InTime("source", d, mSrc[d])
  <2>1. srcTime'[c] = clock + 1
    BY <1>1, <1>7 DEF BuildTypeOK, DiskTypes
  <2>2. mSrc[c] # clock + 1 /\ watchSrc[c] # clock + 1 /\ clock + 1 > output[c].at
    <3>1. mSrc[c] <= clock /\ watchSrc[c] <= clock /\ output[c].at <= clock /\ output[c].at \in Int
      BY DEF OutputsPast
    <3>2. mSrc[c] \in Int /\ watchSrc[c] \in Int /\ clock \in Int
      BY ClockAssumption DEF BuildTypeOK, DiskTypes, ThreadTypes, TaskTypes, Time, NoTime
    <3> QED BY <3>1, <3>2
  <2>3. CASE phase = "start"
    <3>1. Tasks = {}
      BY <2>3 DEF TimesAsked, Tasks, ToSet
    <3> QED BY <1>1, <1>2, <2>1, <2>2, <2>3, <3>1 DEF Outdated
  <2>4. CASE phase # "start"
    <3>1. \/ phase \in {"sleep", "check"} /\ mSrc[c] = NoTime
          \/ phase \in {"build", "report", "watch"} /\ mSrc[c] # NoTime /\ done[c]
      BY <1>7, <2>4 DEF InTime
    <3> QED BY <1>1, <1>2, <2>1, <2>2, <3>1 DEF Outdated, SourceNoticed
  <2> QED BY <2>3, <2>4
<1> QED BY <1>5, <1>6, <1>7

(* A task that has no status and whose source is newer than its output is  *)
(* not skipped.                                                            *)
LEMMA OutdatedIsBuilt ==
  ASSUME BuildInv, NEW c \in Configs \ Solutions, ~stopOnErrors, status[c] = NoStatus,
         mSrc[c] = NoTime \/ mSrc[c] = srcTime[c],
         output[c] = NoOutput \/ (srcTime[c] > output[c].at /\ src[c] # output[c].src)
  PROVE  ~NoBuildNeeded(GetUpToDateStatus(c))
<1>1. InputTime(c) = srcTime[c]
  BY DEF InputTime, TimeOf
<1>2. KnownWithoutTimes(c) \/ SourceNewer(c)
  BY <1>1 DEF KnownWithoutTimes, SourceNewer
<1>3. GetUpToDateStatus(c) = St("inputFileNewer")
  BY <1>2 DEF GetUpToDateStatus
<1>4. GetUpToDateStatus(c).kind = "inputFileNewer"
  BY <1>3 DEF St
<1> QED BY <1>4 DEF NoBuildNeeded

(* The turn of a task: its own output is made from the source as it is,    *)
(* and no other task changes.                                              *)
LEMMA SourceTurn ==
  ASSUME BuildInv, SourceInv, Orchestrate, ReportOnly \/ SkipProject \/ BuildProject
  PROVE  SourcesSeen'
<1> USE DEF BuildInv, SourceInv
<1>0. UNCHANGED <<src, srcTime, missed, stopOnErrors>>
  BY ThreadKeepsFiles
<1>1. /\ phase = "build" /\ phase' = "report" /\ UNCHANGED <<order, pos>>
      /\ done' = [done EXCEPT ![Current] = TRUE]
      /\ \A d \in Configs \ {Current} : TurnLeaves(d)
  BY Turn
<1>2. Current \in Configs /\ Current \in Tasks /\ Current = order[pos] /\ pos \in 1 .. Len(order)
  BY <1>1, CurrentTask
<1>3. Tasks' = Tasks
  BY <1>1 DEF Tasks
<1>4. SUFFICES ASSUME ~stopOnErrors, NEW c \in Configs \ Solutions
               PROVE  (<<"source", c>> \in missed \/ Built(c) \/ Outdated(c))'
  BY <1>0 DEF SourcesSeen
<1>5. <<"source", c>> \in missed \/ Built(c) \/ Outdated(c)
  BY <1>4 DEF SourcesSeen
<1>6. <<"source", c>> \in missed => <<"source", c>> \in missed'
  BY <1>0
<1>7. CASE c # Current
  <2>1. output'[c] = output[c]
    BY <1>7, OutputWritten DEF OutputsPast
  <2>2. Built(c) => Built(c)'
    BY <1>0, <2>1 DEF Built
  <2>3. ASSUME Outdated(c)
        PROVE  Outdated(c)'
    <3>1. status[c] = NoStatus => status'[c] = NoStatus
      <4>1. CASE ReportOnly
        BY <4>1 DEF ReportOnly
      <4>2. CASE SkipProject
        BY <4>2, <1>7 DEF SkipProject, BuildTypeOK, TaskTypes
      <4>3. CASE BuildProject
        <5>1. PICK r \in StatusType, told \in SUBSET downStream[Current], b \in BOOLEAN :
                BuildEffect(Current, r, told, b)
          BY <4>3, BuildTellsTasks
        <5>2. status'[c] = status[c] \/ status'[c] = DownstreamStatus(status[c], Current, b)
          BY <1>7, <5>1 DEF BuildEffect
        <5>3. NoStatus.kind = "none"
          BY DEF NoStatus, St
        <5>4. DownstreamStatus(NoStatus, Current, b) = NoStatus
          BY <5>3 DEF DownstreamStatus
        <5> QED BY <5>2, <5>4
      <4> QED BY <4>1, <4>2, <4>3
    <3>2. mSrc'[c] = mSrc[c]
      BY <1>7 DEF ReportOnly, SkipProject, BuildProject, ReadTimes, BuildTypeOK, ThreadTypes
    <3>3. done[c] => done'[c]
      BY <1>1 DEF BuildTypeOK, TaskTypes
    <3>4. output'[c] = NoOutput \/ srcTime'[c] > output'[c].at
      BY <1>0, <2>1, <2>3 DEF Outdated
    <3>5. ToBuild(c) => ToBuild(c)'
      BY <1>0, <3>1, <3>2 DEF ToBuild
    <3>6. SourceNoticed(c) => SourceNoticed(c)'
      BY <1>0, <1>1, <3>2, <3>3 DEF SourceNoticed
    <3> QED BY <1>1, <1>3, <2>3, <3>4, <3>5, <3>6 DEF Outdated
  <2> QED BY <1>5, <1>6, <2>2, <2>3
<1>8. CASE c = Current /\ BuildProject
  <2>1. output'[c] = Compiled(c)
    BY <1>2, <1>8 DEF BuildProject, OutputsPast
  <2>2. Compiled(c).src = src[c] /\ Compiled(c).at = clock
    BY DEF Compiled
  <2>3. clock # -1 /\ NoOutput.at = -1
    BY DEF BuildTypeOK, DiskTypes, NoOutput, NoTime
  <2> QED BY <1>0, <2>1, <2>2, <2>3 DEF Built
<1>9. CASE c = Current /\ ~BuildProject
  <2>1. ASSUME Built(c)
        PROVE  Built(c)'
    <3>1. CASE output' = output
      BY <1>0, <2>1, <3>1 DEF Built
    <3>2. CASE output' # output
      <4>1. output'[c] = [src |-> output[c].src, at |-> clock, seen |-> output[c].seen]
        BY <1>2, <1>9, <3>2, OutputWritten DEF OutputsPast
      <4>2. output'[c].src = output[c].src /\ output'[c].at = clock
        BY <4>1
      <4>3. clock # -1 /\ NoOutput.at = -1
        BY DEF BuildTypeOK, DiskTypes, NoOutput, NoTime
      <4> QED BY <1>0, <2>1, <4>2, <4>3 DEF Built
    <3> QED BY <3>1, <3>2
  <2>2. ASSUME Outdated(c), ~Built(c)
        PROVE  FALSE
    <3>1. ~done[c]
      <4>1. Turns = pos - 1
        BY <1>1 DEF Turns
      <4>2. pos \in Turns + 1 .. Len(order)
        BY <1>2, <4>1
      <4> QED BY <1>1, <1>2, <1>9, <4>2 DEF NotYetDone
    <3>2. ToBuild(c)
      BY <1>1, <1>2, <1>9, <2>2, <3>1 DEF Outdated, SourceNoticed
    <3>3. output[c] = NoOutput \/ (srcTime[c] > output[c].at /\ src[c] # output[c].src)
      BY <2>2 DEF Outdated, Built
    <3>4. ~NoBuildNeeded(GetUpToDateStatus(c))
      BY <1>4, <3>2, <3>3, OutdatedIsBuilt DEF ToBuild
    <3>5. pending[c]
      BY <1>2, <1>9, <3>2 DEF TasksKnown, ToBuild
    <3> QED BY <1>9, <3>4, <3>5 DEF ReportOnly, SkipProject
  <2> QED BY <1>5, <1>6, <2>1, <2>2
<1> QED BY <1>7, <1>8, <1>9

(* Every step keeps sight of the edits.                                    *)
LEMMA SourcesSeenNext ==
  ASSUME BuildInv, SourceInv, BuildNext
  PROVE  SourcesSeen'
<1> USE DEF BuildInv, SourceInv
<1>1. CASE Edit
  <2>1. ASSUME NEW d \in Configs, NEW rs \in Layouts(d), EditReferences(d, rs)
        PROVE  SourcesSeen'
    <3>1. /\ UNCHANGED <<phase, order, status, output, mSrc, watchSrc, done, src, srcTime>>
          /\ UNCHANGED stopOnErrors
      BY <1>1, <2>1 DEF Edit, EditReferences, taskVars
    <3>2. \A c \in Configs : <<"source", c>> \in missed => <<"source", c>> \in missed'
      BY <2>1 DEF EditReferences, Edited
    <3>3. \A c \in Configs : Built(c)' = Built(c) /\ Outdated(c)' = Outdated(c)
      BY <3>1 DEF Built, Outdated, ToBuild, SourceNoticed, Tasks
    <3> QED BY <3>1, <3>2, <3>3 DEF SourcesSeen
  <2> QED BY <1>1, <2>1, SourceEdited DEF Edit
<1>2. CASE Orchestrate /\ (ReportOnly \/ SkipProject \/ BuildProject)
  BY <1>2, SourceTurn
<1>3. ASSUME Orchestrate, ~ReportOnly, ~SkipProject, ~BuildProject
      PROVE  SourcesSeen'
  <2>1. UNCHANGED <<src, srcTime, missed, stopOnErrors>>
    BY <1>3, ThreadKeepsFiles
  <2>2. output' = output
    BY <1>3, OutputWritten
  <2>3. SUFFICES ASSUME ~stopOnErrors, NEW c \in Configs \ Solutions, Outdated(c)
                 PROVE  Outdated(c)'
    BY <2>1, <2>2 DEF SourcesSeen, Built
  <2>4. output'[c] = NoOutput \/ srcTime'[c] > output'[c].at
    BY <2>1, <2>2, <2>3 DEF Outdated
  <2>5. ASSUME phase' # "graph", c \in Tasks' => c \in Tasks /\ phase # "graph",
               ToBuild(c) => ToBuild(c)', c \in Tasks /\ SourceNoticed(c) => ToBuild(c)' \/ SourceNoticed(c)'
        PROVE  Outdated(c)'
    BY <2>3, <2>4, <2>5 DEF Outdated
  <2>6. CASE StartBuild \/ Regenerate
    <3>1. PICK first \in BOOLEAN : GenerateGraph(first) /\ phase \in {"start", "decide"}
      BY <2>6 DEF StartBuild, Regenerate
    <3>2. phase' = "graph" /\ mSrc' = mSrc
      BY <3>1 DEF GenerateGraph
    <3>3. PICK kept \in SUBSET (Reachable({Root}) \cap Tasks) :
            status' = [d \in Configs |-> IF d \in kept THEN status[d] ELSE NoStatus]
      BY <3>1, GraphTasks
    <3>4. CASE c \in Tasks
      <4>1. ToBuild(c)
        BY <2>3, <3>1, <3>4 DEF Outdated, SourceNoticed
      <4>2. ToBuild(c)'
        BY <2>1, <3>2, <3>3, <4>1 DEF ToBuild
      <4> QED BY <2>4, <3>2, <4>2 DEF Outdated
    <3>5. CASE c \notin Tasks
      <4>1. mSrc[c] = NoTime
        BY <3>1, <3>5 DEF TimesAsked
      <4>2. status'[c] = NoStatus
        BY <3>3, <3>5
      <4> QED BY <2>4, <3>2, <4>1, <4>2 DEF Outdated, ToBuild
    <3> QED BY <3>4, <3>5
  <2>7. CASE LinkReference \/ DropReference \/ EnterReference \/ CompleteTask
    <3>1. phase = "graph" /\ UNCHANGED <<mSrc, status>>
      BY <2>7 DEF LinkReference, DropReference, EnterReference, CompleteTask, taskVars
    <3>2. ToBuild(c)
      BY <2>3, <3>1 DEF Outdated
    <3>3. ToBuild(c)'
      BY <2>1, <3>1, <3>2 DEF ToBuild
    <3> QED BY <2>4, <3>3 DEF Outdated
  <2>8. CASE Report
    <3>1. /\ phase = "report" /\ phase' \in {"watch", "build"}
          /\ UNCHANGED <<order, mSrc, status, done>>
      BY <2>8 DEF Report
    <3> QED BY <2>1, <2>5, <3>1 DEF ToBuild, SourceNoticed, Tasks
  <2>9. CASE UpdateWatch
    <3>1. /\ phase = "watch" /\ phase' = "sleep" /\ UNCHANGED <<order, status>>
          /\ mSrc'[c] = NoTime
          /\ c \in Tasks /\ mSrc[c] # NoTime => watchSrc'[c] = mSrc[c]
      BY <2>9 DEF UpdateWatch, TimeOf
    <3> QED BY <2>1, <2>5, <3>1 DEF ToBuild, SourceNoticed, Tasks
  <2>10. CASE Wake
    <3>1. /\ phase = "sleep" /\ phase' = "check" /\ UNCHANGED <<order, status, mSrc, watchSrc>>
      BY <2>10 DEF Wake, taskVars
    <3> QED BY <2>1, <2>5, <3>1 DEF ToBuild, SourceNoticed, Tasks
  <2>11. CASE NothingToDo
    <3>1. /\ phase = "decide" /\ phase' = "sleep" /\ UNCHANGED <<order, status>> /\ mSrc'[c] = NoTime
      BY <2>11 DEF NothingToDo, taskVars
    <3> QED BY <2>1, <2>5, <3>1 DEF ToBuild, SourceNoticed, Tasks
  <2>12. CASE Rebuild
    <3>1. /\ phase = "decide" /\ phase' \in {"watch", "build"} /\ UNCHANGED <<order, status, mSrc>>
      BY <2>12 DEF Rebuild, BuildOrClean, taskVars
    <3> QED BY <2>1, <2>5, <3>1 DEF ToBuild, SourceNoticed, Tasks
  <2>13. CASE HasUpdate
    <3>1. PICK updated \in BOOLEAN :
            /\ updated = (Current \notin Solutions /\ TimeOf(mSrc[Current], srcTime[Current]) # watchSrc[Current])
            /\ status' = [status EXCEPT ![Current] = IF updated THEN NoStatus ELSE @]
      BY <2>13 DEF HasUpdate
    <3>2. /\ mSrc' = [mSrc EXCEPT ![Current] = TimeOf(@, srcTime[Current])]
          /\ phase = "check" /\ phase' = IF pos = Len(order) THEN "decide" ELSE "check"
          /\ UNCHANGED <<order, watchSrc>>
      BY <2>13 DEF HasUpdate
    <3>3. Current \in Configs /\ Current = order[pos] /\ pos \in 1 .. Len(order) /\ order \in Seq(Configs)
      BY <3>2, CurrentTask
    <3>4. status \in [Configs -> StatusType] /\ mSrc \in [Configs -> Time \cup {NoTime}]
      BY DEF BuildTypeOK, TaskTypes, ThreadTypes, StatusType
    <3>5. CASE c = Current
      <4>1. status'[c] = (IF updated THEN NoStatus ELSE status[c]) /\ mSrc'[c] = TimeOf(mSrc[c], srcTime[c])
        BY <3>1, <3>2, <3>4, <3>5
      <4>2. ToBuild(c) => ToBuild(c)'
        BY <2>1, <4>1 DEF ToBuild, TimeOf
      <4>3. SourceNoticed(c) => ToBuild(c)'
        BY <2>1, <3>1, <3>2, <3>5, <4>1 DEF ToBuild, SourceNoticed, TimeOf
      <4>4. phase' # "graph"
        BY <3>2
      <4> QED BY <2>5, <3>2, <4>2, <4>3, <4>4 DEF Tasks
    <3>6. CASE c # Current
      <4>1. status'[c] = status[c] /\ mSrc'[c] = mSrc[c]
        BY <3>1, <3>2, <3>4, <3>6
      <4>2. ToBuild(c) => ToBuild(c)'
        BY <2>1, <4>1 DEF ToBuild
      <4>3. ASSUME c \in Tasks, SourceNoticed(c)
            PROVE  SourceNoticed(c)'
        <5>0. mSrc[c] = NoTime /\ watchSrc[c] # srcTime[c]
          BY <3>2, <4>3 DEF SourceNoticed
        <5>1. PICK i \in 1 .. Len(order) : c = order[i]
          BY <3>3, <4>3, Members DEF Tasks
        <5>2. i # pos /\ ~(i < pos)
          BY <3>2, <3>3, <3>6, <5>0, <5>1 DEF TimesAsked
        <5>3. pos # Len(order)
          BY <3>3, <5>1, <5>2
        <5>4. phase' = "check"
          BY <3>2, <5>3
        <5> QED BY <2>1, <3>2, <4>1, <5>0, <5>4 DEF SourceNoticed
      <4>4. phase' # "graph"
        BY <3>2
      <4> QED BY <2>5, <3>2, <4>2, <4>3, <4>4 DEF Tasks
    <3> QED BY <3>5, <3>6
  <2> QED
    BY <1>3, <2>6, <2>7, <2>8, <2>9, <2>10, <2>11, <2>12, <2>13 DEF Orchestrate
<1> QED BY <1>1, <1>2, <1>3 DEF BuildNext

(* Before the start, sources are newer than what an earlier run built.     *)
LEMMA SourceInitInv ==
  ASSUME BuildInit
  PROVE  SourceInv
<1>1. PICK built \in BOOLEAN : output = [c \in Configs |->
        IF built /\ c \notin Solutions
        THEN [src |-> NoSource, at |-> 0, seen |-> [u \in {r.to : r \in ToSet(refs[c])} |-> 0]]
        ELSE NoOutput]
  BY DEF BuildInit
<1>2. \A c \in Configs :
        \/ output[c] = NoOutput
        \/ \E x : output[c] = [src |-> NoSource, at |-> 0, seen |-> x]
  BY <1>1
<1>3. /\ clock = 1 /\ phase = "start" /\ order = <<>>
      /\ \A c \in Configs : /\ mSrc[c] = NoTime /\ watchSrc[c] = NoTime
                            /\ srcTime[c] = IF src[c] = NoSource THEN 0 ELSE 1
  BY DEF BuildInit
<1>4. Tasks = {}
  BY <1>3 DEF Tasks, ToSet
<1>5. ASSUME NEW c \in Configs
      PROVE  /\ output[c] = [src |-> output[c].src, at |-> output[c].at, seen |-> output[c].seen]
             /\ output[c].at \in Int /\ output[c].at <= clock
             /\ srcTime[c] <= clock /\ mSrc[c] <= clock /\ watchSrc[c] <= clock
  <2>1. CASE output[c] = NoOutput
    BY <1>3, <2>1 DEF NoOutput, NoTime
  <2>2. ASSUME NEW x, output[c] = [src |-> NoSource, at |-> 0, seen |-> x]
        PROVE  /\ output[c] = [src |-> output[c].src, at |-> output[c].at, seen |-> output[c].seen]
               /\ output[c].at \in Int /\ output[c].at <= clock
               /\ srcTime[c] <= clock /\ mSrc[c] <= clock /\ watchSrc[c] <= clock
    BY <1>3, <2>2 DEF NoTime
  <2> QED BY <1>2, <2>1, <2>2
<1>6. OutputsPast
  BY <1>1, <1>5 DEF OutputsPast
<1>7. NotYetDone /\ TimesAsked /\ StatusesKnown
  BY <1>3 DEF NotYetDone, TimesAsked, StatusesKnown
<1>8. ASSUME NEW c \in Configs
      PROVE  Built(c) \/ Outdated(c)
  <2>1. CASE output[c] = NoOutput
    BY <1>3, <1>4, <2>1 DEF Outdated
  <2>2. ASSUME NEW x, output[c] = [src |-> NoSource, at |-> 0, seen |-> x]
        PROVE  Built(c) \/ Outdated(c)
    <3>1. output[c].src = NoSource /\ output[c].at = 0
      BY <2>2
    <3>2. output[c] # NoOutput
      BY <3>1 DEF NoOutput, NoTime
    <3>3. CASE src[c] = NoSource
      BY <3>1, <3>2, <3>3 DEF Built
    <3>4. CASE src[c] # NoSource
      BY <1>3, <1>4, <3>1, <3>4 DEF Outdated
    <3> QED BY <3>3, <3>4
  <2> QED BY <1>2, <2>1, <2>2
<1> QED BY <1>6, <1>7, <1>8 DEF SourceInv, SourcesSeen

(* Sources are built or will be: an invariant of tsc --build --watch.      *)
THEOREM SourceInvariant == BuildSpec => []SourceInv
<1>1. BuildInit => SourceInv
  BY SourceInitInv
<1>2. BuildInv /\ SourceInv /\ [BuildNext]_orchestratorVars => SourceInv'
  <2> SUFFICES ASSUME BuildInv, SourceInv, [BuildNext]_orchestratorVars
               PROVE  SourceInv'
    OBVIOUS
  <2>1. CASE BuildNext
    BY <2>1, OutputsPastNext, NotYetDoneNext, TimesAskedNext, StatusesKnownNext, SourcesSeenNext
       DEF SourceInv
  <2>2. CASE UNCHANGED orchestratorVars
    <3> USE <2>2 DEF orchestratorVars, diskVars, taskVars, SourceInv
    <3>1. OutputsPast' /\ TimesAsked'
      BY DEF OutputsPast, TimesAsked, Tasks
    <3>2. NotYetDone' /\ StatusesKnown'
      BY DEF NotYetDone, Turns, StatusesKnown, Tasks
    <3>3. SourcesSeen'
      BY DEF SourcesSeen, Built, Outdated, ToBuild, SourceNoticed, Tasks
    <3> QED BY <3>1, <3>2, <3>3
  <2> QED BY <2>1, <2>2
<1> QED BY <1>1, <1>2, BuildInvariant, PTL DEF BuildSpec

(* Asleep, a project whose source did not change since its time was        *)
(* recorded is built from that source, late edits excepted: no edit is     *)
(* lost, whatever tasks are reused, dropped or reordered in between.       *)
THEOREM NoEditIsLost == BuildSpec => []EditsNotLost
<1>1. BuildInv /\ SourceInv => EditsNotLost
  <2> SUFFICES ASSUME BuildInv, SourceInv, phase = "sleep", ~errors, ~stopOnErrors,
                      NEW c \in Tasks \ Solutions, watchSrc[c] = srcTime[c]
               PROVE  <<"source", c>> \in missed \/ Built(c)
    BY DEF EditsNotLost
  <2> USE DEF BuildInv, SourceInv
  <2>1. Tasks \subseteq Configs
    BY Members, RootAssumption DEF Tasks, BuildTypeOK, ThreadTypes
  <2>2. status[c] # NoStatus
    BY DEF StatusesKnown
  <2>3. ~Outdated(c)
    BY <2>2 DEF Outdated, ToBuild, SourceNoticed
  <2> QED BY <2>1, <2>3 DEF SourcesSeen
<1> QED BY <1>1, BuildInvariant, SourceInvariant, PTL
=============================================================================
