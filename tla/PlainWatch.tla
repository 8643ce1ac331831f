----------------------------- MODULE PlainWatch -----------------------------
(***************************************************************************)
(* tsc --watch for one project, and the user who edits.                   *)
(*                                                                         *)
(* The watcher polls: it compares the disk with the watch state, a         *)
(* snapshot of the modification times of every path the last build looked  *)
(* at and of the contents of the directories its config includes.  On a    *)
(* difference it reads the config again if that is what changed, builds,   *)
(* and takes a new watch state from the disk.  Parsed files are kept from  *)
(* build to build with the modification time they were parsed under.       *)
(*                                                                         *)
(* A file's text is named by the time it was written, so a time stands for *)
(* the text too; 0 is a file that does not exist.  Two writes never get    *)
(* the same time.                                                          *)
(***************************************************************************)
EXTENDS Naturals

CONSTANTS Files,     \* source files of the project's directory
          Listed,    \* the ones a config without wildcards names
          MaxEdits   \* bound: writes and deletions by the user

ASSUME WatchAssumption == Listed \subseteq Files /\ MaxEdits \in Nat

Times == 0..(MaxEdits + 1)
NotAsked == MaxEdits + 2

\* What a config says: names files, includes the directory, or has an error.
Kinds == {"listed", "wildcard", "bad"}

VARIABLES disk,      \* modification time of every source file
          conf,      \* the config file: modification time and content
          edits,     \* edits so far (bound), the user's clock
          pc,        \* where the watcher is
          config,    \* Watcher::config, as parsed from conf
          modified,  \* Watcher::config_modified
          confErrs,  \* Watcher::config_has_errors
          cache,     \* Watcher::source_file_cache: time and text, 0 when not cached
          names,     \* root files of the build under way
          stat,      \* the answer it got to stat(f)
          unread,    \* root files it has not read yet
          next,      \* the text it has read
          program,   \* the program last built: the text of every file, 0 when not in it
          watch,     \* the watch state
          late,      \* history: files changed behind the current or last build's back
          lateConf   \* history: so changed is the config

userVars == <<disk, conf, edits>>
buildVars == <<names, stat, unread, next>>
vars == <<userVars, pc, config, modified, confErrs, cache, buildVars, program, watch,
          late, lateConf>>

Existing == {f \in Files : disk[f] # 0}

\* The root files of a parsed config; wildcards are looked up on the disk.
Names(c) == IF c.kind = "wildcard" THEN Existing ELSE Listed

NotCached == [time |-> 0, text |-> 0]

\* vfswatch snapshot_paths for the files seen, the config, and the directory if the
\* config includes it.
SnapshotPaths(seen, wildcard) ==
    [seen |-> seen,
     times |-> [f \in Files |-> IF f \in seen THEN disk[f] ELSE 0],
     conf |-> conf.time,
     wildcard |-> wildcard,
     listing |-> IF wildcard THEN Existing ELSE {}]

\* Mutant: new files in an included directory are not noticed.
HasChangesSeenOnly ==
    \/ \E f \in watch.seen : disk[f] # watch.times[f]
    \/ conf.time # watch.conf

\* FileWatcher::has_changes.
HasChanges ==
    \/ \E f \in watch.seen : disk[f] # watch.times[f]
    \/ conf.time # watch.conf
    \/ watch.wildcard /\ Existing # watch.listing

\* A build has begun and its watch state is not taken yet.
Building == pc \in {"read", "snapshot"}

Init ==
    /\ disk \in [Files -> {0, 1}]
    /\ conf \in [time : {1}, kind : {"listed", "wildcard"}]
    /\ edits = 0
    /\ pc = "build"
    /\ config = conf
    /\ modified = FALSE /\ confErrs = FALSE
    /\ cache = [f \in Files |-> NotCached]
    /\ names = {} /\ unread = {}
    /\ stat = [f \in Files |-> NotAsked] /\ next = [f \in Files |-> 0]
    /\ program = [f \in Files |-> 0]
    /\ watch = [seen |-> {}, times |-> [f \in Files |-> 0], conf |-> 0,
                wildcard |-> FALSE, listing |-> {}]
    /\ late = {} /\ lateConf = FALSE

-----------------------------------------------------------------------------
(* The user.                                                               *)

\* f is written or deleted.  The build under way misses it if it has read f already,
\* or has made its list of files without f.
EditFile(f, exists) ==
    /\ edits < MaxEdits
    /\ exists \/ disk[f] # 0
    /\ edits' = edits + 1
    /\ disk' = [disk EXCEPT ![f] = IF exists THEN edits + 2 ELSE 0]
    /\ late' = IF Building /\ f \notin unread THEN late \cup {f} ELSE late
    /\ UNCHANGED <<conf, pc, config, modified, confErrs, cache, buildVars, program, watch,
                   lateConf>>

\* The config is written; behind a build's back if recheck_ts_config has looked at the
\* config and the watch state of the build that follows is not taken yet.
EditConfig(kind) ==
    /\ edits < MaxEdits
    /\ edits' = edits + 1
    /\ conf' = [time |-> edits + 2, kind |-> kind]
    /\ lateConf' = (lateConf \/ pc \in {"decide", "build"} \/ Building)
    /\ UNCHANGED <<disk, pc, config, modified, confErrs, cache, buildVars, program, watch,
                   late>>

-----------------------------------------------------------------------------
(* The watcher.                                                            *)

\* FileWatcher::poll_once sees a difference; waiting for the disk to settle only
\* takes time.
PollOnce ==
    /\ pc = "poll"
    /\ HasChanges
    /\ pc' = "cycle"
    /\ UNCHANGED <<userVars, config, modified, confErrs, cache, buildVars, program, watch,
                   late, lateConf>>

\* recheck_ts_config: the config is as the watch state has it, and was right.
ConfigUnchanged ==
    /\ pc = "cycle"
    /\ ~confErrs /\ conf.time = watch.conf
    /\ pc' = "decide"
    /\ UNCHANGED <<userVars, config, modified, confErrs, cache, buildVars, program, watch,
                   late, lateConf>>

\* recheck_ts_config: the config does not parse.  The cycle ends there, with the watch
\* state as it was.
ConfigBad ==
    /\ pc = "cycle"
    /\ confErrs \/ conf.time # watch.conf
    /\ conf.kind = "bad"
    /\ confErrs' = TRUE
    /\ pc' = "poll"
    /\ UNCHANGED <<userVars, config, modified, cache, buildVars, program, watch, late,
                   lateConf>>

\* Mutant: a config is taken as modified only by its content, whatever was wrong before,
\* and its error is not forgotten.
ConfigParsedKeepsError ==
    /\ pc = "cycle"
    /\ confErrs \/ conf.time # watch.conf
    /\ conf.kind # "bad"
    /\ modified' = (modified \/ config.kind # conf.kind)
    /\ config' = conf
    /\ lateConf' = FALSE
    /\ pc' = "decide"
    /\ UNCHANGED <<userVars, confErrs, cache, buildVars, program, watch, late>>

\* recheck_ts_config: the config is read.  It counts as modified after an error, for
\* what it says, and for the file names its wildcards match now.
ConfigParsed ==
    /\ pc = "cycle"
    /\ confErrs \/ conf.time # watch.conf
    /\ conf.kind # "bad"
    /\ \E renamed \in BOOLEAN :
           /\ renamed => conf.kind = "wildcard"
           /\ modified' = (modified \/ confErrs \/ renamed \/ config.kind # conf.kind)
    /\ confErrs' = FALSE
    /\ config' = conf
    /\ lateConf' = FALSE
    /\ pc' = "decide"
    /\ UNCHANGED <<userVars, cache, buildVars, program, watch, late>>

\* The rest of do_cycle: has_changes_from_watch_state looks at the disk once more, the
\* config included, and there is a build or not.
DoCycle ==
    /\ pc = "decide"
    /\ pc' = IF modified \/ HasChanges THEN "build" ELSE "poll"
    /\ UNCHANGED <<userVars, config, modified, confErrs, cache, buildVars, program, watch,
                   late, lateConf>>

\* do_build: the cache is dropped if the config changed, and the root files are
\* looked up.
BeginBuild ==
    /\ pc = "build"
    /\ cache' = IF modified THEN [f \in Files |-> NotCached] ELSE cache
    /\ names' = Names(config)
    /\ unread' = names'
    /\ stat' = [f \in Files |-> NotAsked]
    /\ next' = [f \in Files |-> 0]
    /\ late' = {}
    /\ pc' = "read"
    /\ UNCHANGED <<userVars, config, modified, confErrs, program, watch, lateConf>>

\* get_parsed_source_file: stat; a cached file with that time is used.
StatFile(f) ==
    /\ pc = "read"
    /\ f \in unread
    /\ stat[f] = NotAsked
    /\ stat' = [stat EXCEPT ![f] = disk[f]]
    /\ IF cache[f] # NotCached /\ cache[f].time = disk[f]
       THEN /\ next' = [next EXCEPT ![f] = cache[f].text]
            /\ unread' = unread \ {f}
       ELSE UNCHANGED <<next, unread>>
    /\ UNCHANGED <<userVars, pc, config, modified, confErrs, cache, names, program, watch,
                   late, lateConf>>

\* Mutant: the file is kept with the time it has after the read.
ReadFileThenStat(f) ==
    /\ pc = "read"
    /\ f \in unread
    /\ stat[f] # NotAsked
    /\ next' = [next EXCEPT ![f] = stat[f]]
    /\ cache' = [cache EXCEPT ![f] = [time |-> disk[f], text |-> stat[f]]]
    /\ unread' = unread \ {f}
    /\ UNCHANGED <<userVars, pc, config, modified, confErrs, names, stat, program, watch,
                   late, lateConf>>

\* get_parsed_source_file: the file is read, and kept with the time stat gave if it
\* gave one; a file that is not there is forgotten.
ReadFile(f) ==
    /\ pc = "read"
    /\ f \in unread
    /\ stat[f] # NotAsked
    /\ next' = [next EXCEPT ![f] = disk[f]]
    /\ cache' = [cache EXCEPT ![f] = CASE disk[f] = 0 -> NotCached
                                       [] disk[f] # 0 /\ stat[f] = 0 -> @
                                       [] OTHER -> [time |-> stat[f], text |-> disk[f]]]
    /\ unread' = unread \ {f}
    /\ UNCHANGED <<userVars, pc, config, modified, confErrs, names, stat, program, watch,
                   late, lateConf>>

\* The program is complete: it is checked and emitted.
CompileAndEmit ==
    /\ pc = "read"
    /\ unread = {}
    /\ program' = next
    /\ pc' = "snapshot"
    /\ UNCHANGED <<userVars, config, modified, confErrs, cache, buildVars, watch, late,
                   lateConf>>

\* Mutant: the watch state is kept when the config has no wildcards.
UpdateWatchStateWildcard ==
    /\ pc = "snapshot"
    /\ watch' = IF config.kind = "wildcard" THEN SnapshotPaths(names, TRUE) ELSE watch
    /\ modified' = FALSE
    /\ cache' = [f \in Files |-> IF program[f] = 0 THEN NotCached ELSE cache[f]]
    /\ names' = {} /\ stat' = [f \in Files |-> NotAsked] /\ next' = [f \in Files |-> 0]
    /\ pc' = "poll"
    /\ UNCHANGED <<userVars, config, confErrs, unread, program, late, lateConf>>

\* The end of do_build: update_watch_state for every path the build has seen, and the
\* cache forgets what is not in the program.
UpdateWatchState ==
    /\ pc = "snapshot"
    /\ watch' = SnapshotPaths(names, config.kind = "wildcard")
    /\ modified' = FALSE
    /\ cache' = [f \in Files |-> IF program[f] = 0 THEN NotCached ELSE cache[f]]
    /\ names' = {} /\ stat' = [f \in Files |-> NotAsked] /\ next' = [f \in Files |-> 0]
    /\ pc' = "poll"
    /\ UNCHANGED <<userVars, config, confErrs, unread, program, late, lateConf>>

Watcher ==
    \/ PollOnce \/ ConfigUnchanged \/ ConfigBad \/ ConfigParsed \/ DoCycle
    \/ BeginBuild \/ CompileAndEmit \/ UpdateWatchState
    \/ \E f \in Files : StatFile(f) \/ ReadFile(f)

User ==
    \/ \E f \in Files, exists \in BOOLEAN : EditFile(f, exists)
    \/ \E kind \in Kinds : EditConfig(kind)

Next == Watcher \/ User

Spec == Init /\ [][Next]_vars

\* The watcher's loop never stops; nothing is assumed of the user.
FairSpec == Spec /\ WF_vars(Watcher)

-----------------------------------------------------------------------------

\* The types of the disk, the watcher and its build; a build reads only its root files.
TypeOK ==
    /\ disk \in [Files -> Times] /\ conf \in [time : Times, kind : Kinds]
    /\ edits \in 0..MaxEdits
    /\ pc \in {"poll", "cycle", "decide", "build", "read", "snapshot"}
    /\ config \in [time : Times, kind : Kinds \ {"bad"}]
    /\ modified \in BOOLEAN /\ confErrs \in BOOLEAN /\ lateConf \in BOOLEAN
    /\ cache \in [Files -> [time : Times, text : Times]]
    /\ unread \subseteq names /\ names \subseteq Files /\ late \subseteq Files
    /\ stat \in [Files -> Times \cup {NotAsked}] /\ next \in [Files -> Times]
    /\ program \in [Files -> Times]
    /\ watch \in [seen : SUBSET Files, times : [Files -> Times], conf : Times,
                  wildcard : BOOLEAN, listing : SUBSET Files]

\* When the watcher has nothing to do, the program is made from the current text of
\* every root file of its config, except for files changed while the last build was
\* reading: those are recorded in the watch state with the new time, and wait for
\* the next build, which finds them by the time in the cache.
SourcesCurrent ==
    pc = "poll" /\ ~HasChanges =>
        \A f \in Files \ late : program[f] = IF f \in Names(config) THEN disk[f] ELSE 0

\* When the watcher has nothing to do it has read the config as it is, errors and
\* repairs included, except for one written between the look at it and the watch state
\* of the build that followed: no later build of other files reads it again.
ConfigCurrent ==
    pc = "poll" /\ ~HasChanges /\ ~lateConf => config = conf /\ ~confErrs

\* A parsed file is never reused for a text it was not parsed from, wherever between
\* stat and read the file was written, and over any number of builds.
CacheHitsCurrent ==
    \A f \in Files : cache[f] # NotCached /\ cache[f].time = disk[f] => cache[f].text = disk[f]

\* When the edits end, the watcher comes to rest: it polls and sees no change any more,
\* with a program of the files on disk for the config on disk.  What was written behind
\* the last build's back it never takes in.  A config with an error, unless it was so
\* written, is reported as such, again at every poll.  (The edits are bounded, so they
\* do end.)
ComesToRest ==
    <>[](\/ conf.kind = "bad" /\ confErrs
         \/ /\ pc = "poll" /\ ~HasChanges
            /\ lateConf \/ config = conf
            /\ \A f \in Files \ late : program[f] = IF f \in Names(config) THEN disk[f] ELSE 0)

=============================================================================
