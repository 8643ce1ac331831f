-------------------------- MODULE SessionSnapshots --------------------------
(***************************************************************************)
(* The lifetime of a session's snapshots, and of what they share.         *)
(*                                                                         *)
(* A snapshot counts its references; at zero it is disposed, which gives   *)
(* back its program (whose parsed files go once no snapshot has the        *)
(* program) and its ownership of the extended configuration files its      *)
(* configs were read with.  The session holds a reference to its current   *)
(* snapshot; requests take handles.  A handle is made by counting a        *)
(* reference in the snapshot and then copying it by value, count included: *)
(* releasing the handle counts down in the copy.                           *)
(*                                                                         *)
(* Extended configs live in an OwnerCache.  Reading a config loads the     *)
(* files it extends on behalf of the snapshot under construction; an       *)
(* entry's lock is held while the entry is parsed, which loads what it     *)
(* extends in turn.  When the snapshot is complete it becomes an owner of  *)
(* every extended file of every config it has (add_owner), which panics    *)
(* when the file is not in the cache any more.                             *)
(*                                                                         *)
(* One thread at a time does all this: the session is used under a lock    *)
(* and its background tasks run inline.  A panic ends the LSP server's     *)
(* thread.  An API connection catches the panics of its requests, and the  *)
(* session goes on with what the panic has left behind.                    *)
(***************************************************************************)
EXTENDS Naturals, FiniteSets

CONSTANTS Files,      \* configuration files, extended ones included
          Configs,    \* the ones some project or open file may need
          Layouts,    \* what every file may extend on disk
          Handles,    \* places for handles that requests keep
          NoHandle,
          WatchEnabled, \* SessionOptions::watch_enabled
          MaxId,      \* bound: the id of the last snapshot
          MaxRefs     \* bound: references counted in one snapshot

ASSUME SnapshotsAssumption ==
    /\ IsFiniteSet(Files) /\ Configs \subseteq Files
    /\ Layouts \subseteq [Files -> SUBSET Files]
    /\ NoHandle \notin [at : Handles, lost : BOOLEAN]
    /\ WatchEnabled \in BOOLEAN
    /\ MaxId \in Nat /\ MaxRefs \in Nat

Ids == 0..MaxId

NoProgram == 0  \* the first snapshot has id 0 and no project

VARIABLES extends,   \* the layout on disk
          lastId,    \* Session::snapshot_id
          current,   \* the id of Session::snapshot
          refCount,  \* Snapshot::ref_count of every snapshot made (not of its copies)
          configs,   \* the configs in its registry
          program,   \* its program, named after the snapshot that made it
          disposals, \* how often it has been disposed
          handles,   \* the handles requests hold: a copy of a snapshot with its own count
          programRefs, \* ProgramCounter
          parsed,    \* programs whose parsed files are held in the parse cache
          owners,    \* the extended config cache: owners of a file, {} when not cached
          expired,   \* cached files that have changed on disk, or that extend one that has
          watched,   \* the current snapshot has an auto-import watch
          apiProjects, \* the projects the API has opened, in the current snapshot:
                     \* "none", all are "open", or one is "gone"
          task,      \* what the update has still to do: "watches", "warm" or "idle"
          asking,    \* the API request that waits for its handle, if any
          stopped,   \* "no", or what ended the session's thread
          handed,    \* history: snapshots counted for a caller
          abandoned, \* history: snapshots a panic has left half made
          dropped    \* history: snapshots that read a config they do not have

snapshotVars == <<lastId, current, refCount, configs, program, disposals, handles>>
shared == <<programRefs, parsed, owners, expired>>
apiVars == <<watched, apiProjects, asking>>
history == <<handed, abandoned, dropped>>
vars == <<extends, snapshotVars, shared, apiVars, task, stopped, history>>

Made(s) == s <= lastId
Live(s) == Made(s) /\ disposals[s] = 0
Running == stopped = "no" /\ task = "idle" /\ asking = NoHandle

-----------------------------------------------------------------------------
(* Reading configs.                                                        *)

\* The files that are loaded when files in roots are, if the ones in parse have to
\* be parsed; parsing loads what the file extends.
LoadedFrom(roots, parse) ==
    CHOOSE S \in SUBSET Files :
        /\ roots \subseteq S
        /\ \A f \in S \cap parse : extends[f] \subseteq S
        /\ \A T \in SUBSET Files :
               roots \subseteq T /\ (\A f \in T \cap parse : extends[f] \subseteq T) => S \subseteq T

\* Everything config c extends: a config that is met again is recognised as
\* circular when it is parsed, and loads nothing.
ExtendedFiles(c) == LoadedFrom(extends[c], Files \ {c})

\* load_and_acquire parses a file that is not cached or has expired.
MustParse(f) == owners[f] = {} \/ f \in expired

Load(c) == LoadedFrom(extends[c], {f \in Files \ {c} : MustParse(f)})

Loaded(read) == UNION {Load(c) : c \in read}

\* A file is loaded again while its entry is locked for its own parse.
SelfDeadlock(c) ==
    LET parse == {f \in Files \ {c} : MustParse(f)} IN
    \E f \in Load(c) \cap parse : f \in LoadedFrom(extends[f], parse)

-----------------------------------------------------------------------------
(* Building and disposing snapshots.                                       *)

\* The owners once snapshot s has read the configs in read, before add_owner.
AfterRead(s, read) ==
    LET loaded == Loaded(read) IN
    [f \in Files |-> IF f \in loaded THEN owners[f] \cup {s} ELSE owners[f]]

Extended(cs) == UNION {ExtendedFiles(c) : c \in cs}

\* Mutant: only what was read for s itself is owned by it.
AddOwnersRead(own, s, cs) == own

\* add_owner for every extended file of the configs of s.
AddOwners(own, s, cs) ==
    LET extended == Extended(cs) IN
    [f \in Files |-> IF f \in extended THEN own[f] \cup {s} ELSE own[f]]

\* Mutant: only what the configs extend directly is released.
ReleaseOwnerDirect(own, s, cs) ==
    [f \in Files |-> IF \E c \in cs : f \in extends[c] THEN own[f] \ {s} ELSE own[f]]

\* Snapshot::dispose for the owner cache: release(f, s), and an entry without
\* owners is removed.
ReleaseOwner(own, s, cs) ==
    LET extended == Extended(cs) IN
    [f \in Files |-> IF f \in extended THEN own[f] \ {s} ELSE own[f]]

\* Mutant: a program is entered, not counted.
RefProgramOnce(refs, p) == [refs EXCEPT ![p] = 1]

\* ProgramCounter::ref and deref; a snapshot without a project has no program.
RefProgram(refs, p) == IF p = NoProgram THEN refs ELSE [refs EXCEPT ![p] = @ + 1]
DerefProgram(refs, p) == IF p = NoProgram THEN refs ELSE [refs EXCEPT ![p] = @ - 1]

\* Reading the configs never ends.
CloneDeadlocks(read) ==
    /\ \E c \in read : SelfDeadlock(c)
    /\ stopped' = "deadlock"
    /\ UNCHANGED <<lastId, current, refCount, configs, program, disposals, shared, dropped,
                   abandoned>>

\* add_owner does not find an extended file of the new registry cs.  The program has
\* been counted by then and some of the files, which come in no particular order, owned.
ClonePanics(s, read, cs, p, caught) ==
    LET found == AfterRead(s, read) IN
    /\ ~ \E c \in read : SelfDeadlock(c)
    /\ \E f \in Extended(cs) : found[f] = {}
    /\ \E done \in SUBSET {f \in Extended(cs) : found[f] # {}} :
           owners' = [f \in Files |-> IF f \in done THEN found[f] \cup {s} ELSE found[f]]
    /\ lastId' = s
    /\ refCount' = [refCount EXCEPT ![s] = 1]
    /\ program' = [program EXCEPT ![s] = p]
    /\ programRefs' = RefProgram(programRefs, p)
    /\ parsed' = parsed \cup {p}
    /\ expired' = expired \ Loaded(read)
    /\ dropped' = IF read \subseteq cs THEN dropped ELSE dropped \cup {s}
    /\ abandoned' = abandoned \cup {s}
    /\ stopped' = IF caught THEN "no" ELSE "add_owner"
    /\ UNCHANGED <<current, configs, disposals>>

\* Snapshot::clone_snapshot makes snapshot s with registry cs and program p; count is
\* its reference count when loser is dereferenced: the snapshot the session gives up
\* for it, or s itself when it is discarded.
CloneSucceeds(s, read, cs, p, count, loser) ==
    LET found == AfterRead(s, read)
        built == AddOwners(found, s, cs)
        counted == RefProgram(programRefs, p)
    IN
    /\ ~ \E c \in read : SelfDeadlock(c)
    /\ \A f \in Extended(cs) : found[f] # {}
    /\ lastId' = s
    /\ current' = IF loser = s THEN current ELSE s
    /\ configs' = [configs EXCEPT ![s] = cs]
    /\ program' = [program EXCEPT ![s] = p]
    /\ refCount' = LET made == [refCount EXCEPT ![s] = count]
                   IN  [made EXCEPT ![loser] = @ - 1]
    /\ IF refCount'[loser] = 0
       THEN /\ disposals' = [disposals EXCEPT ![loser] = @ + 1]
            /\ owners' = ReleaseOwner(built, loser, configs'[loser])
            /\ programRefs' = DerefProgram(counted, program'[loser])
       ELSE /\ UNCHANGED disposals
            /\ owners' = built
            /\ programRefs' = counted
    /\ parsed' = {q \in parsed \cup {p} : programRefs'[q] > 0}
    /\ expired' = {f \in expired \ Loaded(read) : owners'[f] # {}}
    /\ dropped' = IF read \subseteq cs THEN dropped ELSE dropped \cup {s}
    /\ UNCHANGED <<stopped, abandoned>>

Clone(s, read, cs, p, count, loser, caught) ==
    /\ \/ CloneDeadlocks(read)
       \/ ClonePanics(s, read, cs, p, caught)
       \/ CloneSucceeds(s, read, cs, p, count, loser)
    /\ UNCHANGED extends

\* A clone of snapshot base may have its configs and others that are read, and its
\* program, if it has one, or a new one.
CloneOf(base, count, losers, caught) ==
    \E read \in SUBSET Configs, loser \in losers :
        \E cs \in SUBSET (configs[base] \cup read),
           p \in {lastId + 1} \cup (IF base = 0 THEN {} ELSE {program[base]}) :
              Clone(lastId + 1, read, cs, p, count, loser, caught)

\* update_program deletes the project of a config that is missing, and the API's list
\* keeps the config; a request for one of its files may create the project again.
ProjectsAfter ==
    IF current' = current \/ apiProjects = "none" THEN {apiProjects} ELSE {"open", "gone"}

\* Snapshot::deref of a copy of snapshot s that counts n.
DerefCopy(s, n) ==
    IF n - 1 = 0
    THEN /\ disposals' = [disposals EXCEPT ![s] = @ + 1]
         /\ owners' = ReleaseOwner(owners, s, configs[s])
         /\ programRefs' = DerefProgram(programRefs, program[s])
         /\ parsed' = {q \in parsed : programRefs'[q] > 0}
         /\ expired' = {f \in expired : owners'[f] # {}}
    ELSE UNCHANGED <<disposals, owners, programRefs, parsed, expired>>

-----------------------------------------------------------------------------

Init ==
    /\ extends \in Layouts
    /\ lastId = 0 /\ current = 0
    /\ refCount = [s \in Ids |-> IF s = 0 THEN 1 ELSE 0]
    /\ configs = [s \in Ids |-> {}]
    /\ program = [s \in Ids |-> 0]
    /\ disposals = [s \in Ids |-> 0]
    /\ handles = [h \in Handles |-> NoHandle]
    /\ programRefs = [p \in Ids |-> 0]
    /\ parsed = {}
    /\ owners = [f \in Files |-> {}]
    /\ expired = {}
    /\ watched = TRUE /\ apiProjects = "none"
    /\ task = "idle" /\ asking = NoHandle
    /\ stopped = "no"
    /\ handed = {} /\ abandoned = {} /\ dropped = {}

\* The user edits an extended file: its entry, and those that extend it, expire.  (After
\* the last snapshot nothing would be read again.)
EditExtended(f) ==
    /\ Running
    /\ lastId < MaxId
    /\ expired' = expired \cup
           {g \in Files : owners[g] # {} /\ (g = f \/ f \in LoadedFrom(extends[g], Files))}
    /\ UNCHANGED <<extends, snapshotVars, programRefs, parsed, owners, apiVars, task, stopped,
                   history>>

\* Mutant: the new snapshot is always counted for a caller.
UpdateSnapshotRef ==
    /\ Running
    /\ lastId < MaxId
    /\ CloneOf(current, 2, {current}, FALSE)
    /\ apiProjects' \in ProjectsAfter
    /\ task' = IF current' = current THEN "idle" ELSE "watches"
    /\ UNCHANGED <<handles, watched, asking, handed>>

\* Session::update_snapshot_inner: the current snapshot is cloned and replaced, and a
\* background task is enqueued, which the queue runs at once.
UpdateSnapshot ==
    /\ Running
    /\ lastId < MaxId
    /\ CloneOf(current, 1, {current}, FALSE)
    /\ apiProjects' \in ProjectsAfter
    /\ task' = IF current' = current THEN "idle" ELSE "watches"
    /\ UNCHANGED <<handles, watched, asking, handed>>

\* api_open_project, api_update_with_file_changes: an update whose snapshot is counted
\* for the caller (update_snapshot_ref).  handle_api_request brings all projects up to
\* date the API has opened: it fails when one is gone, and the snapshot then has no
\* auto-import watch.  The project to open is lost when its config is missing.
ApiUpdate(h, projects, fails, lost) ==
    /\ Running
    /\ lastId < MaxId
    /\ handles[h] = NoHandle
    /\ fails => apiProjects = "gone" /\ projects = "gone" /\ ~lost
    /\ lost => projects = "gone"
    /\ apiProjects = "none" /\ projects = "gone" => lost
    /\ projects = "none" => apiProjects = "none"
    /\ CloneOf(current, 2, {current}, TRUE)
    /\ IF current' = current
       THEN UNCHANGED <<handed, task, apiVars>>
       ELSE /\ handed' = handed \cup {lastId + 1}
            /\ task' = "watches"
            /\ watched' = (watched /\ ~fails)
            /\ apiProjects' = projects
            /\ asking' = [at |-> h, lost |-> lost]
    /\ UNCHANGED handles

\* Session::update_watches unwraps the auto-import watch of the new snapshot.
UpdateWatches ==
    /\ stopped = "no" /\ task = "watches"
    /\ IF WatchEnabled /\ ~watched
       THEN /\ task' = "idle" /\ asking' = NoHandle
            /\ stopped' = IF asking = NoHandle THEN "unwrap" ELSE "no"
       ELSE task' = "warm" /\ UNCHANGED <<asking, stopped>>
    /\ UNCHANGED <<extends, snapshotVars, shared, watched, apiProjects, history>>

\* Session::warm_auto_import_cache, on a copy of the snapshot just adopted: it is counted
\* (try_ref) and cloned for a file, whose project may need an update; the clone is
\* adopted unless the context is canceled, and the copy released.
WarmAutoImports ==
    /\ stopped = "no" /\ task = "warm"
    /\ lastId < MaxId
    /\ CloneOf(current, 1, {current, lastId + 1}, asking # NoHandle)
    /\ apiProjects' \in ProjectsAfter
    /\ task' = "idle"
    /\ asking' = IF abandoned' = abandoned THEN asking ELSE NoHandle
    /\ UNCHANGED <<handles, watched, handed>>

\* Nothing to warm: the file is not open, or the registry is prepared.
SkipWarming ==
    /\ stopped = "no" /\ task = "warm"
    /\ task' = "idle"
    /\ UNCHANGED <<extends, snapshotVars, shared, apiVars, stopped, history>>

\* The API request makes its handle of the snapshot that is current now.  Without the
\* project it has opened it panics, and the handle is never released.
ApiHandle ==
    /\ stopped = "no" /\ task = "idle" /\ asking # NoHandle
    /\ refCount' = [refCount EXCEPT ![current] = @ + 1]
    /\ handles' = IF asking.lost THEN handles
                  ELSE [handles EXCEPT ![asking.at] = [of |-> current, count |-> refCount'[current]]]
    /\ handed' = handed \cup {current}
    /\ asking' = NoHandle
    /\ UNCHANGED <<extends, lastId, current, configs, program, disposals, shared, watched,
                   apiProjects, task, stopped, abandoned, dropped>>

\* Mutant: the copy is made without counting it (clone_host).
CloneHandleUncounted(h) ==
    /\ Running
    /\ current # 0
    /\ handles[h] = NoHandle
    /\ handles' = [handles EXCEPT ![h] = [of |-> current, count |-> refCount[current]]]
    /\ handed' = handed \cup {current}
    /\ UNCHANGED <<extends, lastId, current, refCount, configs, program, disposals, shared,
                   apiVars, task, stopped, abandoned, dropped>>

\* Snapshot::clone_handle for a request that keeps the snapshot while it works.
CloneHandle(h) ==
    /\ Running
    /\ current # 0
    /\ handles[h] = NoHandle
    /\ refCount[current] < MaxRefs
    /\ refCount' = [refCount EXCEPT ![current] = @ + 1]
    /\ handles' = [handles EXCEPT ![h] = [of |-> current, count |-> refCount'[current]]]
    /\ handed' = handed \cup {current}
    /\ UNCHANGED <<extends, lastId, current, configs, program, disposals, shared, apiVars, task,
                   stopped, abandoned, dropped>>

\* Session::release_snapshot_handle.
ReleaseHandle(h) ==
    /\ Running
    /\ handles[h] # NoHandle
    /\ DerefCopy(handles[h].of, handles[h].count)
    /\ handles' = [handles EXCEPT ![h] = NoHandle]
    /\ UNCHANGED <<extends, lastId, current, refCount, configs, program, apiVars, task, stopped,
                   history>>

\* Session::get_language_service_with_auto_imports: the snapshot of a handle is cloned
\* for a file.  The clone is adopted unless the session has moved on or no project is
\* found for the file.
AutoImports(h) ==
    /\ Running
    /\ lastId < MaxId
    /\ handles[h] # NoHandle
    /\ LET base == handles[h].of IN
       CloneOf(base, 1, IF base = current THEN {current, lastId + 1} ELSE {lastId + 1}, FALSE)
    /\ apiProjects' \in ProjectsAfter
    /\ UNCHANGED <<handles, watched, task, asking, handed>>

Next ==
    \/ \E f \in Files : EditExtended(f)
    \/ UpdateSnapshot
    \/ \E h \in Handles, projects \in {"none", "open", "gone"}, fails, lost \in BOOLEAN :
           ApiUpdate(h, projects, fails, lost)
    \/ UpdateWatches
    \/ WarmAutoImports
    \/ SkipWarming
    \/ ApiHandle
    \/ \E h \in Handles : CloneHandle(h) \/ ReleaseHandle(h) \/ AutoImports(h)

Spec == Init /\ [][Next]_vars

-----------------------------------------------------------------------------

\* The types of the snapshots, their handles and what they share; no count goes below
\* zero, which the code answers with a panic.
TypeOK ==
    /\ extends \in Layouts
    /\ lastId \in Ids /\ current \in 0..lastId
    /\ refCount \in [Ids -> Nat] /\ disposals \in [Ids -> Nat]
    /\ configs \in [Ids -> SUBSET Configs] /\ program \in [Ids -> Ids]
    /\ \A h \in Handles : handles[h] # NoHandle =>
           handles[h].of \in Ids /\ handles[h].count \in Nat
    /\ programRefs \in [Ids -> Nat] /\ parsed \subseteq Ids
    /\ owners \in [Files -> SUBSET Ids] /\ expired \subseteq Files
    /\ watched \in BOOLEAN /\ apiProjects \in {"none", "open", "gone"}
    /\ task \in {"watches", "warm", "idle"}
    /\ asking \in [at : Handles, lost : BOOLEAN] \cup {NoHandle}
    /\ stopped \in {"no", "add_owner", "unwrap", "deadlock"}
    /\ handed \subseteq Ids /\ abandoned \subseteq Ids /\ dropped \subseteq Ids

\* No snapshot is disposed twice, and none while it is the session's or a request
\* holds a handle of it, although every handle counts in a copy of its own.
DisposedOnceAndLast ==
    /\ \A s \in Ids : disposals[s] <= 1
    /\ disposals[current] = 0
    /\ \A h \in Handles : handles[h] # NoHandle => disposals[handles[h].of] = 0

\* A snapshot the session has moved on from is disposed, unless it was ever counted for
\* a caller or its own clone panicked.  The reference counted for a handle is never given
\* back (clone_handle).  The one update_snapshot_ref counts for an API caller is not
\* either, even when the caller gets no handle of this snapshot: warming replaces it
\* before the handle is made, or a panic comes first.
ReplacedIsDisposed ==
    \A s \in 1..lastId : s = current \/ s \in handed \cup abandoned \/ disposals[s] = 1

\* A program is counted once for every snapshot that has it and is not disposed, and
\* its parsed files are held exactly as long: dispose releases them with the last
\* snapshot, whoever made the program and in whatever order the snapshots go.  (The
\* variables have their types throughout: no count goes below zero.)
ProgramsHeld ==
    /\ TypeOK
    /\ \A p \in Ids :
           /\ programRefs[p] = Cardinality({s \in 1..lastId : Live(s) /\ program[s] = p})
           /\ p \in parsed <=> programRefs[p] > 0

\* Every extended file of every config of a snapshot in use is cached and the snapshot
\* is among its owners, whichever snapshot first read the config.  Disposed snapshots
\* own nothing, unless they read a config they did not keep: such a config was loaded on
\* behalf of the snapshot and is not in the registry dispose walks.
OwnersAreUsers ==
    /\ \A s \in 1..lastId : Live(s) => \A f \in Extended(configs[s]) : s \in owners[f]
    /\ \A f \in Files : \A s \in owners[f] : Live(s) \/ s \in dropped

\* What stops the session's thread, or panics in a clone of an API request, has a cause
\* that came earlier.  add_owner panics after some snapshot has read a config it did not
\* keep: its ownership keeps an extended file in the cache without what that file
\* extends.  update_watches unwraps a missing auto-import watch after the API has opened
\* a project: once the project is gone the next API request fails and the watch is lost
\* for good.  Parsing under the entry's lock waits for itself when extended files form a
\* circle that does not go through the config being read; a circle through the config is
\* recognised before anything is locked twice.  The panic of api_open_project over a
\* missing project stops nothing.
StopsExplained ==
    /\ abandoned # {} \/ stopped = "add_owner" => dropped # {}
    /\ stopped = "unwrap" => WatchEnabled /\ apiProjects # "none"
    /\ stopped = "deadlock" => \E c \in Configs : \E f \in ExtendedFiles(c) \ {c} :
                                   f \in LoadedFrom(extends[f], Files \ {c})

=============================================================================
