----------------------------- MODULE ProjectFiles -----------------------------
(***************************************************************************)
(* What the programs of a session are made of: the editor and other        *)
(* programs change files, the watcher's events arrive later, and the       *)
(* session turns the pending changes (OverlayFs) into a new snapshot       *)
(* (snapshot.rs, snapshotfs.rs), marks its project dirty                   *)
(* (projectcollectionbuilder.rs) and rebuilds the program when it is asked *)
(* for (project.rs).  One project with a fixed list of files; the session  *)
(* runs on one thread, so each operation is a step.                        *)
(***************************************************************************)
EXTENDS OverlayFs

CONSTANTS
  NodeModules,  \* the files below node_modules
  Threshold,    \* EXCESSIVE_CHANGE_THRESHOLD
  MaxOps        \* bound: operations of the editor and on the disk

ASSUME ThresholdAssumption == Threshold \in Nat
ASSUME ModulesAssumption   == NodeModules \subseteq Files
ASSUME BoundAssumption     == MaxOps \in Nat

VARIABLES
  buffer,       \* the text in the editor, or NoText when the file is closed
  watchq,       \* watcher events that the client has not delivered yet
  ops,          \* operations of the editor and on the disk so far
  cache,        \* disk_files of the snapshot: text read (or NoText), needs_reload
  program,      \* the text of a file in the program, NoText when it is missing
  dirty,        \* Project::dirty
  dirtyFile,    \* Project::dirty_file_path: the one changed file, or NoFile
  early,        \* history: files read before their creation was reported
  bulk,         \* history: files whose changes an excessive batch lost
  panicked      \* process_changes panicked

NoFile == "none"

projectVars == <<program, dirty, dirtyFile>>
vars == <<disk, pending, overlays, buffer, watchq, ops, cache, projectVars, early, bulk,
          panicked>>

Cached    == [text : Texts \cup {NoText}, reload : BOOLEAN]
NotCached == [text |-> NoText, reload |-> FALSE]

(* The types of the disk, the editor, the session and its project.         *)
TypeOK ==
  /\ disk \in [Files -> Texts \cup {NoText}] /\ buffer \in [Files -> Texts \cup {NoText}]
  /\ pending \in Seq(Change) /\ watchq \in Seq(Change)
  /\ ops \in 0 .. MaxOps
  /\ overlays \in [Files -> Overlay]
  /\ cache \in [Files -> Cached]
  /\ program \in [Files -> Texts \cup {NoText}]
  /\ dirty \in BOOLEAN /\ dirtyFile \in Files \cup {NoFile}
  /\ early \subseteq Files /\ bulk \subseteq Files /\ panicked \in BOOLEAN

(* A project was loaded while no file was open.                            *)
Init ==
  /\ disk \in [Files -> Texts \cup {NoText}]
  /\ buffer = [f \in Files |-> NoText]
  /\ pending = <<>> /\ watchq = <<>> /\ ops = 0
  /\ overlays = [f \in Files |-> NoOverlay]
  /\ cache = [f \in Files |-> [text |-> disk[f], reload |-> FALSE]]
  /\ program = disk
  /\ dirty = FALSE /\ dirtyFile = NoFile
  /\ early = {} /\ bulk = {} /\ panicked = FALSE

-----------------------------------------------------------------------------
(* A plausible bug: the second changed file replaces the first.            *)
MarkLastChanged(p, S, kind) ==
  LET hit == S \cap {f \in Files : program[f] # NoText} IN
  IF S = {} \/ (p.dirty /\ p.dirtyFile = NoFile) THEN p
  ELSE [dirty |-> TRUE,
        dirtyFile |-> IF hit = S /\ kind # "deleted" THEN CHOOSE f \in hit : TRUE ELSE NoFile]

(* mark_files_changed: what events of one kind on the files S make of the  *)
(* project's dirty flag and single dirty file.  Files that are missing     *)
(* from the program have been looked for (seen_file).                      *)
MarkFilesChanged(p, S, kind) ==
  LET hit    == S \cap {f \in Files : program[f] # NoText}
      missed == S \ hit
      single == hit \cup (IF p.dirtyFile = NoFile THEN {} ELSE {p.dirtyFile})
  IN
  IF S = {} \/ (p.dirty /\ p.dirtyFile = NoFile) THEN p
  ELSE [dirty |-> TRUE,
        dirtyFile |-> IF missed = {} /\ kind # "deleted" /\ Cardinality(single) = 1
                      THEN CHOOSE f \in single : TRUE ELSE NoFile]

Excessive(s)          == Cardinality(s.created) + Cardinality(s.deleted)
                           + Cardinality(s.changed) > Threshold
ExcessiveNonCreate(s) == Cardinality(s.deleted) + Cardinality(s.changed) > Threshold

(* What did_change_files makes of the project.                             *)
DidChangeFiles(s) ==
  LET p == [dirty |-> dirty, dirtyFile |-> dirtyFile] IN
  IF ExcessiveNonCreate(s) THEN [dirty |-> TRUE, dirtyFile |-> NoFile]
  ELSE MarkFilesChanged(
         MarkFilesChanged(
           MarkFilesChanged(p, s.changed, "changed"), s.deleted, "deleted"),
         s.created, "created")

-----------------------------------------------------------------------------
IsCached(f) == cache[f].text # NoText
Reload(S)   == [f \in Files |-> IF f \in S /\ IsCached(f)
                                THEN [cache[f] EXCEPT !.reload = TRUE] ELSE cache[f]]
FromDisk(f) == [text |-> disk[f], reload |-> FALSE]

(* clone_snapshot for an excessive batch: invalidate_cache,                *)
(* invalidate_node_modules_cache, or, when none of the files is cached,    *)
(* forget the changes and deletions.                                       *)
BulkUpdate(s) ==
  LET overlap == \E f \in s.changed \cup s.deleted : IsCached(f) IN
  IF ~overlap THEN [cache |-> cache, summary |-> [s EXCEPT !.changed = {}, !.deleted = {}]]
  ELSE [cache |-> IF s.watched \subseteq NodeModules THEN Reload(NodeModules) ELSE Reload(Files),
        summary |-> s]

(* mark_dirty_files and convert_open_and_close_to_changes                  *)
FileUpdate(s, newOverlays) ==
  LET marked  == [f \in Files |-> IF f \in s.deleted THEN NotCached ELSE Reload(s.changed)[f]]
      gone    == {f \in s.closed : disk[f] = NoText}
  IN
  [cache   |-> [f \in Files |-> IF f \in s.closed THEN FromDisk(f) ELSE marked[f]],
   summary |-> [s EXCEPT
     !.created = @ \cup {f \in s.opened : marked[f] = NotCached},
     !.changed = @ \cup {f \in s.opened : /\ marked[f] # NotCached
                                          /\ newOverlays[f].text # cache[f].text}
                   \cup {f \in s.closed \ gone : disk[f] # overlays[f].text},
     !.deleted = @ \cup gone]]

-----------------------------------------------------------------------------
(* get_disk_file, reload_entry_if_needed                                   *)
ReadDisk(c, f) == IF c[f].text # NoText /\ ~c[f].reload THEN c[f] ELSE FromDisk(f)

(* The files a rebuilt program reads: only the changed one when it is      *)
(* still there and the old program can be cloned around it                 *)
(* (update_program), else all of them.                                     *)
FilesRead(p, c, over, cloned) ==
  LET f == p.dirtyFile IN
  IF f # NoFile /\ cloned /\ (over[f].text # NoText \/ ReadDisk(c, f).text # NoText)
  THEN {f} ELSE Files

Unreported(f) ==
  \E i \in DOMAIN watchq : watchq[i].file = f /\ watchq[i].kind = "watchCreate"

(* update_snapshot_inner: flush the batch, clone the snapshot and, when    *)
(* the project is asked for, bring its program up to date.                 *)
UpdateSnapshot(batch, requested, cloned) ==
  LET ev    == FileEvents(batch)
      s     == ProcessChanges(batch, ev)
      over  == NewOverlays(ev)
      u     == IF Excessive(s) THEN BulkUpdate(s) ELSE FileUpdate(s, over)
      p     == DidChangeFiles(u.summary)
      build == requested /\ p.dirty
      read  == IF build THEN FilesRead(p, u.cache, over, cloned) ELSE {}
      disks == {f \in read : over[f].text = NoText}
      fresh == {f \in disks : u.cache[f].text = NoText \/ u.cache[f].reload}
                 \cup IF Excessive(s) THEN {} ELSE s.closed
      lost  == s.opened \cup s.closed \cup ((s.changed \cup s.deleted)
                                            \ (u.summary.changed \cup u.summary.deleted))
  IN
  /\ overlays' = over
  /\ pending' = <<>>
  /\ cache' = [f \in Files |-> IF f \in disks THEN ReadDisk(u.cache, f) ELSE u.cache[f]]
  /\ program' = [f \in Files |-> IF f \notin read THEN program[f]
                                 ELSE IF over[f].text # NoText THEN over[f].text
                                 ELSE cache'[f].text]
  /\ dirty' = (p.dirty /\ ~build)
  /\ dirtyFile' = IF build THEN NoFile ELSE p.dirtyFile
  /\ early' = (early \ fresh) \cup {f \in fresh : Unreported(f)}
  /\ bulk' = IF Excessive(s) THEN bulk \cup lost 
            ELSE bulk \ (u.summary.changed \cup u.summary.deleted)
  /\ panicked' = (panicked \/ ProcessPanics(ev))

-----------------------------------------------------------------------------
Operate == ops < MaxOps /\ ops' = ops + 1

(* Another program writes or deletes a file; the watcher queues an event.  *)
WatchEvent(f, x) ==
  Chg(IF disk[f] = NoText THEN "watchCreate" ELSE IF x = NoText THEN "watchDelete"
      ELSE "watchChange", f, NoText)

WriteFile(f, x) ==
  /\ Operate /\ x # disk[f]
  /\ disk' = [disk EXCEPT ![f] = x]
  /\ watchq' = Append(watchq, WatchEvent(f, x))
  /\ UNCHANGED <<pending, overlays, buffer, cache, projectVars, early, bulk, panicked>>

(* did_change_watched_files                                                *)
DidChangeWatchedFiles ==
  /\ watchq # <<>>
  /\ watchq' = Tail(watchq)
  /\ pending' = Append(pending, Head(watchq))
  /\ UNCHANGED <<disk, overlays, buffer, ops, cache, projectVars, early, bulk, panicked>>

(* A plausible bug: the open event waits for the next request.             *)
DidOpenFileQueued(f, x, cloned) ==
  /\ buffer[f] = NoText /\ Operate
  /\ buffer' = [buffer EXCEPT ![f] = x]
  /\ pending' = Append(pending, Chg("open", f, x))
  /\ UNCHANGED <<disk, overlays, watchq, cache, projectVars, early, bulk, panicked>>

(* did_open_file: the batch is processed at once, and the file's project   *)
(* brought up to date.                                                     *)
DidOpenFile(f, x, cloned) ==
  /\ buffer[f] = NoText /\ Operate
  /\ buffer' = [buffer EXCEPT ![f] = x]
  /\ UpdateSnapshot(Append(pending, Chg("open", f, x)), TRUE, cloned)
  /\ UNCHANGED <<disk, watchq>>

(* did_change_file                                                         *)
DidChangeFile(f, x) ==
  /\ buffer[f] \notin {NoText, x} /\ Operate
  /\ buffer' = [buffer EXCEPT ![f] = x]
  /\ pending' = Append(pending, Chg("change", f, x))
  /\ UNCHANGED <<disk, overlays, watchq, cache, projectVars, early, bulk, panicked>>

(* did_close_file                                                          *)
DidCloseFile(f) ==
  /\ buffer[f] # NoText /\ Operate
  /\ buffer' = [buffer EXCEPT ![f] = NoText]
  /\ pending' = Append(pending, Chg("close", f, NoText))
  /\ UNCHANGED <<disk, overlays, watchq, cache, projectVars, early, bulk, panicked>>

(* did_save_file, after the editor has written the buffer                  *)
DidSaveFile(f) ==
  /\ buffer[f] # NoText /\ Operate
  /\ disk' = [disk EXCEPT ![f] = buffer[f]]
  /\ pending' = Append(pending, Chg("save", f, NoText))
  /\ watchq' = IF disk[f] = buffer[f] THEN watchq
               ELSE Append(watchq, WatchEvent(f, buffer[f]))
  /\ UNCHANGED <<overlays, buffer, cache, projectVars, early, bulk, panicked>>

(* A request for the project's language service, and an update that asks   *)
(* for no project (run_idle_cache_clean).                                  *)
Request(cloned) ==
  /\ pending # <<>> \/ dirty
  /\ UpdateSnapshot(pending, TRUE, cloned)
  /\ UNCHANGED <<disk, buffer, watchq, ops>>

IdleCacheClean ==
  /\ pending # <<>>
  /\ UpdateSnapshot(pending, FALSE, FALSE)
  /\ UNCHANGED <<disk, buffer, watchq, ops>>

Next ==
  \/ \E f \in Files, x \in Texts \cup {NoText} : WriteFile(f, x)
  \/ \E f \in Files, x \in Texts :
       DidChangeFile(f, x) \/ \E c \in BOOLEAN : DidOpenFile(f, x, c)
  \/ \E f \in Files : DidCloseFile(f) \/ DidSaveFile(f)
  \/ DidChangeWatchedFiles
  \/ \E c \in BOOLEAN : Request(c)
  \/ IdleCacheClean

Spec == Init /\ [][Next]_vars

-----------------------------------------------------------------------------
Current(f) == IF buffer[f] # NoText THEN buffer[f] ELSE disk[f]
Settled    == pending = <<>> /\ watchq = <<>>

(* No order of opens, edits, saves, closes and watch events that an editor *)
(* can send makes process_changes panic ("should see no changes after      *)
(* open", "overlay not found for closed file").                            *)
NeverPanics == ~panicked

(* After a batch, the overlays are the editor's buffers.  (The variables   *)
(* have their types throughout.)                                           *)
OverlaysAreBuffers ==
  /\ TypeOK
  /\ pending = <<>> => \A f \in Files : overlays[f].text = buffer[f]

(* Once the watcher's events are in, a program that is not dirty is made   *)
(* of the current texts of all its files, and a cached text that will not  *)
(* be read again is the disk's, for files that no overlay hides: the       *)
(* folding of events, the cache of disk files and the single-file update   *)
(* lose no change.  Two kinds of files are excepted: a file that was read  *)
(* between its creation and the event that reports it, and a file that was *)
(* opened or closed in an excessive batch or whose changes such a batch    *)
(* dropped.                                                                *)
ProgramCurrent ==
  Settled => \A f \in Files \ (early \cup bulk) :
    /\ ~dirty => program[f] = Current(f)
    /\ IsCached(f) /\ ~cache[f].reload /\ buffer[f] = NoText => cache[f].text = disk[f]
=============================================================================
