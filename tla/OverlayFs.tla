------------------------------ MODULE OverlayFs ------------------------------
(***************************************************************************)
(* The overlay file system of a session (crates/ts-project/src/            *)
(* overlayfs.rs, filechange.rs).  The editor's and the file watcher's      *)
(* notifications are queued (pending_file_changes) and folded into one     *)
(* summary when the session needs a snapshot: per file, what is left of    *)
(* the events is a record FileEvents, from which the new overlay and the   *)
(* file's part in the summary follow.                                      *)
(***************************************************************************)
EXTENDS Naturals, Sequences, FiniteSets

CONSTANTS
  Files,        \* the document URIs
  Texts,        \* the texts a file may have
  NoText        \* there is no such file, buffer or change

ASSUME TextsAssumption == NoText \notin Texts /\ Texts # {}
ASSUME FilesAssumption == IsFiniteSet(Files)

VARIABLES
  disk,         \* the text of a file on disk, or NoText
  pending,      \* pending_file_changes
  overlays      \* the overlay of a file: its text (or NoText) and matches_disk_text

overlayVars == <<pending, overlays>>

WatchKinds == {"watchCreate", "watchChange", "watchDelete"}
Kinds      == {"open", "close", "change", "save"} \cup WatchKinds
Change     == [kind : Kinds, file : Files, text : Texts \cup {NoText}]
Overlay    == [text : Texts \cup {NoText}, matches : BOOLEAN]
NoOverlay  == [text |-> NoText, matches |-> FALSE]

Chg(k, f, x) == [kind |-> k, file |-> f, text |-> x]
IsOpen(f)    == overlays[f].text # NoText

-----------------------------------------------------------------------------
NoEvents ==
  [open |-> NoText, closed |-> FALSE, watchChanged |-> FALSE, changes |-> NoText,
   saved |-> FALSE, created |-> FALSE, deleted |-> FALSE, panic |-> FALSE]

(* What one more event makes of a file's events.                           *)
FoldEvent(ev, c) ==
  IF ev.open # NoText THEN [ev EXCEPT !.panic = TRUE]
  ELSE
  CASE c.kind = "open"   -> [NoEvents EXCEPT !.open = c.text, !.panic = ev.panic]
    [] c.kind = "close"  -> [ev EXCEPT !.closed = TRUE, !.changes = NoText,
                                       !.saved = FALSE, !.watchChanged = FALSE]
    [] c.kind = "change" -> [ev EXCEPT !.panic = @ \/ ev.closed, !.changes = c.text,
                                       !.saved = FALSE, !.watchChanged = FALSE]
    [] c.kind = "save"   -> [ev EXCEPT !.saved = TRUE]
    [] c.kind = "watchCreate" ->
         IF ev.deleted THEN [ev EXCEPT !.deleted = FALSE, !.watchChanged = TRUE]
         ELSE [ev EXCEPT !.created = TRUE]
    [] c.kind = "watchChange" ->
         IF ev.created THEN ev ELSE [ev EXCEPT !.watchChanged = TRUE, !.saved = FALSE]
    [] c.kind = "watchDelete" ->
         [ev EXCEPT !.watchChanged = FALSE, !.saved = FALSE, !.created = FALSE,
                    !.deleted = IF ev.created THEN @ ELSE TRUE]

(* The events of the files in a batch of changes.                          *)
FileEvents(batch) ==
  LET after[i \in 0 .. Len(batch)] ==
        IF i = 0 THEN [f \in Files |-> NoEvents]
        ELSE [after[i - 1] EXCEPT ![batch[i].file] = FoldEvent(@, batch[i])]
  IN after[Len(batch)]

(* The events make process_changes panic, in some order of the files; a    *)
(* file opened with another text than its overlay's counts as a change.    *)
ProcessPanics(ev) ==
  \/ \E f \in Files :
       \/ ev[f].panic
       \/ ev[f].open = NoText /\ ev[f].closed /\ ~IsOpen(f)
       \/ /\ ev[f].open = NoText /\ (ev[f].changes # NoText \/ ev[f].saved)
          /\ ev[f].closed \/ ~IsOpen(f)
  \/ LET opens == {f \in Files : ev[f].open # NoText} IN
     Cardinality(opens) > 1 /\ \E f \in opens : overlays[f].text \in {NoText, ev[f].open}

(* A plausible bug: a file closed and opened again keeps its overlay.      *)
NewOverlayKept(f, ev) ==
  IF IsOpen(f) /\ ev.open # NoText THEN overlays[f]
  ELSE IF ev.open # NoText THEN [text |-> ev.open, matches |-> FALSE]
  ELSE IF ev.closed \/ ~IsOpen(f) THEN NoOverlay
  ELSE IF ev.changes # NoText THEN [text |-> ev.changes, matches |-> ev.saved]
  ELSE overlays[f]

(* The overlay a file's events leave: its text is known to be the disk's   *)
(* after a save, or when the watcher reported a change to that text.       *)
NewOverlay(f, ev) ==
  IF ev.open # NoText THEN [text |-> ev.open, matches |-> FALSE]
  ELSE IF ev.closed \/ ~IsOpen(f) THEN NoOverlay
  ELSE IF ev.changes # NoText THEN [text |-> ev.changes, matches |-> ev.saved]
  ELSE [text    |-> overlays[f].text,
        matches |-> \/ ev.saved
                    \/ IF ev.watchChanged THEN disk[f] = overlays[f].text
                       ELSE overlays[f].matches]

NewOverlays(ev) == [f \in Files |-> NewOverlay(f, ev[f])]

(* The summary that process_changes returns for a batch with these events. *)
ProcessChanges(batch, ev) ==
  LET Opens(f)  == ev[f].open # NoText
      Hidden(f) == IsOpen(f) /\ ~ev[f].closed     \* an overlay hides the disk
  IN
  [opened   |-> {f \in Files : Opens(f) /\ ~IsOpen(f)},
   reopened |-> {f \in Files : Opens(f) /\ ev[f].open = overlays[f].text},
   closed   |-> {f \in Files : ~Opens(f) /\ ev[f].closed},
   changed  |-> {f \in Files : IF Opens(f) THEN IsOpen(f) /\ ev[f].open # overlays[f].text
                               ELSE \/ ev[f].changes # NoText
                                    \/ ev[f].watchChanged /\ ~Hidden(f)},
   created  |-> {f \in Files : ~Opens(f) /\ ev[f].created /\ ~Hidden(f)},
   deleted  |-> {f \in Files : ~Opens(f) /\ ev[f].deleted /\ ~Hidden(f)},
   watched  |-> {batch[i].file : i \in {j \in DOMAIN batch : batch[j].kind \in WatchKinds}}]
=============================================================================
