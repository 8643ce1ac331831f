----------------------------- MODULE CheckerPool -----------------------------
(***************************************************************************)
(* The language server's checker pool (crates/ts-project/src/              *)
(* checkerpool.rs): a fixed number of checker slots shared by threads.     *)
(*                                                                         *)
(* A call of with_checker or with_checker_for_state_identity takes a slot  *)
(* under the pool mutex (waiting on a condition variable when none is      *)
(* free), locks the slot's semantic state, runs a callback, releases the   *)
(* slot under the pool mutex and only then replaces a canceled state and   *)
(* unlocks it.  Each step below is one critical section of the pool mutex, *)
(* or one operation on the semantic mutex.  A callback may itself call the *)
(* pool: call <<t, d>> is thread t's call at nesting depth d.              *)
(***************************************************************************)
EXTENDS Integers, FiniteSets

CONSTANTS
  Threads,            \* threads that call the pool
  MaxCheckers,        \* number of slots (new_checker_pool's max_checkers)
  Files,              \* source files with a checker association
  Requests,           \* non-empty request ids
  Diags,              \* global (file-less) diagnostics a checker may find
  NoFile,             \* file: None
  NoRequest,          \* the empty request id
  RequestsOf(_),      \* the request ids a thread may use
  MaxDepth,           \* bound: nesting depth of calls of one thread
  PanicAfterCancel    \* may a callback panic once its checker is canceled?

ASSUME MaxCheckersAssumption == MaxCheckers \in Nat \ {0}
ASSUME MaxDepthAssumption    == MaxDepth \in Nat \ {0}
ASSUME FilesAssumption       == NoFile \notin Files
ASSUME RequestsAssumption    ==
  /\ NoRequest \notin Requests
  /\ \A t \in Threads : RequestsOf(t) \subseteq Requests \cup {NoRequest}
ASSUME DiagsAssumption       == IsFiniteSet(Diags)
ASSUME PanicAssumption       == PanicAfterCancel \in BOOLEAN

Slots  == 0 .. MaxCheckers - 1
NoSlot == -1
Calls  == Threads \X (1 .. MaxDepth)

VARIABLES
  active,         \* PoolState.active_slots
  fileAssoc,      \* PoolState.file_associations
  reqAssoc,       \* PoolState.request_associations
  accumulated,    \* PoolState.global_diag_accumulated, as a set
  changed,        \* PoolState.global_diag_changed
  count,          \* PoolState.global_diag_checker_count
  semLocked,      \* the slot's semantic_state mutex is held
  canceled,       \* CheckerState.was_canceled of the slot's state
  diags,          \* the state's file-less diagnostics
  pc,             \* where a call is
  arg,            \* its arguments: file, request id, wanted slot
  slot,           \* the slot it has been given
  taken,          \* a publisher has taken the changed flag
  published,      \* global diagnostics last published to the client
  leaked,         \* history: slots whose release panicked
  failed          \* history: the last publication failed

poolVars == <<active, fileAssoc, reqAssoc, accumulated, changed, count, leaked>>
semVars  == <<semLocked, canceled, diags>>
callVars == <<pc, arg, slot>>
pubVars  == <<taken, published, failed>>
vars     == <<poolVars, semVars, callVars, pubVars>>

Arg == [file : Files \cup {NoFile}, req : Requests \cup {NoRequest},
        want : Slots \cup {NoSlot}]
NoArg == [file |-> NoFile, req |-> NoRequest, want |-> NoSlot]

Stage == {"idle", "acquiring", "waiting", "acquired", "callback", "released",
          "unwinding", "unwound", "leaking"}

PoolType ==
  /\ active \in [Slots -> BOOLEAN]
  /\ fileAssoc \in [Files -> Slots \cup {NoSlot}]
  /\ reqAssoc \in [Requests -> Slots \cup {NoSlot}]
  /\ accumulated \in SUBSET Diags
  /\ changed \in BOOLEAN
  /\ count \in [Slots -> Nat]
  /\ leaked \in SUBSET Slots

StateType ==
  /\ semLocked \in [Slots -> BOOLEAN]
  /\ canceled \in [Slots -> BOOLEAN]
  /\ diags \in [Slots -> SUBSET Diags]

CallType ==
  /\ pc \in [Calls -> Stage]
  /\ arg \in [Calls -> Arg]
  /\ slot \in [Calls -> Slots \cup {NoSlot}]
  /\ \A c \in Calls :
       pc[c] \in {"acquired", "callback", "released", "unwinding", "unwound", "leaking"}
         => slot[c] \in Slots

PublisherType == taken \in BOOLEAN /\ published \in SUBSET Diags /\ failed \in BOOLEAN

(* The types of the pool's state; a call past acquire has been given a slot. *)
TypeOK == PoolType /\ StateType /\ CallType /\ PublisherType

Init ==
  /\ active = [s \in Slots |-> FALSE]
  /\ fileAssoc = [f \in Files |-> NoSlot]
  /\ reqAssoc = [r \in Requests |-> NoSlot]
  /\ accumulated = {}
  /\ changed = FALSE
  /\ count = [s \in Slots |-> 0]
  /\ semLocked = [s \in Slots |-> FALSE]
  /\ canceled = [s \in Slots |-> FALSE]
  /\ diags = [s \in Slots |-> {}]
  /\ pc = [c \in Calls |-> "idle"]
  /\ arg = [c \in Calls |-> NoArg]
  /\ slot = [c \in Calls |-> NoSlot]
  /\ taken = FALSE
  /\ published = {}
  /\ leaked = {}
  /\ failed = FALSE

-----------------------------------------------------------------------------
(* A thread runs its innermost call only.                                  *)
Outer(c) == <<c[1], c[2] - 1>>
Inner(c) == <<c[1], c[2] + 1>>
Innermost(c) == c[2] < MaxDepth => pc[Inner(c)] = "idle"

(* A call that has been given its slot and has not released it.            *)
Owns(c) == pc[c] \in {"acquired", "callback", "unwinding", "unwound"}

(* A call that holds the semantic_state guard of its slot.                 *)
HoldsState(c) == pc[c] \in {"callback", "released", "unwinding", "leaking"}

RequestSlot(c) == IF arg[c].req = NoRequest THEN NoSlot ELSE reqAssoc[arg[c].req]
FileSlot(c) == IF arg[c].file = NoFile THEN NoSlot ELSE fileAssoc[arg[c].file]

(* active_slots.iter().position(|active| !*active)                         *)
FirstInactive ==
  IF \A s \in Slots : active[s]
  THEN NoSlot
  ELSE CHOOSE s \in Slots : ~active[s] /\ \A q \in Slots : q < s => active[q]

(* What one pass of the loop of acquire_checker_slot (want = NoSlot) or of *)
(* acquire_checker_slot_by_index can take; NoSlot when it must wait or     *)
(* panic.                                                                  *)
Chosen(c) ==
  CASE RequestSlot(c) # NoSlot ->
         IF active[RequestSlot(c)] THEN NoSlot ELSE RequestSlot(c)
    [] RequestSlot(c) = NoSlot /\ arg[c].want # NoSlot ->
         IF active[arg[c].want] THEN NoSlot ELSE arg[c].want
    [] OTHER ->
         IF FileSlot(c) # NoSlot /\ ~active[FileSlot(c)]
         THEN FileSlot(c)
         ELSE FirstInactive

(* The panics of the two acquire loops: a request that already has a       *)
(* checker asks again, assert_not_reentrant, and a nested call that would  *)
(* have to wait.                                                           *)
AcquirePanics(c) ==
  \/ /\ RequestSlot(c) # NoSlot
     /\ \/ active[RequestSlot(c)]
        \/ arg[c].want \notin {NoSlot, RequestSlot(c)}
  \/ /\ Chosen(c) # NoSlot
     /\ \E d \in 1 .. c[2] - 1 : slot[<<c[1], d>>] = Chosen(c)
  \/ Chosen(c) = NoSlot /\ c[2] > 1

(* Plausible bug: the waiting calls are not notified.                      *)
NotifyAllNobody(stage) == stage

(* cond.notify_all()                                                       *)
NotifyAll(stage) ==
  [c \in Calls |-> IF stage[c] = "waiting" THEN "acquiring" ELSE stage[c]]

ForgetRequest(r) ==
  IF r = NoRequest THEN reqAssoc ELSE [reqAssoc EXCEPT ![r] = NoSlot]

(* The stages after call c has unwound: the panic goes on in the callback  *)
(* that made the call.                                                     *)
Unwound(c) ==
  [d \in Calls |-> IF d = c THEN "idle"
                   ELSE IF c[2] > 1 /\ d = Outer(c) THEN "unwinding" ELSE pc[d]]

Forget(c) ==
  /\ arg' = [arg EXCEPT ![c] = NoArg]
  /\ slot' = [slot EXCEPT ![c] = NoSlot]

-----------------------------------------------------------------------------
(* with_checker(file, request) and with_checker_for_state_identity(want).  *)
Begin(c, a) ==
  /\ pc[c] = "idle"
  /\ c[2] > 1 => pc[Outer(c)] = "callback"
  /\ Innermost(c)
  /\ a.req \in RequestsOf(c[1])
  /\ a.want # NoSlot => a.file = NoFile
  /\ pc' = [pc EXCEPT ![c] = "acquiring"]
  /\ arg' = [arg EXCEPT ![c] = a]
  /\ UNCHANGED <<slot, poolVars, semVars, pubVars>>

(* The end of acquire_checker_slot and acquire_checker_slot_by_index.      *)
TakeSlot(c) ==
  /\ pc[c] = "acquiring"
  /\ ~AcquirePanics(c)
  /\ Chosen(c) # NoSlot
  /\ pc' = [pc EXCEPT ![c] = "acquired"]
  /\ slot' = [slot EXCEPT ![c] = Chosen(c)]
  /\ active' = [active EXCEPT ![Chosen(c)] = TRUE]
  /\ fileAssoc' = IF arg[c].file = NoFile \/ RequestSlot(c) # NoSlot
                  THEN fileAssoc
                  ELSE [fileAssoc EXCEPT ![arg[c].file] = Chosen(c)]
  /\ reqAssoc' = IF arg[c].req = NoRequest
                 THEN reqAssoc
                 ELSE [reqAssoc EXCEPT ![arg[c].req] = Chosen(c)]
  /\ UNCHANGED <<arg, accumulated, changed, count, leaked, semVars, pubVars>>

(* cond.wait: the pool mutex is released while the call sleeps.            *)
Wait(c) ==
  /\ pc[c] = "acquiring"
  /\ ~AcquirePanics(c)
  /\ Chosen(c) = NoSlot
  /\ pc' = [pc EXCEPT ![c] = "waiting"]
  /\ UNCHANGED <<arg, slot, poolVars, semVars, pubVars>>

(* A condition variable may wake without a notification.                   *)
SpuriousWakeup(c) ==
  /\ pc[c] = "waiting"
  /\ pc' = [pc EXCEPT ![c] = "acquiring"]
  /\ UNCHANGED <<arg, slot, poolVars, semVars, pubVars>>

AcquirePanic(c) ==
  /\ pc[c] = "acquiring"
  /\ AcquirePanics(c)
  /\ pc' = Unwound(c)
  /\ Forget(c)
  /\ UNCHANGED <<poolVars, semVars, pubVars>>

LockState(c) ==
  /\ pc[c] = "acquired"
  /\ ~semLocked[slot[c]]
  /\ semLocked' = [semLocked EXCEPT ![slot[c]] = TRUE]
  /\ pc' = [pc EXCEPT ![c] = "callback"]
  /\ UNCHANGED <<arg, slot, canceled, diags, poolVars, pubVars>>

(* The callback checks something and finds a global diagnostic.            *)
FindDiagnostic(c, d) ==
  /\ pc[c] = "callback" /\ Innermost(c)
  /\ ~canceled[slot[c]]
  /\ diags' = [diags EXCEPT ![slot[c]] = @ \cup {d}]
  /\ UNCHANGED <<semLocked, canceled, callVars, poolVars, pubVars>>

(* check_source_file finds its context canceled and marks the state.       *)
MarkCanceled(c) ==
  /\ pc[c] = "callback" /\ Innermost(c)
  /\ ~canceled[slot[c]]
  /\ canceled' = [canceled EXCEPT ![slot[c]] = TRUE]
  /\ UNCHANGED <<semLocked, diags, callVars, poolVars, pubVars>>

CallbackPanic(c) ==
  /\ pc[c] = "callback" /\ Innermost(c)
  /\ canceled[slot[c]] => PanicAfterCancel
  /\ pc' = [pc EXCEPT ![c] = "unwinding"]
  /\ UNCHANGED <<arg, slot, semVars, poolVars, pubVars>>

(* The callback returns.                                                   *)
ReleaseGuard(c) == pc[c] = "callback" /\ Innermost(c)

(* Plausible bugs of release_checker: the count of a replaced checker is   *)
(* kept; only the first diagnostics set the flag.                          *)
CollectKeepsCount(s) ==
  IF canceled[s] \/ Cardinality(diags[s]) = count[s]
  THEN UNCHANGED <<count, accumulated, changed>>
  ELSE /\ count' = [count EXCEPT ![s] = Cardinality(diags[s])]
       /\ accumulated' = accumulated \cup diags[s]
       /\ changed' = (changed \/ accumulated' # accumulated)
CollectFlagsOnce(s) ==
  IF canceled[s] \/ Cardinality(diags[s]) = count[s]
  THEN UNCHANGED <<count, accumulated, changed>>
  ELSE /\ count' = [count EXCEPT ![s] = Cardinality(diags[s])]
       /\ accumulated' = accumulated \cup diags[s]
       /\ changed' = (changed \/ accumulated = {})

(* release_checker.  The diagnostics of a checker only grow, so their      *)
(* number tells whether there are new ones.                                *)
CollectDiagnostics(s) ==
  IF canceled[s]
  THEN count' = [count EXCEPT ![s] = 0] /\ UNCHANGED <<accumulated, changed>>
  ELSE IF Cardinality(diags[s]) = count[s]
  THEN UNCHANGED <<count, accumulated, changed>>
  ELSE /\ count' = [count EXCEPT ![s] = Cardinality(diags[s])]
       /\ accumulated' = accumulated \cup diags[s]
       /\ changed' = (changed \/ accumulated' # accumulated)

(* Plausible bugs: the request stays associated; the state is unlocked     *)
(* with the slot, before it is replaced.                                   *)
ReleaseKeepsRequest(c) ==
  /\ ReleaseGuard(c)
  /\ CollectDiagnostics(slot[c])
  /\ active' = [active EXCEPT ![slot[c]] = FALSE]
  /\ pc' = NotifyAll([pc EXCEPT ![c] = "released"])
  /\ UNCHANGED <<fileAssoc, reqAssoc, leaked, arg, slot, semVars, pubVars>>
ReleaseUnlocksFirst(c) ==
  /\ ReleaseGuard(c)
  /\ reqAssoc' = ForgetRequest(arg[c].req)
  /\ CollectDiagnostics(slot[c])
  /\ active' = [active EXCEPT ![slot[c]] = FALSE]
  /\ semLocked' = [semLocked EXCEPT ![slot[c]] = FALSE]
  /\ pc' = NotifyAll([pc EXCEPT ![c] = "released"])
  /\ UNCHANGED <<fileAssoc, leaked, arg, slot, canceled, diags, pubVars>>

(* release_checker: the critical section that gives the slot back.         *)
Release(c) ==
  /\ ReleaseGuard(c)
  /\ reqAssoc' = ForgetRequest(arg[c].req)
  /\ CollectDiagnostics(slot[c])
  /\ active' = [active EXCEPT ![slot[c]] = FALSE]
  /\ pc' = NotifyAll([pc EXCEPT ![c] = "released"])
  /\ UNCHANGED <<fileAssoc, leaked, arg, slot, semVars, pubVars>>

(* release_checker panics in get_global_diagnostics, which runs deferred   *)
(* checks: the request is forgotten, but the slot stays active and nobody  *)
(* is notified, since release_with_checker has set released by then ...    *)
ReleasePanic(c) ==
  /\ ReleaseGuard(c)
  /\ ~canceled[slot[c]]
  /\ reqAssoc' = ForgetRequest(arg[c].req)
  /\ leaked' = leaked \cup {slot[c]}
  /\ pc' = [pc EXCEPT ![c] = "leaking"]
  /\ UNCHANGED <<active, fileAssoc, accumulated, changed, count, arg, slot, semVars, pubVars>>

(* ... and ActiveProjectChecker::drop returns early: only the state's      *)
(* guard drops.                                                            *)
UnwindLeaked(c) ==
  /\ pc[c] = "leaking"
  /\ semLocked' = [semLocked EXCEPT ![slot[c]] = FALSE]
  /\ pc' = Unwound(c)
  /\ Forget(c)
  /\ UNCHANGED <<canceled, diags, poolVars, pubVars>>

(* A canceled state is replaced by its next generation; the guard drops.   *)
Finish(c) ==
  LET s == slot[c] IN
  /\ pc[c] = "released"
  /\ canceled' = [canceled EXCEPT ![s] = FALSE]
  /\ diags' = [diags EXCEPT ![s] = IF canceled[s] THEN {} ELSE @]
  /\ semLocked' = [semLocked EXCEPT ![s] = FALSE]
  /\ pc' = [pc EXCEPT ![c] = "idle"]
  /\ Forget(c)
  /\ UNCHANGED <<poolVars, pubVars>>

(* A panicking callback: the guards drop in reverse order of declaration,  *)
(* so the state is unlocked first ...                                      *)
UnwindState(c) ==
  /\ pc[c] = "unwinding"
  /\ semLocked' = [semLocked EXCEPT ![slot[c]] = FALSE]
  /\ pc' = [pc EXCEPT ![c] = "unwound"]
  /\ UNCHANGED <<arg, slot, canceled, diags, poolVars, pubVars>>

(* ... and ActiveProjectChecker::drop then releases the slot without       *)
(* collecting diagnostics.                                                 *)
(* The first is a plausible bug: the slot stays active after a panic.      *)
UnwindReleaseKeepsSlot(c) ==
  /\ pc[c] = "unwound"
  /\ reqAssoc' = ForgetRequest(arg[c].req)
  /\ pc' = NotifyAll(Unwound(c))
  /\ Forget(c)
  /\ UNCHANGED <<active, fileAssoc, accumulated, changed, count, leaked, semVars, pubVars>>

UnwindRelease(c) ==
  /\ pc[c] = "unwound"
  /\ reqAssoc' = ForgetRequest(arg[c].req)
  /\ active' = [active EXCEPT ![slot[c]] = FALSE]
  /\ pc' = NotifyAll(Unwound(c))
  /\ Forget(c)
  /\ UNCHANGED <<fileAssoc, accumulated, changed, count, leaked, semVars, pubVars>>

(* publish_global_diagnostics: take_new_global_diagnostics, and when it    *)
(* says so, get_global_diagnostics under a second lock.                    *)
TakeNewGlobalDiagnostics ==
  /\ ~taken /\ changed
  /\ taken' = TRUE
  /\ changed' = FALSE
  /\ UNCHANGED <<active, fileAssoc, reqAssoc, accumulated, count, leaked, semVars,
                 callVars, published, failed>>

PublishGlobalDiagnostics ==
  /\ taken
  /\ published' = accumulated
  /\ taken' = FALSE
  /\ failed' = FALSE
  /\ UNCHANGED <<poolVars, semVars, callVars>>

(* The client's publishDiagnostics fails: the session logs it and goes on. *)
PublishFails ==
  /\ taken
  /\ taken' = FALSE
  /\ failed' = TRUE
  /\ UNCHANGED <<poolVars, semVars, callVars, published>>

CallStep(c) ==
  \/ \E a \in Arg : Begin(c, a)
  \/ TakeSlot(c)
  \/ Wait(c)
  \/ SpuriousWakeup(c)
  \/ AcquirePanic(c)
  \/ LockState(c)
  \/ \E d \in Diags : FindDiagnostic(c, d)
  \/ MarkCanceled(c)
  \/ CallbackPanic(c)
  \/ Release(c)
  \/ ReleasePanic(c)
  \/ UnwindLeaked(c)
  \/ Finish(c)
  \/ UnwindState(c)
  \/ UnwindRelease(c)

Next ==
  \/ \E c \in Calls : CallStep(c)
  \/ TakeNewGlobalDiagnostics
  \/ PublishGlobalDiagnostics
  \/ PublishFails

(* A thread in the pool's own code keeps running, and a callback returns   *)
(* or panics in the end, whatever calls it makes meanwhile.                *)
PoolCode(c) ==
  \/ TakeSlot(c) \/ Wait(c) \/ AcquirePanic(c) \/ LockState(c) \/ Finish(c)
  \/ UnwindState(c) \/ UnwindRelease(c) \/ UnwindLeaked(c)

Fairness ==
  \A c \in Calls :
    /\ WF_vars(PoolCode(c))
    /\ SF_vars(Release(c) \/ ReleasePanic(c) \/ CallbackPanic(c))

Spec == Init /\ [][Next]_vars
FairSpec == Spec /\ Fairness

-----------------------------------------------------------------------------
(* Calls of a thread nest: below a call in progress there is a callback.   *)
Nesting == \A c \in Calls : c[2] > 1 /\ pc[c] # "idle" => pc[Outer(c)] = "callback"

(* No two callbacks share a checker, and a slot is active exactly while    *)
(* one call owns it or for ever after a panic inside release_checker: that *)
(* panic is the only way to leak a slot, and a leaked slot is never given  *)
(* to a call again.                                                        *)
SlotExclusion ==
  /\ \A s \in Slots :
       active[s] <=> s \in leaked \/ \E c \in Calls : Owns(c) /\ slot[c] = s
  /\ \A c \in Calls : Owns(c) => slot[c] \notin leaked
  /\ \A c, d \in Calls : Owns(c) /\ Owns(d) /\ slot[c] = slot[d] => c = d

(* The semantic state of a slot is locked exactly while one call holds its *)
(* guard; the slot's next owner waits for a replaced state.                *)
StateExclusion ==
  /\ \A s \in Slots : semLocked[s] <=> \E c \in Calls : HoldsState(c) /\ slot[c] = s
  /\ \A c, d \in Calls : HoldsState(c) /\ HoldsState(d) /\ slot[c] = slot[d] => c = d

(* A request is associated with a slot exactly while a call of that request*)
(* owns the slot, so "same-request checker reentry" is raised only for a   *)
(* real reentry and a finished request leaves nothing behind.              *)
RequestAssociation ==
  /\ \A r \in Requests : reqAssoc[r] # NoSlot =>
       \E c \in Calls : Owns(c) /\ arg[c].req = r /\ slot[c] = reqAssoc[r]
  /\ \A c \in Calls : Owns(c) /\ arg[c].req # NoRequest =>
       reqAssoc[arg[c].req] = slot[c]

(* No lost wakeup: a call that sleeps on the condition variable could not  *)
(* take a slot now, whatever was released since it went to sleep.          *)
NoLostWakeup == \A c \in Calls : pc[c] = "waiting" => Chosen(c) = NoSlot

(* Whenever a release would skip collecting because the number of the      *)
(* slot's diagnostics is unchanged, they have all been collected.          *)
CountShortcutSound ==
  \A s \in Slots :
    ~canceled[s] /\ Cardinality(diags[s]) = count[s] => diags[s] \subseteq accumulated

(* No lost notification: while the client has not been sent all collected  *)
(* diagnostics, the flag is up, a publisher that took it is on its way, or *)
(* the last publication failed (which only the log learns of).             *)
PublishPending == published # accumulated => changed \/ taken \/ failed

(* A callback never starts on a checker that was canceled: the pool's part *)
(* of check_not_canceled's "Checker was previously cancelled".             *)
CanceledNotReused ==
  [][\A c \in Calls : pc[c] = "acquired" /\ pc'[c] = "callback" => ~canceled[slot[c]]]_vars

(* Every slot a sleeping call could be given has leaked.                   *)
Starved(c) == IF arg[c].want = NoSlot THEN Slots \subseteq leaked ELSE arg[c].want \in leaked

(* A call that waits for a slot gets to try again, whatever releases,      *)
(* cancellations and panics happen meanwhile, unless panics inside         *)
(* release_checker have leaked every slot it could be given: only then     *)
(* does it sleep for ever.                                                 *)
WaitersWake ==
  \A c \in Calls : pc[c] = "waiting" ~> (pc[c] # "waiting" \/ Starved(c))
=============================================================================
