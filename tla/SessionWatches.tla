--------------------------- MODULE SessionWatches ---------------------------
(***************************************************************************)
(* The file watches a session keeps registered at the client.             *)
(*                                                                         *)
(* Every configuration file, every project and the auto-import registry of *)
(* a snapshot has a group of globs it wants watched.  When a snapshot is   *)
(* adopted, Session::update_watches goes over the groups of the old and of *)
(* the new one and calls update_watch for each: the globs of the new group *)
(* are counted in the WatchRegistry, the ones counted for the first time   *)
(* are registered at the client one request at a time, and then the globs  *)
(* of the old group are released and the ones nobody counts any more are   *)
(* unregistered.  The client may refuse any request.                       *)
(*                                                                         *)
(* Two facts about the code shape the model.  The list of watchers of a    *)
(* WatchedFiles is computed on a clone and never stored back               *)
(* (watched_files_id, update_watch), so every computation that finds a     *)
(* glob draws a new id: two groups compare equal only when both are empty, *)
(* every other group goes through update_watch in every update, and the    *)
(* id marked pending after a refusal is never met again.  And a snapshot   *)
(* cloned for auto-imports is adopted without update_watches, though its   *)
(* projects and configs may have changed too.                              *)
(*                                                                         *)
(* A clone whose API request failed has no auto-import watch, and neither  *)
(* have its clones; update_watches, which comes to that group last, then   *)
(* panics.  The API connection catches the panic and the session goes on.  *)
(***************************************************************************)
EXTENDS Naturals, FiniteSets, FiniteSetsExt

CONSTANTS Configs,      \* configuration files
          Projects,     \* projects
          AutoImports,  \* the group of the auto-import registry
          Globs,        \* what a group may ask to watch
          Absent,       \* the group of what does not exist
          None,         \* no group is being updated
          MaxSnapshots  \* bound: snapshots adopted after the first

Groups == Configs \cup Projects \cup {AutoImports}

ASSUME WatchesAssumption ==
    /\ IsFiniteSet(Groups) /\ IsFiniteSet(Globs)
    /\ Configs \cap Projects = {}
    /\ AutoImports \notin Configs \cup Projects
    /\ \A group \in SUBSET Globs : Absent # group
    /\ None \notin Groups
    /\ MaxSnapshots \in Nat

VARIABLES groups,    \* the groups of the current snapshot
          snapshots, \* snapshots adopted so far (bound)
          count,     \* WatchRegistry: how often a glob is counted, 0 when not in it
          entryId,   \* WatchRegistry: the id a glob was counted with first
          watchers,  \* Server::watchers, which is also what the client has registered
          old,       \* the snapshot being replaced, up to groups already dealt with
          todo,      \* groups update_watches has not reached
          cur,       \* the group update_watch is registering
          batch,     \* its globs that were counted for the first time
          fresh,     \* the ones of batch still to be registered
          erred,     \* the client has refused one of batch
          gone,      \* registrations to be withdrawn
          missed     \* history: globs of a refused batch, accepted or not, with a refused
                     \* withdrawal, or with a change nobody applied

registry == <<count, entryId>>
update == <<old, todo, cur, batch, fresh, erred, gone>>
vars == <<groups, snapshots, registry, watchers, update, missed>>

Wanted(group) == IF group = Absent THEN {} ELSE group

\* Groups that ask for glob x in the current snapshot.
Askers(x) == {g \in Groups : x \in Wanted(groups[g])}

Ids == [glob : Globs, n : 0..(2 * MaxSnapshots * Cardinality(Groups))]

Watched(x) == \E w \in watchers : w.glob = x

\* A new id for a registration of x.  The code draws it from a process-wide counter.
NewId(x) == CHOOSE n \in 0..Cardinality(watchers) :
                /\ [glob |-> x, n |-> n] \notin watchers
                /\ \A m \in 0..(n - 1) : [glob |-> x, n |-> m] \in watchers

AtRest == todo = {} /\ cur = None /\ gone = {}

Snapshots == [Groups -> (SUBSET Globs) \cup {Absent}]

\* clone_snapshot: without an auto-import watch there is none in the clone either.
Cloned(next) == groups[AutoImports] = Absent => next[AutoImports] = Absent

Init ==
    /\ groups = [g \in Groups |-> IF g = AutoImports THEN {} ELSE Absent]
    /\ snapshots = 0
    /\ count = [x \in Globs |-> 0]
    /\ entryId = [x \in Globs |-> 0]
    /\ watchers = {}
    /\ old = groups
    /\ todo = {} /\ cur = None /\ batch = {} /\ fresh = {} /\ erred = FALSE /\ gone = {}
    /\ missed = {}

\* A snapshot is adopted and its watches are brought up to date.
UpdateSnapshot(next) ==
    /\ AtRest
    /\ snapshots < MaxSnapshots
    /\ snapshots' = snapshots + 1
    /\ Cloned(next)
    /\ groups' = next
    /\ old' = groups
    /\ todo' = {g \in Groups : ~(groups[g] = Absent /\ next[g] = Absent)} \cup {AutoImports}
    /\ missed' = {x \in missed : count[x] # 0 \/ Watched(x) \/ Askers(x) # {}}
    /\ UNCHANGED <<registry, watchers, cur, batch, fresh, erred, gone>>

\* A request for auto-imports, or the warming of their cache, adopts the snapshot it
\* has prepared, in which the registry may have found other directories and the
\* requested file's project other files; its watches are left alone.
AdoptAutoImports(next) ==
    /\ AtRest
    /\ snapshots < MaxSnapshots
    /\ next # groups /\ Cloned(next)
    /\ next[AutoImports] = Absent => groups[AutoImports] = Absent
    /\ snapshots' = snapshots + 1
    /\ groups' = next
    /\ missed' = missed \cup {x \in Globs : Askers(x) # Askers(x)'}
    /\ old' = groups'
    /\ UNCHANGED <<registry, watchers, todo, cur, batch, fresh, erred, gone>>

\* Configs come before projects and projects before auto-imports; among configs,
\* and among projects, the added ones come first.
Rank(g) ==
    IF g = AutoImports THEN 4
    ELSE (IF g \in Projects THEN 2 ELSE 0) + (IF old[g] = Absent THEN 0 ELSE 1)

\* update_watches unwraps an auto-import watch that is not there.
Unwraps(g) == g = AutoImports /\ (old[g] = Absent \/ groups[g] = Absent)

\* The panic: what was counted for auto-imports stays counted.
UnwrapFails ==
    /\ cur = None /\ gone = {}
    /\ todo = {AutoImports} /\ Unwraps(AutoImports)
    /\ todo' = {}
    /\ missed' = missed \cup Wanted(old[AutoImports])
    /\ old' = [old EXCEPT ![AutoImports] = groups[AutoImports]]
    /\ UNCHANGED <<groups, snapshots, registry, watchers, cur, batch, fresh, erred, gone>>

\* WatchRegistry::acquire for every glob of the new group.
AcquireNew(g) ==
    LET wanted == Wanted(groups[g]) IN
    /\ cur = None /\ gone = {}
    /\ g \in todo /\ ~Unwraps(g)
    /\ \A h \in todo : Rank(g) <= Rank(h)
    /\ cur' = g
    /\ todo' = todo \ {g}
    /\ batch' = {x \in wanted : count[x] = 0}
    /\ fresh' = batch'
    /\ count' = [x \in Globs |-> IF x \in wanted THEN count[x] + 1 ELSE count[x]]
    /\ entryId' = [x \in Globs |-> IF x \in batch' THEN NewId(x) ELSE entryId[x]]
    /\ UNCHANGED <<groups, snapshots, watchers, old, erred, gone, missed>>

\* Client::watch_files: the client accepts the registration or refuses it.
WatchFiles(x) ==
    /\ x \in fresh
    /\ fresh' = fresh \ {x}
    /\ \/ /\ watchers' = watchers \cup {[glob |-> x, n |-> entryId[x]]}
          /\ UNCHANGED erred
       \/ erred' = TRUE /\ UNCHANGED watchers
    /\ UNCHANGED <<groups, snapshots, registry, old, todo, cur, batch, gone, missed>>

\* Mutant: the rollback releases the shared globs of the group as well.
RolledBackShared ==
    [x \in Globs |-> IF erred /\ x \in Wanted(groups[cur]) THEN count[x] - 1 ELSE count[x]]

\* Mutant: a refusal is only reported.
RolledBackNever == count

\* The counts after a refusal: what this group counted for the first time is
\* released, what it shares with another group keeps its count.
RolledBack == [x \in Globs |-> IF erred /\ x \in batch THEN count[x] - 1 ELSE count[x]]

\* A count released once; releasing a glob that is not in the registry does nothing.
Released(n) == IF n <= 1 THEN 0 ELSE n - 1

\* The end of the registrations, and the release of the old group.
ReleaseOld ==
    LET held == RolledBack IN
    /\ cur # None /\ fresh = {}
    /\ count' = [x \in Globs |-> IF x \in Wanted(old[cur]) THEN Released(held[x]) ELSE held[x]]
    /\ gone' = {[glob |-> x, n |-> entryId[x]] :
                    x \in {y \in Wanted(old[cur]) : held[y] = 1}}
    /\ entryId' = [x \in Globs |-> IF count'[x] = 0 THEN 0 ELSE entryId[x]]
    /\ missed' = IF erred THEN missed \cup batch ELSE missed
    /\ old' = [old EXCEPT ![cur] = groups[cur]]
    /\ cur' = None /\ batch' = {} /\ erred' = FALSE
    /\ UNCHANGED <<groups, snapshots, watchers, todo, fresh>>

\* Mutant: only the first id is withdrawn, the others are forgotten.
UnwatchFilesOnce(w) ==
    /\ w \in gone
    /\ gone' = {}
    /\ watchers' = watchers \ {w}
    /\ UNCHANGED <<groups, snapshots, registry, old, todo, cur, batch, fresh, erred, missed>>

\* Client::unwatch_files: an unknown id is an error, and the client may refuse.
UnwatchFiles(w) ==
    /\ w \in gone
    /\ gone' = gone \ {w}
    /\ \/ /\ watchers' = watchers \ {w}
          /\ UNCHANGED missed
       \/ /\ w \in watchers
          /\ missed' = missed \cup {w.glob}
          /\ UNCHANGED watchers
    /\ UNCHANGED <<groups, snapshots, registry, old, todo, cur, batch, fresh, erred>>

Next ==
    \/ \E next \in Snapshots : UpdateSnapshot(next)
    \/ \E next \in Snapshots : AdoptAutoImports(next)
    \/ UnwrapFails
    \/ \E g \in Groups : AcquireNew(g)
    \/ \E x \in Globs : WatchFiles(x)
    \/ ReleaseOld
    \/ \E w \in gone : UnwatchFiles(w)

Spec == Init /\ [][Next]_vars

-----------------------------------------------------------------------------

\* The types of the snapshot, the registry, the registrations and the update under way.
TypeOK ==
    /\ groups \in Snapshots /\ old \in Snapshots
    /\ snapshots \in 0..MaxSnapshots
    /\ count \in [Globs -> Nat]
    /\ entryId \in [Globs -> Nat]
    /\ watchers \subseteq Ids /\ gone \subseteq Ids
    /\ todo \subseteq Groups /\ cur \in Groups \cup {None}
    /\ fresh \subseteq batch /\ batch \subseteq Globs
    /\ erred \in BOOLEAN /\ missed \subseteq Globs

\* Between updates the registry counts a glob once for every group that asks for
\* it, through shared globs, rollbacks after a refusal and withdrawals.  Only these
\* may be off: the globs a group was the first to count when the client refused one of
\* them (all are rolled back, the accepted ones too), globs whose withdrawal was
\* refused, and globs whose askers changed in a snapshot adopted without
\* update_watches, or lost their auto-import watch.  Nothing spreads to the globs that
\* another group shares with a refused batch.  (The variables have their types
\* throughout.)
CountsMatchGroups ==
    /\ TypeOK
    /\ AtRest => \A x \in Globs \ missed : count[x] = Cardinality(Askers(x))

\* Between updates the client watches a glob exactly when some group asks for it
\* (again up to the globs of refused batches and withdrawals and of changes that were
\* not applied): no file change goes unreported and no registration is left behind.
WatchedAsAsked ==
    AtRest => \A x \in Globs \ missed : Watched(x) <=> Askers(x) # {}

\* Whatever the client refuses, a glob the registry counts is registered under the
\* id the registry has for it: acquire trusts the count and would never ask again,
\* and release could not withdraw it.
CountedIsWatched ==
    \A x \in Globs : count[x] > 0 /\ x \notin batch
        => [glob |-> x, n |-> entryId[x]] \in watchers

=============================================================================
