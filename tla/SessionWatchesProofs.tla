------------------------ MODULE SessionWatchesProofs ------------------------
(***************************************************************************)
(* Whatever a client refuses, and for any groups and globs, what the watch *)
(* registry counts is registered at the client.                            *)
(***************************************************************************)
EXTENDS SessionWatches, FiniteSetTheorems, NaturalsInduction, TLAPS

-----------------------------------------------------------------------------
(* The inductive invariant.                                                *)

\* The variables the argument is about; an id may be anything.
Types ==
    /\ groups \in [Groups -> (SUBSET Globs) \cup {Absent}]
    /\ old \in [Groups -> (SUBSET Globs) \cup {Absent}]
    /\ cur \in Groups \cup {None}
    /\ count \in [Globs -> Nat]
    /\ batch \subseteq Globs /\ fresh \subseteq batch
    /\ erred \in BOOLEAN

\* A batch belongs to the group being updated, and withdrawals come after it.
OneUpdate ==
    /\ cur = None => batch = {}
    /\ cur # None => gone = {}

\* What a batch has counted nobody else counts: a refusal rolls it back to nothing.
BatchCountedOnce == \A x \in batch : count[x] = 1

\* Until the client refuses, the globs of a batch that have had their turn are
\* registered.
BatchWatched ==
    ~erred => \A x \in batch \ fresh : [glob |-> x, n |-> entryId[x]] \in watchers

\* Only registrations nobody counts are withdrawn.
WithdrawnUncounted == \A w \in gone : count[w.glob] = 0

IInv == Types /\ OneUpdate /\ BatchCountedOnce /\ BatchWatched /\ WithdrawnUncounted
            /\ CountedIsWatched

-----------------------------------------------------------------------------

\* The registry starts empty.
LEMMA InitEstablishes == Init => IInv
<1> SUFFICES ASSUME Init PROVE IInv
  OBVIOUS
<1>1. Types
  <2>1. groups \in [Groups -> (SUBSET Globs) \cup {Absent}]
    BY DEF Init
  <2> QED
    BY <2>1 DEF Init, Types
<1>2. OneUpdate /\ BatchCountedOnce /\ BatchWatched /\ WithdrawnUncounted
  BY DEF Init, OneUpdate, BatchCountedOnce, BatchWatched, WithdrawnUncounted
<1>3. CountedIsWatched
  BY DEF Init, CountedIsWatched
<1> QED
  BY <1>1, <1>2, <1>3 DEF IInv

\* The adoption of a snapshot, with or without an update of the watches, leaves the
\* registry and the registrations alone.
LEMMA AdoptKeeps ==
    ASSUME IInv, groups' \in [Groups -> (SUBSET Globs) \cup {Absent}],
           old' \in [Groups -> (SUBSET Globs) \cup {Absent}],
           UNCHANGED <<registry, watchers, cur, batch, fresh, erred, gone>>
    PROVE  IInv'
  BY DEF registry, IInv, Types, OneUpdate, BatchCountedOnce, BatchWatched, WithdrawnUncounted,
         CountedIsWatched

\* acquire counts the globs of the new group; the ones that were not counted before
\* make up the batch, and the ids of the others stay.
LEMMA AcquireNewKeeps ==
    ASSUME IInv, NEW g \in Groups, AcquireNew(g)
    PROVE  IInv'
<1> DEFINE wanted == Wanted(groups[g])
<1>0. Types /\ CountedIsWatched
  BY DEF IInv
<1>1. /\ cur = None /\ batch = {} /\ groups' = groups /\ old' = old
      /\ cur' = g /\ gone' = {} /\ fresh' = batch' /\ erred' = erred /\ watchers' = watchers
  BY DEF AcquireNew, IInv, OneUpdate
<1>2. wanted \subseteq Globs
  BY <1>0 DEF Types, Wanted
<1>3. batch' = {x \in wanted : count[x] = 0}
  BY DEF AcquireNew
<1>4. count' = [x \in Globs |-> IF x \in wanted THEN count[x] + 1 ELSE count[x]]
  BY DEF AcquireNew
<1>5. \A x \in Globs : x \notin batch' => entryId'[x] = entryId[x]
  BY DEF AcquireNew
<1> HIDE DEF wanted
<1>6. Types'
  BY <1>0, <1>1, <1>2, <1>3, <1>4 DEF Types
<1>7. OneUpdate' /\ BatchWatched' /\ WithdrawnUncounted'
  BY <1>1, WatchesAssumption DEF OneUpdate, BatchWatched, WithdrawnUncounted
<1>8. BatchCountedOnce'
  BY <1>0, <1>2, <1>3, <1>4 DEF BatchCountedOnce, Types
<1>9. CountedIsWatched'
  <2> SUFFICES ASSUME NEW x \in Globs, count'[x] > 0, x \notin batch'
               PROVE  [glob |-> x, n |-> entryId'[x]] \in watchers'
    BY DEF CountedIsWatched
  <2>1. count[x] > 0
    BY <1>0, <1>3, <1>4 DEF Types
  <2> QED
    BY <1>0, <1>1, <1>5, <2>1 DEF CountedIsWatched
<1> QED
  BY <1>6, <1>7, <1>8, <1>9 DEF IInv

\* The client accepts a registration of the batch, or the batch has erred.
LEMMA WatchFilesKeeps ==
    ASSUME IInv, NEW x \in Globs, WatchFiles(x)
    PROVE  IInv'
<1>1. /\ UNCHANGED <<groups, old, count, entryId, cur, batch, gone>>
      /\ x \in fresh /\ fresh' = fresh \ {x} /\ watchers \subseteq watchers'
      /\ \/ erred' = erred /\ [glob |-> x, n |-> entryId[x]] \in watchers'
         \/ erred' = TRUE
  BY DEF WatchFiles, registry
<1>2. Types' /\ OneUpdate' /\ BatchCountedOnce' /\ WithdrawnUncounted'
  BY <1>1 DEF IInv, Types, OneUpdate, BatchCountedOnce, WithdrawnUncounted
<1>3. BatchWatched'
  BY <1>1 DEF IInv, BatchWatched
<1>4. CountedIsWatched'
  BY <1>1 DEF IInv, CountedIsWatched
<1> QED
  BY <1>2, <1>3, <1>4 DEF IInv

\* After a refusal the batch counts nothing; otherwise all of it is registered.  What
\* the old group was the last to count is withdrawn.
LEMMA ReleaseOldKeeps ==
    ASSUME IInv, ReleaseOld
    PROVE  IInv'
<1>0. Types /\ BatchCountedOnce /\ BatchWatched /\ CountedIsWatched
  BY DEF IInv
<1>1. /\ fresh = {} /\ fresh' = {} /\ batch' = {} /\ cur' = None /\ erred' = FALSE
      /\ cur \in Groups /\ groups' = groups /\ watchers' = watchers
      /\ old' = [old EXCEPT ![cur] = groups[cur]]
  BY <1>0 DEF ReleaseOld, Types
<1>2. RolledBack \in [Globs -> Nat]
  BY <1>0 DEF RolledBack, Types, BatchCountedOnce
<1>3. \A x \in Globs : RolledBack[x] > 0 => [glob |-> x, n |-> entryId[x]] \in watchers
  <2> SUFFICES ASSUME NEW x \in Globs, RolledBack[x] > 0
               PROVE  [glob |-> x, n |-> entryId[x]] \in watchers
    OBVIOUS
  <2>1. CASE x \in batch
    <3>1. ~erred
      BY <1>0, <2>1 DEF RolledBack, BatchCountedOnce, Types
    <3> QED
      BY <1>0, <1>1, <2>1, <3>1 DEF BatchWatched
  <2>2. CASE x \notin batch
    BY <1>0, <2>2 DEF RolledBack, CountedIsWatched
  <2> QED
    BY <2>1, <2>2
<1>4. \A x \in Globs : count'[x] = IF x \in Wanted(old[cur]) THEN Released(RolledBack[x])
                                   ELSE RolledBack[x]
  BY DEF ReleaseOld
<1>5. count' \in [Globs -> Nat] /\ \A x \in Globs : count'[x] > 0 => RolledBack[x] > 0
  <2>1. \A n \in Nat : Released(n) \in Nat /\ (Released(n) > 0 => n > 0)
    BY DEF Released
  <2>2. DOMAIN count' = Globs /\ count' = [x \in Globs |-> count'[x]]
    BY DEF ReleaseOld
  <2> QED
    BY <1>2, <1>4, <2>1, <2>2
<1>6. Types' /\ OneUpdate' /\ BatchCountedOnce' /\ BatchWatched'
  BY <1>0, <1>1, <1>5 DEF Types, OneUpdate, BatchCountedOnce, BatchWatched
<1>7. WithdrawnUncounted'
  <2> SUFFICES ASSUME NEW w \in gone' PROVE count'[w.glob] = 0
    BY DEF WithdrawnUncounted
  <2>1. PICK x \in Wanted(old[cur]) : RolledBack[x] = 1 /\ w = [glob |-> x, n |-> entryId[x]]
    BY DEF ReleaseOld
  <2>2. w.glob = x
    BY <2>1
  <2>3. x \in Globs
    BY <1>0, <1>1, <2>1 DEF Wanted, Types
  <2> QED
    BY <1>4, <2>1, <2>2, <2>3 DEF Released
<1>8. CountedIsWatched'
  <2> SUFFICES ASSUME NEW x \in Globs, count'[x] > 0
               PROVE  [glob |-> x, n |-> entryId'[x]] \in watchers'
    BY DEF CountedIsWatched
  <2>1. entryId'[x] = entryId[x]
    BY DEF ReleaseOld
  <2> QED
    BY <1>1, <1>3, <1>5, <2>1
<1> QED
  BY <1>6, <1>7, <1>8 DEF IInv

\* What is withdrawn nobody counts.
LEMMA UnwatchFilesKeeps ==
    ASSUME IInv, NEW w \in gone, UnwatchFiles(w)
    PROVE  IInv'
<1>1. /\ UNCHANGED <<groups, old, count, entryId, cur, batch, fresh, erred>>
      /\ gone' \subseteq gone /\ watchers \ {w} \subseteq watchers'
  BY DEF UnwatchFiles, registry
<1>2. batch = {} /\ count[w.glob] = 0
  BY DEF IInv, OneUpdate, WithdrawnUncounted
<1>3. Types' /\ OneUpdate' /\ BatchCountedOnce' /\ BatchWatched' /\ WithdrawnUncounted'
  BY <1>1, <1>2 DEF IInv, Types, OneUpdate, BatchCountedOnce, BatchWatched, WithdrawnUncounted
<1>4. CountedIsWatched'
  <2> SUFFICES ASSUME NEW x \in Globs, count[x] > 0
               PROVE  [glob |-> x, n |-> entryId[x]] \in watchers'
    BY <1>1 DEF CountedIsWatched
  <2>1. [glob |-> x, n |-> entryId[x]] \in watchers
    BY <1>2 DEF IInv, CountedIsWatched
  <2>2. [glob |-> x, n |-> entryId[x]].glob = x
    OBVIOUS
  <2>3. [glob |-> x, n |-> entryId[x]] # w
    BY <1>2, <2>2 DEF IInv, Types
  <2> QED
    BY <1>1, <2>1, <2>3
<1> QED
  BY <1>3, <1>4 DEF IInv

\* Every step keeps the invariant.
LEMMA NextKeeps == IInv /\ [Next]_vars => IInv'
<1> SUFFICES ASSUME IInv, [Next]_vars PROVE IInv'
  OBVIOUS
<1>1. ASSUME NEW next \in Snapshots, UpdateSnapshot(next) PROVE IInv'
  BY <1>1, AdoptKeeps DEF UpdateSnapshot, Snapshots, IInv, Types
<1>2. ASSUME NEW next \in Snapshots, AdoptAutoImports(next) PROVE IInv'
  BY <1>2, AdoptKeeps DEF AdoptAutoImports, Snapshots, registry
<1>3. CASE UnwrapFails
  <2>1. old' \in [Groups -> (SUBSET Globs) \cup {Absent}]
    BY <1>3 DEF UnwrapFails, IInv, Types, Groups
  <2> QED
    BY <1>3, <2>1, AdoptKeeps DEF UnwrapFails, registry, IInv, Types
<1>4. CASE UNCHANGED vars
  BY <1>4, AdoptKeeps DEF vars, registry, update, IInv, Types
<1> QED
  BY <1>1, <1>2, <1>3, <1>4, AcquireNewKeeps, WatchFilesKeeps, ReleaseOldKeeps, UnwatchFilesKeeps
     DEF Next

\* A glob the registry counts is registered at the client under the registry's id,
\* whatever the client refuses and whatever snapshots are adopted: update_watch never
\* trusts a count that nothing stands behind.
THEOREM CountedGlobsWatched == Spec => []CountedIsWatched
<1>1. IInv => CountedIsWatched
  BY DEF IInv
<1> QED
  BY <1>1, InitEstablishes, NextKeeps, PTL DEF Spec


-----------------------------------------------------------------------------
(* What the registry counts is what the groups ask for.                    *)

\* Groups whose globs the registry still counts as they were in the old snapshot.
Counting(x) == {g \in Groups : x \in Wanted(old[g])}

\* The group being updated has been counted for its new globs and not yet released
\* for its old ones.
CountedTwice(x) == IF cur # None /\ x \in Wanted(groups[cur]) THEN 1 ELSE 0

\* The ids an update may have drawn for a glob so far: one for every group it has
\* reached, in every snapshot adopted.
Drawn == snapshots * Cardinality(Groups) - Cardinality(todo)

IdsUpTo(n) == [glob : Globs, n : 0..n]

\* The types that need the bound on the ids.
Bounded ==
    /\ groups \in Snapshots /\ old \in Snapshots
    /\ snapshots \in 0..MaxSnapshots
    /\ todo \subseteq Groups /\ missed \subseteq Globs
    /\ Drawn \in Nat
    /\ entryId \in [Globs -> 0..Drawn]
    /\ watchers \subseteq IdsUpTo(Drawn) /\ gone \subseteq IdsUpTo(Drawn)
    /\ IsFiniteSet(watchers)

\* A group the update is done with, or never goes to, has its new globs counted.
\* An auto-import watch that is lost does not come back.
Dealt ==
    /\ \A g \in Groups : g \notin todo /\ g # cur => old[g] = groups[g]
    /\ old[AutoImports] = Absent => groups[AutoImports] = Absent

\* A glob without a refusal is counted once for every group that has been counted
\* for it and not released.
CountsHeld ==
    \A x \in Globs \ missed : count[x] = Cardinality(Counting(x)) + CountedTwice(x)

\* A registration is the one the registry knows, or about to be withdrawn, or of a
\* glob with a refusal.
NoStray ==
    \A w \in watchers :
        \/ w.glob \in missed
        \/ w \in gone
        \/ count[w.glob] > 0 /\ w.n = entryId[w.glob]

Accounts == IInv /\ Bounded /\ Dealt /\ CountsHeld /\ NoStray


\* A set of numbers that has a member has a least one.
LEMMA LeastNumber ==
    ASSUME NEW S \in SUBSET Nat, S # {}
    PROVE  \E m \in S : \A k \in S : m <= k
<1> DEFINE R == OpToRel(<, Nat)
<1>1. IsWellFoundedOn(R, Nat)
  BY NatLessThanWellFounded
<1>2. \A x, y \in Nat : x < y => <<x, y>> \in R
  BY DEF OpToRel
<1> HIDE DEF R
<1>3. PICK x \in S : \A y \in S : ~ (<<y, x>> \in R)
  BY <1>1, WFMin
<1>4. \A y \in S : ~ (y < x)
  BY <1>2, <1>3
<1>5. \A y \in S : x <= y
  BY <1>4
<1> QED
  BY <1>5

\* The id drawn for a glob is not registered, and exceeds the registered ones by one
\* at most: finitely many registrations leave a number free.
LEMMA NewIdIsNew ==
    ASSUME NEW x \in Globs, NEW b \in Nat, watchers \subseteq IdsUpTo(b), IsFiniteSet(watchers)
    PROVE  NewId(x) \in 0..(b + 1) /\ [glob |-> x, n |-> NewId(x)] \notin watchers
<1> DEFINE id(n) == [glob |-> x, n |-> n]
           free == {n \in Nat : id(n) \notin watchers}
<1>1. b + 1 \in free
  <2>1. id(b + 1) \notin IdsUpTo(b)
    BY DEF IdsUpTo
  <2> QED
    BY <2>1
<1>2. PICK m \in free : \A k \in free : m <= k
  BY <1>1, LeastNumber
<1>3. m \in Nat /\ id(m) \notin watchers /\ \A k \in 0..(m - 1) : id(k) \in watchers
  BY <1>2
<1>4. m <= Cardinality(watchers) /\ Cardinality(watchers) \in Nat
  <2> DEFINE f == [k \in 0..(m - 1) |-> id(k)]
  <2>1. f \in Injection(0..(m - 1), watchers)
    <3>1. f \in [0..(m - 1) -> watchers]
      BY <1>3
    <3>2. \A j, k \in 0..(m - 1) : f[j] = f[k] => j = k
      <4>1. \A j, k : id(j) = id(k) => j = k
        <5>1. \A j : id(j).n = j
          OBVIOUS
        <5> QED
          BY <5>1
      <4> HIDE DEF id
      <4> QED
        BY <4>1
    <3> HIDE DEF f
    <3> QED
      BY <3>1, <3>2 DEF Injection, IsInjective
  <2> HIDE DEF f
  <2>2. Cardinality(0..(m - 1)) <= Cardinality(watchers)
    BY <2>1, FS_Injection
  <2>3. Cardinality(0..(m - 1)) = IF 0 > m - 1 THEN 0 ELSE m - 1 - 0 + 1
    <3>1. 0 \in Int /\ m - 1 \in Int
      BY <1>3
    <3> QED
      BY <3>1, FS_Interval, Zenon
  <2>4. Cardinality(watchers) \in Nat
    BY FS_CardinalityType
  <2> QED
    BY <1>3, <2>2, <2>3, <2>4
<1>5. \E n \in 0..Cardinality(watchers) : /\ id(n) \notin watchers
                                          /\ \A k \in 0..(n - 1) : id(k) \in watchers
  <2>1. m \in 0..Cardinality(watchers)
    BY <1>3, <1>4
  <2> QED
    BY <1>3, <2>1
<1>6. /\ NewId(x) \in 0..Cardinality(watchers) /\ id(NewId(x)) \notin watchers
      /\ \A k \in 0..(NewId(x) - 1) : id(k) \in watchers
  BY <1>5 DEF NewId
<1>7. NewId(x) \in Nat
  BY <1>4, <1>6
<1>8. ~ (NewId(x) > b + 1)
  <2> SUFFICES ASSUME NewId(x) > b + 1 PROVE FALSE
    OBVIOUS
  <2>1. b + 1 \in 0..(NewId(x) - 1)
    BY <1>7
  <2> QED
    BY <1>1, <1>6, <2>1
<1> QED
  BY <1>6, <1>7, <1>8

\* The groups that count for a glob are finitely many.
LEMMA CountingIsNumber ==
    ASSUME NEW x
    PROVE  IsFiniteSet(Counting(x)) /\ Cardinality(Counting(x)) \in Nat
<1>1. Counting(x) \in SUBSET Groups
  BY DEF Counting
<1>2. IsFiniteSet(Counting(x))
  BY <1>1, FS_Subset, WatchesAssumption
<1> QED
  BY <1>2, FS_CardinalityType

\* The registry starts with nothing asked for and nothing counted.
LEMMA InitAccounts == Init => Accounts
<1> SUFFICES ASSUME Init PROVE Accounts
  OBVIOUS
<1>1. IInv
  BY InitEstablishes
<1>2. groups \in Snapshots /\ old = groups
  <2>1. groups = [g \in Groups |-> IF g = AutoImports THEN {} ELSE Absent] /\ old = groups
    BY DEF Init
  <2>2. AutoImports \in Groups /\ {} # Absent
    BY WatchesAssumption DEF Groups
  <2> QED
    BY <2>1, <2>2 DEF Snapshots
<1>3. \A g \in Groups : Wanted(groups[g]) = {}
  BY DEF Init, Wanted
<1>4. Cardinality(todo) = 0 /\ Cardinality(Groups) \in Nat /\ IsFiniteSet(watchers)
  BY FS_EmptySet, FS_CardinalityType, WatchesAssumption DEF Init
<1>5. Drawn = 0
  BY <1>4 DEF Init, Drawn
<1>6. Bounded
  BY <1>2, <1>4, <1>5, WatchesAssumption DEF Init, Bounded
<1>7. Dealt /\ NoStray
  BY <1>2 DEF Init, Dealt, NoStray
<1>8. CountsHeld
  <2> SUFFICES ASSUME NEW x \in Globs PROVE count[x] = Cardinality(Counting(x)) + CountedTwice(x)
    BY DEF CountsHeld
  <2>1. Counting(x) = {}
    BY <1>2, <1>3 DEF Counting
  <2>2. CountedTwice(x) = 0 /\ count[x] = 0
    BY DEF CountedTwice, Init
  <2> QED
    BY <2>1, <2>2, FS_EmptySet
<1> QED
  BY <1>1, <1>6, <1>7, <1>8 DEF Accounts


\* What the next steps keep needing of the bound.
LEMMA DrawnIsNumber ==
    ASSUME NEW s \in Nat, NEW T \in SUBSET Groups
    PROVE  /\ Cardinality(Groups) \in Nat /\ Cardinality(T) \in 0..Cardinality(Groups)
           /\ s * Cardinality(Groups) \in Nat
           /\ (s + 1) * Cardinality(Groups) = s * Cardinality(Groups) + Cardinality(Groups)
<1>1. IsFiniteSet(T) /\ Cardinality(T) <= Cardinality(Groups)
  BY FS_Subset, WatchesAssumption
<1>2. Cardinality(Groups) \in Nat /\ Cardinality(T) \in Nat
  BY <1>1, FS_CardinalityType, WatchesAssumption
<1> QED
  BY <1>1, <1>2

\* More may have been drawn later.
LEMMA BoundGrows ==
    ASSUME NEW b \in Nat, NEW c \in Nat, b <= c
    PROVE  IdsUpTo(b) \subseteq IdsUpTo(c) /\ [Globs -> 0..b] \subseteq [Globs -> 0..c]
<1>1. 0..b \subseteq 0..c
  OBVIOUS
<1> QED
  BY <1>1 DEF IdsUpTo

\* A snapshot adopted at rest becomes the old one; what is forgotten of the refusals
\* nobody counts, watches or asks for.
LEMMA UpdateSnapshotAccounts ==
    ASSUME Accounts, NEW next \in Snapshots, UpdateSnapshot(next), IInv'
    PROVE  Accounts'
<1>0. Bounded /\ Dealt /\ CountsHeld /\ NoStray
  BY DEF Accounts
<1>1. /\ todo = {} /\ cur = None /\ cur' = None /\ gone = {} /\ gone' = {}
      /\ snapshots' = snapshots + 1 /\ snapshots < MaxSnapshots
      /\ groups' = next /\ old' = groups /\ UNCHANGED <<count, entryId, watchers>>
      /\ todo' = {g \in Groups : ~ (groups[g] = Absent /\ next[g] = Absent)} \cup {AutoImports}
      /\ groups[AutoImports] = Absent => next[AutoImports] = Absent
      /\ missed' = {x \in missed : count[x] # 0 \/ Watched(x) \/ Askers(x) # {}}
  BY DEF UpdateSnapshot, Cloned, AtRest, registry
<1>2. old = groups
  <2>1. \A g \in Groups : old[g] = groups[g]
    BY <1>0, <1>1, WatchesAssumption DEF Dealt
  <2>2. /\ old \in [Groups -> (SUBSET Globs) \cup {Absent}]
        /\ groups \in [Groups -> (SUBSET Globs) \cup {Absent}]
    BY <1>0 DEF Bounded, Snapshots
  <2> QED
    BY <2>1, <2>2
<1>3. Bounded'
  <2>1. snapshots \in Nat /\ snapshots + 1 \in 0..MaxSnapshots /\ todo \in SUBSET Groups
        /\ todo' \in SUBSET Groups /\ missed' \subseteq Globs
    BY <1>0, <1>1, WatchesAssumption DEF Bounded, Groups
  <2>2. Drawn \in Nat /\ Drawn' \in Nat /\ Drawn <= Drawn'
    <3>1. Cardinality(todo) = 0
      BY <1>1, FS_EmptySet
    <3>2. /\ Cardinality(Groups) \in Nat /\ Cardinality(todo') \in 0..Cardinality(Groups)
          /\ snapshots * Cardinality(Groups) \in Nat
          /\ (snapshots + 1) * Cardinality(Groups)
                = snapshots * Cardinality(Groups) + Cardinality(Groups)
      BY <2>1, DrawnIsNumber
    <3>3. /\ Drawn = snapshots * Cardinality(Groups) - Cardinality(todo)
          /\ Drawn' = (snapshots + 1) * Cardinality(Groups) - Cardinality(todo')
      BY <1>1 DEF Drawn
    <3> QED
      BY <3>1, <3>2, <3>3
  <2>3. IdsUpTo(Drawn) \subseteq IdsUpTo(Drawn') /\ [Globs -> 0..Drawn] \subseteq [Globs -> 0..Drawn']
    BY <2>2, BoundGrows
  <2>4. /\ groups' \in Snapshots /\ old' \in Snapshots /\ entryId' \in [Globs -> 0..Drawn']
        /\ watchers' \subseteq IdsUpTo(Drawn') /\ IsFiniteSet(watchers')
    BY <1>0, <1>1, <2>3 DEF Bounded
  <2>5. IdsUpTo(Drawn') = IdsUpTo(Drawn)'
    BY DEF IdsUpTo
  <2> QED
    BY <1>1, <2>1, <2>2, <2>4, <2>5 DEF Bounded
<1>4. Dealt'
  BY <1>1 DEF Dealt
<1>5. CountsHeld'
  <2> SUFFICES ASSUME NEW x \in Globs, x \notin missed'
               PROVE  count'[x] = Cardinality(Counting(x)') + CountedTwice(x)'
    BY DEF CountsHeld
  <2>1. Counting(x)' = Counting(x) /\ Counting(x) = Askers(x)
    BY <1>1, <1>2 DEF Counting, Askers
  <2>2. CountedTwice(x) = 0 /\ CountedTwice(x)' = 0
    BY <1>1 DEF CountedTwice
  <2>3. CASE x \notin missed
    BY <1>0, <1>1, <2>1, <2>2, <2>3 DEF CountsHeld
  <2>4. CASE x \in missed
    <3>1. count[x] = 0 /\ Counting(x) = {}
      BY <1>1, <2>1, <2>4
    <3> QED
      BY <1>1, <2>1, <2>2, <3>1, FS_EmptySet
  <2> QED
    BY <2>3, <2>4
<1>6. NoStray'
  <2> SUFFICES ASSUME NEW w \in watchers
               PROVE  w.glob \in missed' \/ (count[w.glob] > 0 /\ w.n = entryId[w.glob])
    BY <1>1 DEF NoStray
  <2>1. Watched(w.glob)
    BY DEF Watched
  <2> QED
    BY <1>0, <1>1, <2>1 DEF NoStray
<1> QED
  BY <1>3, <1>4, <1>5, <1>6 DEF Accounts

\* Only globs that are marked are asked for by more or fewer groups than before.
LEMMA AdoptAutoImportsAccounts ==
    ASSUME Accounts, NEW next \in Snapshots, AdoptAutoImports(next), IInv'
    PROVE  Accounts'
<1>0. Bounded /\ Dealt /\ CountsHeld /\ NoStray
  BY DEF Accounts
<1>1. /\ todo = {} /\ cur = None /\ cur' = None /\ gone = {} /\ gone' = {} /\ todo' = {}
      /\ snapshots' = snapshots + 1 /\ snapshots < MaxSnapshots
      /\ groups' = next
      /\ old' = groups' /\ UNCHANGED <<count, entryId, watchers>>
      /\ missed' = missed \cup {x \in Globs : Askers(x) # Askers(x)'}
  BY DEF AdoptAutoImports, AtRest, registry
<1>2. groups \in [Groups -> (SUBSET Globs) \cup {Absent}]
  BY <1>0 DEF Bounded, Snapshots
<1>3. old = groups
  <2>1. \A g \in Groups : old[g] = groups[g]
    BY <1>0, <1>1, WatchesAssumption DEF Dealt
  <2>2. old \in [Groups -> (SUBSET Globs) \cup {Absent}]
    BY <1>0 DEF Bounded, Snapshots
  <2> QED
    BY <1>2, <2>1, <2>2
<1>4. Bounded'
  <2>1. /\ snapshots \in Nat /\ snapshots + 1 \in 0..MaxSnapshots
        /\ missed' \subseteq Globs /\ {} \in SUBSET Groups
    BY <1>0, <1>1, <1>2, WatchesAssumption DEF Bounded
  <2>2. Drawn \in Nat /\ Drawn' \in Nat /\ Drawn <= Drawn'
    <3>1. Cardinality(todo) = 0 /\ Cardinality(todo') = 0
      BY <1>1, FS_EmptySet
    <3>2. /\ Cardinality(Groups) \in Nat
          /\ snapshots * Cardinality(Groups) \in Nat
          /\ (snapshots + 1) * Cardinality(Groups)
                = snapshots * Cardinality(Groups) + Cardinality(Groups)
      BY <2>1, DrawnIsNumber
    <3>3. /\ Drawn = snapshots * Cardinality(Groups) - Cardinality(todo)
          /\ Drawn' = (snapshots + 1) * Cardinality(Groups) - Cardinality(todo')
      BY <1>1 DEF Drawn
    <3> QED
      BY <3>1, <3>2, <3>3
  <2>3. IdsUpTo(Drawn) \subseteq IdsUpTo(Drawn') /\ [Globs -> 0..Drawn] \subseteq [Globs -> 0..Drawn']
    BY <2>2, BoundGrows
  <2>4. groups' \in Snapshots
    BY <1>1
  <2>5. /\ entryId' \in [Globs -> 0..Drawn']
        /\ watchers' \subseteq IdsUpTo(Drawn') /\ IsFiniteSet(watchers')
    BY <1>0, <1>1, <2>3 DEF Bounded
  <2>6. IdsUpTo(Drawn') = IdsUpTo(Drawn)'
    BY DEF IdsUpTo
  <2> QED
    BY <1>1, <2>1, <2>2, <2>4, <2>5, <2>6 DEF Bounded
<1>5. Dealt'
  BY <1>1 DEF Dealt
<1>6. CountsHeld'
  <2> SUFFICES ASSUME NEW x \in Globs, x \notin missed'
               PROVE  count'[x] = Cardinality(Counting(x)') + CountedTwice(x)'
    BY DEF CountsHeld
  <2>1. CountedTwice(x) = 0 /\ CountedTwice(x)' = 0
    BY <1>1 DEF CountedTwice
  <2>2. Askers(x)' = Askers(x)
    BY <1>1
  <2>3. Counting(x)' = Counting(x)
    <3>1. Counting(x)' = Askers(x)' /\ Counting(x) = Askers(x)
      BY <1>1, <1>3 DEF Counting, Askers
    <3> QED
      BY <2>2, <3>1
  <2> QED
    BY <1>0, <1>1, <2>1, <2>3 DEF CountsHeld
<1>7. NoStray'
  BY <1>0, <1>1 DEF NoStray
<1> QED
  BY <1>4, <1>5, <1>6, <1>7 DEF Accounts


\* A group counted for its new globs draws one id for each glob of its batch, and the
\* registrations of those globs, if any, are of refused ones.
LEMMA AcquireNewAccounts ==
    ASSUME Accounts, NEW g \in Groups, AcquireNew(g), IInv'
    PROVE  Accounts'
<1> DEFINE wanted == Wanted(groups[g])
<1>0. Bounded /\ Dealt /\ CountsHeld /\ NoStray /\ Types
  BY DEF Accounts, IInv
<1>1. /\ cur = None /\ cur' = g /\ gone = {} /\ gone' = {} /\ g \in todo /\ todo' = todo \ {g}
      /\ UNCHANGED <<groups, snapshots, watchers, old, missed>>
  BY DEF AcquireNew
<1>2. batch' = {x \in wanted : count[x] = 0} /\ wanted \subseteq Globs
  BY <1>0 DEF AcquireNew, Types, Wanted
<1>3. count' = [x \in Globs |-> IF x \in wanted THEN count[x] + 1 ELSE count[x]]
  BY DEF AcquireNew
<1>4. entryId' = [x \in Globs |-> IF x \in batch' THEN NewId(x) ELSE entryId[x]]
  BY DEF AcquireNew
<1>5. count \in [Globs -> Nat]
  BY <1>0 DEF Types
<1>6. Drawn \in Nat /\ Drawn' = Drawn + 1
  <2>1. IsFiniteSet(todo) /\ Cardinality(todo) \in Nat
    BY <1>0, FS_Subset, FS_CardinalityType, WatchesAssumption DEF Bounded
  <2>2. Cardinality(todo') = Cardinality(todo) - 1
    BY <1>1, <2>1, FS_RemoveElement
  <2>3. snapshots * Cardinality(Groups) \in Nat
    BY <1>0, DrawnIsNumber DEF Bounded
  <2>4. /\ Drawn \in Nat /\ Drawn = snapshots * Cardinality(Groups) - Cardinality(todo)
        /\ Drawn' = snapshots * Cardinality(Groups) - Cardinality(todo')
    BY <1>0, <1>1 DEF Drawn, Bounded
  <2> QED
    BY <2>1, <2>2, <2>3, <2>4
<1> HIDE DEF wanted
<1>7. Bounded'
  <2>1. IdsUpTo(Drawn) \subseteq IdsUpTo(Drawn') /\ Drawn' \in Nat
    BY <1>6, BoundGrows
  <2>2. \A x \in Globs : NewId(x) \in 0..Drawn'
    BY <1>0, <1>6, NewIdIsNew DEF Bounded
  <2>3. \A x \in Globs : entryId[x] \in 0..Drawn'
    BY <1>0, <1>6 DEF Bounded
  <2>4. entryId' \in [Globs -> 0..Drawn']
    BY <1>4, <2>2, <2>3
  <2>5. IdsUpTo(Drawn') = IdsUpTo(Drawn)'
    BY DEF IdsUpTo
  <2> QED
    BY <1>0, <1>1, <2>1, <2>4, <2>5 DEF Bounded
<1>8. Dealt'
  BY <1>0, <1>1, WatchesAssumption DEF Dealt
<1>9. CountsHeld'
  <2> SUFFICES ASSUME NEW x \in Globs, x \notin missed
               PROVE  count'[x] = Cardinality(Counting(x)') + CountedTwice(x)'
    BY <1>1 DEF CountsHeld
  <2>1. Counting(x)' = Counting(x)
    BY <1>1 DEF Counting
  <2>2. CountedTwice(x) = 0 /\ CountedTwice(x)' = IF x \in wanted THEN 1 ELSE 0
    BY <1>1, WatchesAssumption DEF CountedTwice, wanted
  <2>3. Cardinality(Counting(x)) \in Nat
    BY CountingIsNumber
  <2> QED
    BY <1>0, <1>3, <1>5, <2>1, <2>2, <2>3 DEF CountsHeld
<1>10. NoStray'
  <2> SUFFICES ASSUME NEW w \in watchers, w.glob \notin missed
               PROVE  count'[w.glob] > 0 /\ w.n = entryId'[w.glob]
    BY <1>1 DEF NoStray
  <2>1. w.glob \in Globs
    BY <1>0 DEF Bounded, IdsUpTo
  <2>2. count[w.glob] > 0 /\ w.n = entryId[w.glob]
    BY <1>0, <1>1 DEF NoStray
  <2> QED
    BY <1>2, <1>3, <1>4, <1>5, <2>1, <2>2
<1> QED
  BY <1>7, <1>8, <1>9, <1>10 DEF Accounts

\* The client takes a registration under the id the registry has for the glob.
LEMMA WatchFilesAccounts ==
    ASSUME Accounts, NEW x \in Globs, WatchFiles(x), IInv'
    PROVE  Accounts'
<1>0. Bounded /\ Dealt /\ CountsHeld /\ NoStray /\ Types /\ BatchCountedOnce
  BY DEF Accounts, IInv
<1> DEFINE id == [glob |-> x, n |-> entryId[x]]
<1>1. /\ UNCHANGED <<groups, snapshots, count, entryId, old, todo, cur, gone, missed>>
      /\ x \in batch /\ (watchers' = watchers \/ watchers' = watchers \cup {id})
  BY <1>0 DEF WatchFiles, registry, Types
<1>2. id \in IdsUpTo(Drawn) /\ id.glob = x /\ id.n = entryId[x]
  BY <1>0 DEF Bounded, IdsUpTo
<1> HIDE DEF id
<1>3. Bounded'
  <2>1. Drawn' = Drawn /\ IdsUpTo(Drawn)' = IdsUpTo(Drawn)
    BY <1>1 DEF Drawn, IdsUpTo
  <2>2. IsFiniteSet(watchers') /\ watchers' \subseteq IdsUpTo(Drawn)
    BY <1>0, <1>1, <1>2, FS_AddElement DEF Bounded
  <2> QED
    BY <1>0, <1>1, <2>1, <2>2 DEF Bounded
<1>4. Dealt' /\ CountsHeld'
  <2>1. \A y : Counting(y)' = Counting(y) /\ CountedTwice(y)' = CountedTwice(y)
    BY <1>1 DEF Counting, CountedTwice
  <2> QED
    BY <1>0, <1>1, <2>1 DEF Dealt, CountsHeld
<1>5. NoStray'
  <2>1. count[x] = 1
    BY <1>0, <1>1 DEF BatchCountedOnce
  <2> QED
    BY <1>0, <1>1, <1>2, <2>1 DEF NoStray
<1> QED
  BY <1>3, <1>4, <1>5 DEF Accounts

\* The groups that count for a glob after the release of a group's old globs.
LEMMA CountingAfterRelease ==
    ASSUME NEW x, NEW g \in Groups, cur = g,
           old \in [Groups -> (SUBSET Globs) \cup {Absent}],
           old' = [old EXCEPT ![g] = groups[g]], cur' = None
    PROVE  LET held == Cardinality(Counting(x)) + CountedTwice(x)
               left == Cardinality(Counting(x)') + CountedTwice(x)'
           IN  /\ held \in Nat
               /\ x \in Wanted(old[g]) => held >= 1 /\ left = held - 1
               /\ x \notin Wanted(old[g]) => left = held
<1> DEFINE S == Counting(x)
           T == {h \in Groups : x \in Wanted(old'[h])}
           rest == S \ {g}
<1>1. IsFiniteSet(S) /\ Cardinality(S) \in Nat
  BY CountingIsNumber
<1>2. Counting(x)' = T /\ CountedTwice(x)' = 0
  BY DEF Counting, CountedTwice
<1>3. CountedTwice(x) = IF x \in Wanted(groups[g]) THEN 1 ELSE 0
  BY WatchesAssumption DEF CountedTwice
<1>4. g \in S <=> x \in Wanted(old[g])
  BY DEF Counting
<1>5. T = IF x \in Wanted(groups[g]) THEN rest \cup {g} ELSE rest
  <2>1. \A h \in Groups : old'[h] = IF h = g THEN groups[g] ELSE old[h]
    OBVIOUS
  <2> QED
    BY <2>1 DEF Counting
<1> HIDE DEF S, T
<1>6. IsFiniteSet(rest) /\ Cardinality(rest) = IF g \in S THEN Cardinality(S) - 1 ELSE Cardinality(S)
  BY <1>1, FS_RemoveElement
<1>7. g \notin rest
  OBVIOUS
<1> HIDE DEF rest
<1>8. Cardinality(rest \cup {g}) = Cardinality(rest) + 1
  BY <1>6, <1>7, FS_AddElement
<1>9. g \in S => Cardinality(S) >= 1
  BY <1>1, FS_EmptySet
<1>10. Cardinality(T) = IF x \in Wanted(groups[g]) THEN Cardinality(rest) + 1 ELSE Cardinality(rest)
  BY <1>5, <1>8
<1>11. Cardinality(S) = Cardinality(Counting(x)) /\ Cardinality(Counting(x)') = Cardinality(T)
  BY <1>2 DEF S
<1> QED
  BY <1>1, <1>2, <1>3, <1>4, <1>6, <1>9, <1>10, <1>11

\* The old globs of a group are released once, and the registration of a glob that
\* nobody counts any more is to be withdrawn.
LEMMA ReleaseOldAccounts ==
    ASSUME Accounts, ReleaseOld, IInv'
    PROVE  Accounts'
<1>0. Bounded /\ Dealt /\ CountsHeld /\ NoStray /\ Types /\ OneUpdate /\ BatchCountedOnce
  BY DEF Accounts, IInv
<1> DEFINE g == cur
<1>1. /\ g \in Groups /\ cur' = None /\ gone = {}
      /\ old' = [old EXCEPT ![g] = groups[g]]
      /\ UNCHANGED <<groups, snapshots, watchers, todo>>
      /\ missed' = IF erred THEN missed \cup batch ELSE missed
  BY <1>0 DEF ReleaseOld, Types, OneUpdate
<1>2. /\ count' = [x \in Globs |-> IF x \in Wanted(old[g]) THEN Released(RolledBack[x])
                                   ELSE RolledBack[x]]
      /\ gone' = {[glob |-> x, n |-> entryId[x]] : x \in {y \in Wanted(old[g]) : RolledBack[y] = 1}}
      /\ entryId' = [x \in Globs |-> IF count'[x] = 0 THEN 0 ELSE entryId[x]]
  BY DEF ReleaseOld
<1>3. \A x \in Globs : x \notin missed' => x \notin missed /\ RolledBack[x] = count[x]
  BY <1>1 DEF RolledBack
<1>4. /\ old \in [Groups -> (SUBSET Globs) \cup {Absent}]
      /\ groups \in [Groups -> (SUBSET Globs) \cup {Absent}]
      /\ count \in [Globs -> Nat] /\ Wanted(old[g]) \subseteq Globs
  BY <1>0, <1>1 DEF Types, Wanted
<1>5. Bounded'
  <2>1. Drawn' = Drawn /\ IdsUpTo(Drawn)' = IdsUpTo(Drawn) /\ Drawn \in Nat
    BY <1>0, <1>1 DEF Drawn, IdsUpTo, Bounded
  <2>2. \A x \in Globs : entryId[x] \in 0..Drawn
    BY <1>0 DEF Bounded
  <2>3. entryId' \in [Globs -> 0..Drawn]
    BY <1>2, <2>1, <2>2
  <2>4. gone' \subseteq IdsUpTo(Drawn)
    BY <1>2, <1>4, <2>2 DEF IdsUpTo
  <2>5. old' \in Snapshots
    BY <1>1, <1>4 DEF Snapshots
  <2>6. missed' \subseteq Globs
    BY <1>0, <1>1 DEF Bounded, Types
  <2> QED
    BY <1>0, <1>1, <2>1, <2>3, <2>4, <2>5, <2>6 DEF Bounded
<1>6. Dealt'
  BY <1>0, <1>1, <1>4 DEF Dealt
<1>7. CountsHeld'
  <2> SUFFICES ASSUME NEW x \in Globs, x \notin missed'
               PROVE  count'[x] = Cardinality(Counting(x)') + CountedTwice(x)'
    BY DEF CountsHeld
  <2> DEFINE held == Cardinality(Counting(x)) + CountedTwice(x)
             left == Cardinality(Counting(x)') + CountedTwice(x)'
  <2>1. /\ held \in Nat /\ (x \in Wanted(old[g]) => held >= 1 /\ left = held - 1)
        /\ (x \notin Wanted(old[g]) => left = held)
    BY <1>1, <1>4, CountingAfterRelease
  <2>2. RolledBack[x] = held
    BY <1>0, <1>3 DEF CountsHeld
  <2>3. count'[x] = IF x \in Wanted(old[g]) THEN Released(held) ELSE held
    BY <1>2, <2>2
  <2> HIDE DEF held, left
  <2>4. count'[x] = left
    BY <2>1, <2>3 DEF Released
  <2> QED
    BY <2>4 DEF left
<1>8. NoStray'
  <2> SUFFICES ASSUME NEW w \in watchers, w.glob \notin missed'
               PROVE  w \in gone' \/ (count'[w.glob] > 0 /\ w.n = entryId'[w.glob])
    BY <1>1 DEF NoStray
  <2> DEFINE x == w.glob
  <2>1. x \in Globs /\ w = [glob |-> x, n |-> w.n]
    BY <1>0 DEF Bounded, IdsUpTo
  <2>2. x \notin missed /\ RolledBack[x] = count[x]
    BY <1>3, <2>1
  <2>3. count[x] > 0 /\ w.n = entryId[x] /\ count[x] \in Nat
    BY <1>0, <1>1, <1>4, <2>1, <2>2 DEF NoStray
  <2>4. w = [glob |-> x, n |-> entryId[x]]
    BY <2>1, <2>3
  <2> HIDE DEF x
  <2>5. CASE x \in Wanted(old[g]) /\ count[x] = 1
    BY <1>2, <2>2, <2>4, <2>5
  <2>6. CASE ~ (x \in Wanted(old[g]) /\ count[x] = 1)
    <3>1. count'[x] > 0
      BY <1>2, <2>1, <2>2, <2>3, <2>6 DEF Released
    <3>2. entryId'[x] = entryId[x]
      BY <1>2, <2>1, <3>1
    <3> QED
      BY <2>3, <3>1, <3>2 DEF x
  <2> QED
    BY <2>5, <2>6
<1> QED
  BY <1>5, <1>6, <1>7, <1>8 DEF Accounts

\* A lost auto-import watch marks the globs that stay counted for it.
LEMMA UnwrapFailsAccounts ==
    ASSUME Accounts, UnwrapFails, IInv'
    PROVE  Accounts'
<1>0. Bounded /\ Dealt /\ CountsHeld /\ NoStray
  BY DEF Accounts
<1> DEFINE a == AutoImports
<1>1. /\ cur = None /\ cur' = None /\ gone = {} /\ todo = {a} /\ todo' = {}
      /\ missed' = missed \cup Wanted(old[a])
      /\ old' = [old EXCEPT ![a] = groups[a]]
      /\ UNCHANGED <<groups, snapshots, count, entryId, watchers, gone>>
  BY DEF UnwrapFails, registry
<1>2. groups[a] = Absent /\ Wanted(groups[a]) = {} /\ a \in Groups
  BY <1>0 DEF UnwrapFails, Unwraps, Dealt, Wanted, Groups
<1>3. /\ old \in [Groups -> (SUBSET Globs) \cup {Absent}]
      /\ groups \in [Groups -> (SUBSET Globs) \cup {Absent}]
      /\ Wanted(old[a]) \subseteq Globs
  BY <1>0, <1>2 DEF Bounded, Snapshots, Wanted
<1> HIDE DEF a
<1>4. Bounded'
  <2>1. Drawn \in Nat /\ Drawn' \in Nat /\ Drawn <= Drawn'
    <3>1. Cardinality(todo) = 1 /\ Cardinality(todo') = 0
      BY <1>1, FS_Singleton, FS_EmptySet
    <3>2. snapshots \in Nat /\ {} \in SUBSET Groups
      BY <1>0, WatchesAssumption DEF Bounded
    <3>3. snapshots * Cardinality(Groups) \in Nat
      BY <3>2, DrawnIsNumber
    <3>4. /\ Drawn = snapshots * Cardinality(Groups) - Cardinality(todo) /\ Drawn \in Nat
          /\ Drawn' = snapshots * Cardinality(Groups) - Cardinality(todo')
      BY <1>0, <1>1 DEF Drawn, Bounded
    <3> QED
      BY <3>1, <3>3, <3>4
  <2>2. IdsUpTo(Drawn) \subseteq IdsUpTo(Drawn') /\ [Globs -> 0..Drawn] \subseteq [Globs -> 0..Drawn']
    BY <2>1, BoundGrows
  <2>3. old' \in Snapshots /\ missed' \subseteq Globs /\ todo' \subseteq Groups
    BY <1>0, <1>1, <1>3 DEF Snapshots, Bounded
  <2>4. /\ entryId' \in [Globs -> 0..Drawn'] /\ gone' \subseteq IdsUpTo(Drawn')
        /\ watchers' \subseteq IdsUpTo(Drawn') /\ IsFiniteSet(watchers')
    BY <1>0, <1>1, <2>2 DEF Bounded
  <2>5. IdsUpTo(Drawn') = IdsUpTo(Drawn)'
    BY DEF IdsUpTo
  <2> QED
    BY <1>0, <1>1, <2>1, <2>3, <2>4, <2>5 DEF Bounded
<1>5. \A h \in Groups : old'[h] = IF h = a THEN groups[a] ELSE old[h]
  BY <1>1, <1>3
<1>6. Dealt'
  BY <1>0, <1>1, <1>2, <1>5 DEF Dealt, a
<1>7. CountsHeld'
  <2> SUFFICES ASSUME NEW x \in Globs, x \notin missed'
               PROVE  count'[x] = Cardinality(Counting(x)') + CountedTwice(x)'
    BY DEF CountsHeld
  <2>1. CountedTwice(x) = 0 /\ CountedTwice(x)' = 0
    BY <1>1 DEF CountedTwice
  <2>2. Counting(x)' = Counting(x)
    BY <1>1, <1>2, <1>5 DEF Counting
  <2> QED
    BY <1>0, <1>1, <2>1, <2>2 DEF CountsHeld
<1>8. NoStray'
  BY <1>0, <1>1 DEF NoStray
<1> QED
  BY <1>4, <1>6, <1>7, <1>8 DEF Accounts

\* A withdrawal takes the registration away or marks its glob.
LEMMA UnwatchFilesAccounts ==
    ASSUME Accounts, NEW w \in gone, UnwatchFiles(w), IInv'
    PROVE  Accounts'
<1>0. Bounded /\ Dealt /\ CountsHeld /\ NoStray
  BY DEF Accounts
<1>1. /\ UNCHANGED <<groups, snapshots, count, entryId, old, todo, cur>>
      /\ gone' = gone \ {w}
      /\ \/ watchers' = watchers \ {w} /\ missed' = missed
         \/ watchers' = watchers /\ missed' = missed \cup {w.glob}
  BY DEF UnwatchFiles, registry
<1>2. Bounded'
  <2>1. Drawn' = Drawn /\ IdsUpTo(Drawn)' = IdsUpTo(Drawn)
    BY <1>1 DEF Drawn, IdsUpTo
  <2>2. watchers' \in SUBSET watchers /\ IsFiniteSet(watchers)
    BY <1>0, <1>1 DEF Bounded
  <2>3. IsFiniteSet(watchers')
    BY <2>2, FS_Subset
  <2>4. missed' \subseteq Globs
    BY <1>0, <1>1 DEF Bounded, IdsUpTo
  <2> QED
    BY <1>0, <1>1, <2>1, <2>2, <2>3, <2>4 DEF Bounded
<1>3. Dealt' /\ CountsHeld'
  <2>1. \A y : Counting(y)' = Counting(y) /\ CountedTwice(y)' = CountedTwice(y)
    BY <1>1 DEF Counting, CountedTwice
  <2> QED
    BY <1>0, <1>1, <2>1 DEF Dealt, CountsHeld
<1>4. NoStray'
  BY <1>0, <1>1 DEF NoStray
<1> QED
  BY <1>2, <1>3, <1>4 DEF Accounts

\* Every step keeps the accounts.
LEMMA NextAccounts == Accounts /\ [Next]_vars => Accounts'
<1> SUFFICES ASSUME Accounts, [Next]_vars PROVE Accounts'
  OBVIOUS
<1>1. IInv'
  BY NextKeeps DEF Accounts
<1>2. CASE UNCHANGED vars
  <2>1. /\ UNCHANGED <<groups, snapshots, count, entryId, watchers, old, todo, cur, gone, missed>>
    BY <1>2 DEF vars, registry, update
  <2>2. Drawn' = Drawn /\ IdsUpTo(Drawn)' = IdsUpTo(Drawn)
    BY <2>1 DEF Drawn, IdsUpTo
  <2>3. \A y : Counting(y)' = Counting(y) /\ CountedTwice(y)' = CountedTwice(y)
    BY <2>1 DEF Counting, CountedTwice
  <2>4. Bounded'
    BY <2>1, <2>2 DEF Accounts, Bounded
  <2> QED
    BY <1>1, <2>1, <2>3, <2>4 DEF Accounts, Dealt, CountsHeld, NoStray
<1> QED
  BY <1>1, <1>2, UpdateSnapshotAccounts, AdoptAutoImportsAccounts, UnwrapFailsAccounts,
     AcquireNewAccounts,
     WatchFilesAccounts, ReleaseOldAccounts, UnwatchFilesAccounts DEF Next

\* At rest nothing is counted for an old snapshot any more.
LEMMA AccountsAtRest ==
    ASSUME Accounts, AtRest
    PROVE  \A x \in Globs : /\ Counting(x) = Askers(x) /\ CountedTwice(x) = 0
                            /\ x \notin missed => count[x] = Cardinality(Askers(x))
<1>1. \A g \in Groups : old[g] = groups[g]
  BY WatchesAssumption DEF Accounts, Dealt, AtRest
<1>2. \A x \in Globs : Counting(x) = Askers(x) /\ CountedTwice(x) = 0
  BY <1>1 DEF Counting, Askers, CountedTwice, AtRest
<1>3. \A x \in Globs : Cardinality(Counting(x)) \in Nat
  BY CountingIsNumber
<1> QED
  BY <1>2, <1>3 DEF Accounts, CountsHeld

\* Between updates the registry counts a glob once for every group that asks for it,
\* for any groups and globs and any number of snapshots, refusals and withdrawals:
\* the rollback of update_watch and the release of the old group never take a count
\* that another group stands for.  Off may be the globs of a refused batch, accepted
\* or not, those with a refused withdrawal, and those whose askers changed in a
\* snapshot adopted without update_watches or lost their auto-import watch.
THEOREM WatchCountsMatch == Spec => []CountsMatchGroups
<1>1. Accounts => CountsMatchGroups
  <2> SUFFICES ASSUME Accounts PROVE CountsMatchGroups
    OBVIOUS
  <2>1. Drawn \in 0..(2 * MaxSnapshots * Cardinality(Groups))
    <3>1. snapshots \in Nat /\ snapshots <= MaxSnapshots /\ MaxSnapshots \in Nat
      BY WatchesAssumption DEF Accounts, Bounded
    <3>2. /\ Cardinality(Groups) \in Nat /\ Cardinality(todo) \in Nat
          /\ Drawn \in Nat /\ Drawn = snapshots * Cardinality(Groups) - Cardinality(todo)
      BY <3>1, DrawnIsNumber DEF Accounts, Bounded, Drawn
    <3>3. \A a, b, c \in Nat : a <= b => a * c <= 2 * b * c
      OBVIOUS
    <3>4. snapshots * Cardinality(Groups) \in Nat
      BY <3>1, <3>2
    <3>5. 2 * MaxSnapshots * Cardinality(Groups) \in Nat
      BY <3>1, <3>2
    <3>6. snapshots * Cardinality(Groups) <= 2 * MaxSnapshots * Cardinality(Groups)
      BY <3>1, <3>2, <3>3
    <3> HIDE DEF Drawn
    <3> QED
      BY <3>2, <3>4, <3>5, <3>6
  <2>2. IdsUpTo(Drawn) \subseteq Ids
    <3> DEFINE top == 2 * MaxSnapshots * Cardinality(Groups)
    <3>1. top \in Int /\ Drawn \in 0..top
      BY <2>1, DrawnIsNumber, WatchesAssumption
    <3> HIDE DEF top
    <3>2. 0..Drawn \subseteq 0..top
      BY <3>1
    <3>3. Ids = [glob : Globs, n : 0..top]
      BY DEF Ids, top
    <3> QED
      BY <3>2, <3>3 DEF IdsUpTo
  <2>3. \A x \in Globs : entryId[x] \in Nat
    BY DEF Accounts, Bounded
  <2>4. TypeOK
    BY <2>2, <2>3 DEF Accounts, Bounded, IInv, Types, TypeOK
  <2>5. AtRest => \A x \in Globs \ missed : count[x] = Cardinality(Askers(x))
    BY AccountsAtRest
  <2> QED
    BY <2>4, <2>5 DEF CountsMatchGroups
<1> QED
  BY <1>1, InitAccounts, NextAccounts, PTL DEF Spec

\* Between updates the client watches exactly the globs some group asks for, with the
\* exceptions of WatchCountsMatch: a registration is never left behind, nor is one
\* missing.
THEOREM WatchedIsAsked == Spec => []WatchedAsAsked
<1>1. Accounts => WatchedAsAsked
  <2> SUFFICES ASSUME Accounts, AtRest, NEW x \in Globs, x \notin missed
               PROVE  Watched(x) <=> Askers(x) # {}
    BY DEF WatchedAsAsked
  <2>1. count[x] = Cardinality(Askers(x)) /\ Askers(x) = Counting(x)
    BY AccountsAtRest
  <2>2. count[x] = 0 <=> Askers(x) = {}
    BY <2>1, CountingIsNumber, FS_EmptySet
  <2>3. count[x] \in Nat /\ batch = {}
    BY DEF Accounts, IInv, Types, OneUpdate, AtRest
  <2>4. count[x] > 0 => Watched(x)
    <3>1. count[x] > 0 => [glob |-> x, n |-> entryId[x]] \in watchers
      BY <2>3 DEF Accounts, IInv, CountedIsWatched
    <3>2. [glob |-> x, n |-> entryId[x]].glob = x
      OBVIOUS
    <3> QED
      BY <3>1, <3>2 DEF Watched
  <2>5. Watched(x) => count[x] > 0
    BY DEF Accounts, NoStray, Watched, AtRest
  <2> QED
    BY <2>2, <2>3, <2>4, <2>5
<1> QED
  BY <1>1, InitAccounts, NextAccounts, PTL DEF Spec

=============================================================================
