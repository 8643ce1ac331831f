----------------------- MODULE SessionSnapshotsProofs -----------------------
(***************************************************************************)
(* For any configuration files, whatever they extend, any handles and any  *)
(* number of snapshots: snapshots are disposed once and last, programs and *)
(* extended configs are held exactly by the snapshots that use them, and   *)
(* the session's thread stops only for the reasons named in                *)
(* StopsExplained.                                                         *)
(***************************************************************************)
EXTENDS SessionSnapshots, FiniteSetTheorems, TLAPS

-----------------------------------------------------------------------------
(* Reading configs.                                                        *)

Disk == extends \in [Files -> SUBSET Files]

Closed(T, roots, parse) ==
    roots \subseteq T /\ (\A f \in T \cap parse : extends[f] \subseteq T)

\* LoadedFrom is the least set of files that has the roots and, with a file that is
\* parsed, what the file extends.
LEMMA LoadedFromLeast ==
    ASSUME Disk, NEW roots \in SUBSET Files, NEW parse
    PROVE  /\ LoadedFrom(roots, parse) \subseteq Files
           /\ Closed(LoadedFrom(roots, parse), roots, parse)
           /\ \A T \in SUBSET Files :
                  Closed(T, roots, parse) => LoadedFrom(roots, parse) \subseteq T
<1> DEFINE Least(S) == /\ roots \subseteq S
                       /\ \A f \in S \cap parse : extends[f] \subseteq S
                       /\ \A T \in SUBSET Files :
                              roots \subseteq T /\ (\A f \in T \cap parse : extends[f] \subseteq T)
                                  => S \subseteq T
           M == {f \in Files : \A T \in SUBSET Files : Closed(T, roots, parse) => f \in T}
<1>1. M \in SUBSET Files
  OBVIOUS
<1>2. roots \subseteq M
  BY DEF Closed
<1>3. \A f \in M \cap parse : extends[f] \subseteq M
  <2> SUFFICES ASSUME NEW f \in M, f \in parse, NEW g \in extends[f]
               PROVE  g \in M
    OBVIOUS
  <2>1. g \in Files
    BY DEF Disk
  <2>2. ASSUME NEW T \in SUBSET Files, Closed(T, roots, parse)
        PROVE  g \in T
    BY <2>2 DEF Closed
  <2> QED
    BY <2>1, <2>2
<1>4. \A T \in SUBSET Files :
          roots \subseteq T /\ (\A f \in T \cap parse : extends[f] \subseteq T) => M \subseteq T
  BY DEF Closed
<1>5. \E S \in SUBSET Files : Least(S)
  BY <1>1, <1>2, <1>3, <1>4
<1>6. LoadedFrom(roots, parse) = CHOOSE S \in SUBSET Files : Least(S)
  BY DEF LoadedFrom
<1> HIDE DEF Least
<1>7. LoadedFrom(roots, parse) \in SUBSET Files /\ Least(LoadedFrom(roots, parse))
  BY <1>5, <1>6, Zenon
<1> QED
  BY <1>7 DEF Least, Closed

\* Parsing more files loads more files.
LEMMA LoadedFromGrows ==
    ASSUME Disk, NEW roots \in SUBSET Files, NEW parse, NEW more, parse \subseteq more
    PROVE  LoadedFrom(roots, parse) \subseteq LoadedFrom(roots, more)
<1> DEFINE T == LoadedFrom(roots, more)
<1>1. T \in SUBSET Files /\ Closed(T, roots, more)
  BY LoadedFromLeast
<1>2. Closed(T, roots, parse)
  BY <1>1 DEF Closed
<1> HIDE DEF T
<1>3. LoadedFrom(roots, parse) \subseteq T
  BY <1>1, <1>2, LoadedFromLeast
<1> QED
  BY <1>3 DEF T

\* What a config extends has, with any file, what that file extends.
LEMMA ExtendedFilesClosed ==
    ASSUME Disk, NEW c \in Files
    PROVE  /\ ExtendedFiles(c) \subseteq Files
           /\ extends[c] \subseteq ExtendedFiles(c)
           /\ \A f \in ExtendedFiles(c) : extends[f] \subseteq ExtendedFiles(c)
<1>1. extends[c] \in SUBSET Files
  BY DEF Disk
<1>2. /\ ExtendedFiles(c) \subseteq Files
      /\ Closed(ExtendedFiles(c), extends[c], Files \ {c})
  BY <1>1, LoadedFromLeast DEF ExtendedFiles
<1> QED
  BY <1>2 DEF Closed

\* Reading a config loads only files that it extends.
LEMMA LoadExtended ==
    ASSUME Disk, NEW c \in Files
    PROVE  Load(c) \subseteq ExtendedFiles(c)
<1>1. extends[c] \in SUBSET Files
  BY DEF Disk
<1>2. {f \in Files \ {c} : MustParse(f)} \subseteq Files \ {c}
  OBVIOUS
<1> QED
  BY <1>1, <1>2, LoadedFromGrows DEF Load, ExtendedFiles

\* When the cache has, with any file, what that file extends, then after config c is
\* read everything c extends is loaded or was cached before.
LEMMA LoadOrCached ==
    ASSUME Disk, NEW c \in Files,
           \A f \in Files : owners[f] # {} => \A g \in extends[f] : owners[g] # {}
    PROVE  \A f \in ExtendedFiles(c) : f \in Load(c) \/ owners[f] # {}
<1> DEFINE parse == {f \in Files \ {c} : MustParse(f)}
           T == Load(c) \cup {f \in Files : owners[f] # {}}
<1>1. extends[c] \in SUBSET Files
  BY DEF Disk
<1>2. Load(c) \subseteq Files /\ Closed(Load(c), extends[c], parse)
  BY <1>1, LoadedFromLeast DEF Load
<1>3. \A f \in T \cap (Files \ {c}) : extends[f] \subseteq T
  <2> SUFFICES ASSUME NEW f \in T, f # c, f \in Files
               PROVE  extends[f] \subseteq T
    OBVIOUS
  <2>1. CASE owners[f] # {}
    BY <2>1 DEF Disk
  <2>2. CASE owners[f] = {}
    <3>1. f \in Load(c) /\ f \in parse
      BY <2>2 DEF MustParse
    <3> HIDE DEF parse
    <3> QED
      BY <1>2, <3>1 DEF Closed
  <2> QED
    BY <2>1, <2>2
<1>4. extends[c] \subseteq T
  <2> HIDE DEF parse
  <2> QED
    BY <1>2 DEF Closed
<1>5. T \in SUBSET Files
  BY <1>2
<1>6. Closed(T, extends[c], Files \ {c})
  BY <1>3, <1>4 DEF Closed
<1> HIDE DEF T
<1>7. ExtendedFiles(c) \subseteq T
  BY <1>1, <1>5, <1>6, LoadedFromLeast DEF ExtendedFiles
<1> QED
  BY <1>7 DEF T

-----------------------------------------------------------------------------
(* The inductive invariant.                                                *)

Handle == [of : Ids, count : Nat]

\* The types, and handles as a table of copies.
Types == TypeOK /\ handles \in [Handles -> Handle \cup {NoHandle}]

\* The first snapshot has nothing, and snapshots to come have no configs and have not
\* been disposed.
Numbering ==
    /\ configs[0] = {} /\ program[0] = NoProgram
    /\ \A s \in 1..lastId : program[s] \in 1..s
    /\ \A s \in Ids : s > lastId => disposals[s] = 0 /\ configs[s] = {}

\* A snapshot left half made is nobody's and is never disposed.
Abandoned == \A s \in abandoned : s \in 1..lastId /\ s # current /\ disposals[s] = 0

\* An update's task, and an API request that waits for its handle, follow the adoption
\* of a snapshot; the auto-import watch is lost through the API only.
ApiSide ==
    /\ watched \in BOOLEAN /\ apiProjects \in {"none", "open", "gone"}
    /\ task \in {"watches", "warm", "idle"}
    /\ asking \in [at : Handles, lost : BOOLEAN] \cup {NoHandle}
    /\ task # "idle" \/ asking # NoHandle => current # 0
    /\ ~watched => apiProjects # "none"

\* The session's reference is counted in its snapshot, and any further one is a caller's.
CurrentCounted ==
    /\ refCount[current] >= 1
    /\ refCount[current] > 1 => current \in handed

\* The copy in a handle counts the session's reference too: releasing the handle never
\* counts down to zero.
HandlesCounted ==
    \A h \in Handles : handles[h] # NoHandle =>
        /\ handles[h].of \in 1..lastId /\ handles[h].count >= 2
        /\ handles[h].of = current => refCount[current] >= 2

\* Ownership is by use: a snapshot that has read only configs it has owns exactly the
\* files its configs extend.
OwnedAreExtended ==
    \A f \in Files : \A s \in owners[f] :
        \/ s \in dropped \cup abandoned
        \/ s \in 1..lastId /\ Live(s) /\ f \in Extended(configs[s])

IInv == /\ Types /\ Numbering /\ Abandoned /\ ApiSide /\ CurrentCounted /\ HandlesCounted
        /\ DisposedOnceAndLast /\ ReplacedIsDisposed /\ ProgramsHeld
        /\ OwnersAreUsers /\ OwnedAreExtended /\ StopsExplained

\* The disk's layout does not change, and neither does what a config extends.
LEMMA SameExtended ==
    ASSUME extends' = extends
    PROVE  /\ \A c : ExtendedFiles(c)' = ExtendedFiles(c)
           /\ \A c, f : LoadedFrom(extends[f], Files \ {c})' = LoadedFrom(extends[f], Files \ {c})
<1>1. ASSUME NEW c PROVE ExtendedFiles(c)' = ExtendedFiles(c)
  BY DEF ExtendedFiles, LoadedFrom
<1>2. ASSUME NEW c, NEW f
      PROVE  LoadedFrom(extends[f], Files \ {c})' = LoadedFrom(extends[f], Files \ {c})
  BY DEF LoadedFrom
<1> QED
  BY <1>1, <1>2

\* What the files extend stays within the files.
LEMMA DiskFact == ASSUME TypeOK PROVE Disk /\ Configs \subseteq Files
  BY SnapshotsAssumption DEF TypeOK, Disk

-----------------------------------------------------------------------------
(* clone_snapshot.                                                         *)

\* How the operations call it: for the next id, on the session's or a handle's
\* snapshot, and with the session's snapshot or the new one to give up.
Cloning(s, read, cs, p, count, loser) ==
    /\ s = lastId + 1 /\ s \in Ids
    /\ read \subseteq Configs /\ cs \subseteq Configs
    /\ \A c \in cs : c \in read \/ \E t \in 1..lastId : Live(t) /\ c \in configs[t]
    /\ p \in 1..s
    /\ count \in 1..2
    /\ loser = current \/ (loser = s /\ count = 1)

\* The new snapshot and the counts; only the snapshot given up can be disposed.
LEMMA CloneCounts ==
    ASSUME IInv, NEW s, NEW read, NEW cs, NEW p, NEW count, NEW loser,
           Cloning(s, read, cs, p, count, loser),
           CloneSucceeds(s, read, cs, p, count, loser)
    PROVE  /\ lastId' = s /\ s \in 1..MaxId /\ s > lastId /\ loser \in 0..s
           /\ current' = (IF loser = s THEN current ELSE s) /\ current' \in 0..s
           /\ configs' \in [Ids -> SUBSET Configs] /\ program' \in [Ids -> Ids]
           /\ \A t \in Ids : t # s => configs'[t] = configs[t] /\ program'[t] = program[t]
           /\ configs'[s] = cs /\ program'[s] = p
           /\ refCount' \in [Ids -> Nat] /\ disposals' \in [Ids -> Nat]
           /\ \A t \in Ids : t \notin {s, loser} => refCount'[t] = refCount[t]
           /\ loser # s => refCount'[s] = count /\ refCount'[loser] = refCount[loser] - 1
           /\ loser = s => refCount'[s] = 0
           /\ \A t \in Ids : t # loser => disposals'[t] = disposals[t]
           /\ disposals[loser] = 0
           /\ disposals'[loser] = (IF refCount'[loser] = 0 THEN 1 ELSE 0)
           /\ disposals[s] = 0
<1>0. /\ refCount \in [Ids -> Nat] /\ disposals \in [Ids -> Nat]
      /\ configs \in [Ids -> SUBSET Configs] /\ program \in [Ids -> Ids]
  BY DEF IInv, Types, TypeOK
<1>n. /\ MaxId \in Nat /\ lastId \in Nat /\ current \in Nat /\ current <= lastId
      /\ lastId < MaxId /\ s = lastId + 1 /\ p \in 1..s /\ loser \in {current, s}
  <2>1. MaxId \in Nat /\ lastId \in Ids /\ current \in 0..lastId
    BY SnapshotsAssumption DEF IInv, Types, TypeOK
  <2>2. s = lastId + 1 /\ s \in Ids /\ p \in 1..s /\ loser \in {current, s}
    BY DEF Cloning
  <2> QED
    BY <2>1, <2>2 DEF Ids
<1>c. cs \subseteq Configs /\ count \in 1..2 /\ (loser = s => count = 1)
  BY <1>n DEF Cloning
<1>1. /\ lastId' = s /\ s \in 1..MaxId /\ s > lastId /\ loser \in 0..s
      /\ loser \in Ids /\ 0..s \subseteq Ids /\ s \in Ids /\ current \in Ids
  <2>1. lastId' = s
    BY DEF CloneSucceeds
  <2> QED
    BY <1>n, <2>1 DEF Ids
<1>2. current' = (IF loser = s THEN current ELSE s) /\ current' \in 0..s
  <2>1. current' = IF loser = s THEN current ELSE s
    BY DEF CloneSucceeds
  <2>2. s \in 0..s /\ current \in 0..s
    BY <1>n
  <2> QED
    BY <2>1, <2>2
<1>3. configs' = [configs EXCEPT ![s] = cs] /\ program' = [program EXCEPT ![s] = p]
  BY DEF CloneSucceeds
<1>4. p \in Ids
  BY <1>n DEF Ids
<1>5. /\ configs' \in [Ids -> SUBSET Configs] /\ program' \in [Ids -> Ids]
      /\ \A t \in Ids : t # s => configs'[t] = configs[t] /\ program'[t] = program[t]
      /\ configs'[s] = cs /\ program'[s] = p
  BY <1>0, <1>1, <1>3, <1>4, <1>c
<1>6. refCount' = [[refCount EXCEPT ![s] = count] EXCEPT ![loser] = @ - 1]
  BY DEF CloneSucceeds
<1>7. refCount[current] \in Nat /\ refCount[current] >= 1
  BY <1>0, <1>1 DEF IInv, CurrentCounted
<1>8. /\ refCount' \in [Ids -> Nat]
      /\ \A t \in Ids : t \notin {s, loser} => refCount'[t] = refCount[t]
      /\ loser # s => refCount'[s] = count /\ refCount'[loser] = refCount[loser] - 1
      /\ loser = s => refCount'[s] = 0
  <2>1. CASE loser = s
    BY <1>0, <1>1, <1>6, <1>c, <2>1
  <2>2. CASE loser # s
    BY <1>0, <1>1, <1>6, <1>7, <1>c, <1>n, <2>2
  <2> QED
    BY <2>1, <2>2
<1>9. disposals[loser] = 0 /\ disposals[s] = 0
  BY <1>1, <1>n DEF IInv, Numbering, DisposedOnceAndLast
<1>10. disposals' = IF refCount'[loser] = 0 THEN [disposals EXCEPT ![loser] = @ + 1] ELSE disposals
  BY DEF CloneSucceeds
<1>11. /\ disposals' \in [Ids -> Nat]
       /\ \A t \in Ids : t # loser => disposals'[t] = disposals[t]
       /\ disposals'[loser] = (IF refCount'[loser] = 0 THEN 1 ELSE 0)
  BY <1>0, <1>1, <1>9, <1>10
<1> QED
  BY <1>1, <1>2, <1>5, <1>8, <1>9, <1>11

\* Ownership follows use: the new snapshot owns what its configs extend, and a snapshot
\* that goes gives up what its own extend.
LEMMA CloneOwners ==
    ASSUME IInv, NEW s, NEW read, NEW cs, NEW p, NEW count, NEW loser,
           Cloning(s, read, cs, p, count, loser),
           CloneSucceeds(s, read, cs, p, count, loser), extends' = extends
    PROVE  /\ owners' \in [Files -> SUBSET Ids] /\ expired' \subseteq Files
           /\ dropped' \subseteq Ids
           /\ OwnersAreUsers' /\ OwnedAreExtended'
<1> DEFINE gives == refCount'[loser] = 0
           Got(f) == \E c \in read : f \in Load(c)
<1>0. /\ owners \in [Files -> SUBSET Ids] /\ expired \subseteq Files /\ dropped \subseteq Ids
      /\ Disk /\ Configs \subseteq Files
  BY DiskFact DEF IInv, Types, TypeOK
<1>c. /\ read \subseteq Configs /\ cs \subseteq Configs /\ s \in Ids /\ s \notin 1..lastId
      /\ MaxId \in Nat /\ lastId \in Ids
  <2>1. lastId \in Ids /\ MaxId \in Nat /\ s = lastId + 1
    BY SnapshotsAssumption DEF IInv, Types, TypeOK, Cloning
  <2>2. s \notin 1..lastId
    BY <2>1 DEF Ids
  <2> QED
    BY <2>1, <2>2 DEF Cloning
<1>k. /\ lastId' = s /\ configs'[s] = cs /\ loser \in Ids
      /\ \A t \in Ids : t # s => configs'[t] = configs[t]
      /\ \A t \in Ids : t # loser => disposals'[t] = disposals[t]
      /\ disposals[s] = 0 /\ (disposals'[loser] = IF gives THEN 1 ELSE 0)
      /\ s > lastId /\ loser \in 0..s /\ disposals[loser] = 0
  <2>1. 0..s \subseteq Ids
    BY <1>c DEF Ids
  <2> QED
    BY <2>1, CloneCounts
<1>n. /\ \A t \in 1..s : t \in Ids /\ (t # s => t \in 1..lastId)
      /\ \A t \in 1..lastId : t \in 1..s /\ t <= s /\ t <= lastId
      /\ s \in 1..s /\ s <= s
  BY <1>c, <1>k DEF Ids, Cloning
<1> HIDE DEF gives
<1>1. \A f \in Files : AddOwners(AfterRead(s, read), s, cs)[f]
          = owners[f] \cup (IF Got(f) \/ f \in Extended(cs) THEN {s} ELSE {})
  BY DEF AddOwners, AfterRead, Loaded
<1>2. owners' = IF gives THEN ReleaseOwner(AddOwners(AfterRead(s, read), s, cs), loser, configs'[loser])
                ELSE AddOwners(AfterRead(s, read), s, cs)
  BY DEF CloneSucceeds, gives
<1>3. \A f \in Files : owners'[f]
          = IF gives /\ f \in Extended(configs'[loser])
            THEN AddOwners(AfterRead(s, read), s, cs)[f] \ {loser}
            ELSE AddOwners(AfterRead(s, read), s, cs)[f]
  BY <1>2 DEF ReleaseOwner, AddOwners
<1>4. \A f \in Files : \A t : t \in owners'[f] <=>
          /\ t \in owners[f] \/ (t = s /\ (Got(f) \/ f \in Extended(cs)))
          /\ ~(gives /\ t = loser /\ f \in Extended(configs'[loser]))
  BY <1>1, <1>3
<1>5. owners' \in [Files -> SUBSET Ids]
  <2>1. AddOwners(AfterRead(s, read), s, cs) \in [Files -> SUBSET Ids]
    BY <1>0, <1>c DEF AddOwners, AfterRead
  <2>2. DOMAIN owners' = Files /\ owners' = [f \in Files |-> owners'[f]]
    BY <1>2, <2>1 DEF ReleaseOwner
  <2>3. \A f \in Files : owners'[f] \subseteq Ids
    BY <1>3, <2>1
  <2> QED
    BY <2>2, <2>3
<1>6. \A t : Extended(configs[t])' = Extended(configs'[t])
  BY SameExtended DEF Extended
<1>7. \A c \in Configs : ExtendedFiles(c) \subseteq Files
  BY <1>0, ExtendedFilesClosed
<1>8. \A ks \in SUBSET Configs : Extended(ks) \subseteq Files
  BY <1>7 DEF Extended
<1>9. dropped' = (IF read \subseteq cs THEN dropped ELSE dropped \cup {s}) /\ abandoned' = abandoned
  BY DEF CloneSucceeds
<1>10. expired' \subseteq Files /\ dropped' \subseteq Ids
  BY <1>0, <1>9, <1>c DEF CloneSucceeds
<1>11. \A t \in Ids : Live(t)' <=> t \in 0..s /\ disposals'[t] = 0
  BY <1>c, <1>k DEF Live, Made, Ids
<1>12. \A t \in Ids : Live(t) <=> t \in 0..lastId /\ disposals[t] = 0
  BY <1>c DEF Live, Made, Ids
<1>13. 1..s \subseteq 0..s /\ 1..lastId \subseteq 0..lastId /\ 1..lastId \subseteq Ids
  BY <1>c DEF Ids
<1>14. ASSUME NEW t \in 1..s, Live(t)', NEW f \in Extended(configs'[t])
       PROVE  t \in owners'[f]
  <2>1. t \in Ids /\ disposals'[t] = 0
    BY <1>11, <1>14, <1>n
  <2>2. ~(gives /\ t = loser)
    BY <1>k, <2>1
  <2>3. CASE t = s
    <3>1. f \in Extended(cs) /\ f \in Files
      BY <1>14, <1>8, <1>c, <1>k, <2>3
    <3> QED
      BY <1>4, <2>2, <2>3, <3>1
  <2>4. CASE t # s
    <3>1. t \in 1..lastId /\ configs'[t] = configs[t] /\ disposals[t] = 0
      BY <1>k, <1>n, <2>1, <2>4
    <3>2. f \in Extended(configs[t]) /\ f \in Files
      <4>1. configs[t] \in SUBSET Configs
        BY <2>1 DEF IInv, Types, TypeOK
      <4> QED
        BY <1>14, <1>8, <3>1, <4>1
    <3>3. Live(t)
      BY <1>12, <1>13, <3>1
    <3>4. t \in owners[f]
      BY <3>1, <3>2, <3>3 DEF IInv, OwnersAreUsers
    <3> QED
      BY <1>4, <2>2, <3>2, <3>4
  <2> QED
    BY <2>3, <2>4
<1>15. ASSUME NEW f \in Files, NEW t \in owners'[f], t \notin dropped', t \notin abandoned
       PROVE  t \in 1..s /\ Live(t)' /\ f \in Extended(configs'[t])
  <2>0. t \notin dropped /\ t \in Ids
    BY <1>5, <1>9, <1>15
  <2>1. CASE t = s
    <3>1. read \subseteq cs
      BY <1>9, <1>15, <2>1
    <3>2. Got(f) => f \in Extended(cs)
      BY <1>0, <1>c, <3>1, LoadExtended DEF Extended
    <3>3. s \notin owners[f]
      BY <1>15, <1>c, <2>0, <2>1 DEF IInv, OwnedAreExtended
    <3>4. f \in Extended(cs)
      BY <1>4, <1>15, <2>1, <3>2, <3>3
    <3>5. ~(gives /\ s = loser)
      BY <1>4, <1>15, <1>k, <2>1, <3>4
    <3>6. disposals'[s] = 0
      BY <1>c, <1>k, <3>5
    <3> QED
      BY <1>11, <1>13, <1>c, <1>k, <1>n, <2>1, <3>4, <3>6
  <2>2. CASE t # s
    <3>1. t \in owners[f]
      BY <1>4, <1>15, <2>2
    <3>2. t \in 1..lastId /\ Live(t) /\ f \in Extended(configs[t])
      BY <1>15, <2>0, <3>1 DEF IInv, OwnedAreExtended
    <3>3. configs'[t] = configs[t]
      BY <1>k, <2>0, <2>2
    <3>4. ~(gives /\ t = loser)
      BY <1>4, <1>15, <3>2, <3>3
    <3>5. disposals'[t] = 0
      BY <1>12, <1>k, <2>0, <3>2, <3>4
    <3> QED
      BY <1>11, <1>13, <1>n, <2>0, <3>2, <3>3, <3>5
  <2> QED
    BY <2>1, <2>2
<1>16. OwnersAreUsers'
  <2>1. \A t \in 1..s : Live(t)' => \A f \in Extended(configs'[t]) : t \in owners'[f]
    BY <1>14
  <2>2. \A t \in abandoned : Live(t)'
    <3>1. \A t \in abandoned : t \in 1..lastId /\ t # current /\ disposals[t] = 0
      BY DEF IInv, Abandoned
    <3>2. loser \in {current, s}
      BY DEF Cloning
    <3>3. \A t \in abandoned : t # loser /\ t \in Ids /\ t \in 0..s
      BY <1>13, <1>c, <1>n, <3>1, <3>2
    <3> QED
      BY <1>11, <1>k, <3>1, <3>3
  <2>3. \A f \in Files : \A t \in owners'[f] : Live(t)' \/ t \in dropped'
    BY <1>15, <2>2
  <2> QED
    BY <1>6, <1>k, <2>1, <2>3 DEF OwnersAreUsers
<1>17. OwnedAreExtended'
  BY <1>6, <1>9, <1>15, <1>k DEF OwnedAreExtended
<1> QED
  BY <1>5, <1>10, <1>16, <1>17

\* Programs are counted for their users: the new snapshot's program once more, that of
\* a snapshot that goes once less.
LEMMA ClonePrograms ==
    ASSUME IInv, NEW s, NEW read, NEW cs, NEW p, NEW count, NEW loser,
           Cloning(s, read, cs, p, count, loser),
           CloneSucceeds(s, read, cs, p, count, loser)
    PROVE  /\ \A t \in 1..s : program'[t] \in 1..t
           /\ programRefs' \in [Ids -> Nat] /\ parsed' \subseteq Ids
           /\ \A q \in Ids :
                  /\ programRefs'[q] = Cardinality({t \in 1..s : Live(t)' /\ program'[t] = q})
                  /\ q \in parsed' <=> programRefs'[q] > 0
<1> DEFINE gives == refCount'[loser] = 0
           goes == gives /\ loser # 0
           Users(q) == {t \in 1..lastId : Live(t) /\ program[t] = q}
           Mid(q) == Users(q) \cup (IF q = p THEN {s} ELSE {})
           Left(q) == {t \in 1..s : Live(t)' /\ program'[t] = q}
<1>0. /\ programRefs \in [Ids -> Nat] /\ parsed \subseteq Ids /\ program \in [Ids -> Ids]
      /\ \A q \in Ids : programRefs[q] = Cardinality(Users(q)) /\ (q \in parsed <=> programRefs[q] > 0)
  BY DEF IInv, Types, TypeOK, ProgramsHeld
<1>n. /\ MaxId \in Nat /\ lastId \in Nat /\ s = lastId + 1 /\ s <= MaxId /\ p \in 1..s
      /\ current \in 0..lastId /\ loser \in {current, s}
  <2>1. MaxId \in Nat /\ lastId \in Ids /\ current \in 0..lastId
    BY SnapshotsAssumption DEF IInv, Types, TypeOK
  <2>2. s = lastId + 1 /\ s \in Ids /\ p \in 1..s /\ loser \in {current, s}
    BY DEF Cloning
  <2> QED
    BY <2>1, <2>2 DEF Ids
<1>i. /\ s \in Ids /\ p \in Ids /\ p # 0 /\ loser \in Ids /\ s \notin 1..lastId
      /\ 1..s \subseteq Ids /\ 1..s = 1..lastId \cup {s} /\ s \in 1..s
      /\ (loser # 0 => loser \in 1..s /\ (loser # s => loser \in 1..lastId)) /\ 0 \in Ids
      /\ loser \in 0..s /\ 1..lastId \subseteq Ids
  BY <1>n DEF Ids
<1>k. /\ lastId' = s /\ program' \in [Ids -> Ids] /\ program'[s] = p
      /\ \A t \in Ids : t # s => program'[t] = program[t]
      /\ \A t \in Ids : t # loser => disposals'[t] = disposals[t]
      /\ disposals[loser] = 0 /\ disposals[s] = 0
      /\ (disposals'[loser] = IF gives THEN 1 ELSE 0)
  BY CloneCounts
<1> HIDE DEF gives
<1>l. /\ \A t \in 1..lastId : Live(t) <=> disposals[t] = 0
      /\ \A t \in 1..s : Live(t)' <=> disposals'[t] = 0
  BY <1>k, <1>n DEF Live, Made
<1>1. \A t \in 1..s : program'[t] \in 1..t
  <2>1. \A t \in 1..lastId : program[t] \in 1..t
    BY DEF IInv, Numbering
  <2> QED
    BY <1>i, <1>k, <1>n, <2>1
<1>2. program'[0] = 0
  <2>1. program[0] = 0 /\ 0 # s
    BY <1>n DEF IInv, Numbering, NoProgram
  <2> QED
    BY <1>i, <1>k, <2>1
<1>3. loser # 0 => program'[loser] # 0 /\ program'[loser] \in Ids
  BY <1>1, <1>i, <1>k, <1>n
<1>4. /\ Cardinality({}) = 0
      /\ \A q \in Ids : IsFiniteSet(Users(q)) /\ IsFiniteSet(Mid(q)) /\ s \notin Users(q)
  <2>1. IsFiniteSet(1..lastId) /\ IsFiniteSet(1..s)
    BY <1>n, FS_Interval
  <2>2. \A q \in Ids : Users(q) \subseteq 1..lastId /\ Mid(q) \subseteq 1..s
    BY <1>i
  <2> HIDE DEF Users, Mid
  <2> QED
    BY <1>i, <2>1, <2>2, FS_Subset, FS_EmptySet
<1>5. \A q \in Ids : Cardinality(Mid(q)) = programRefs[q] + (IF q = p THEN 1 ELSE 0)
  <2> SUFFICES ASSUME NEW q \in Ids
               PROVE  Cardinality(Mid(q)) = programRefs[q] + (IF q = p THEN 1 ELSE 0)
    OBVIOUS
  <2>1. programRefs[q] = Cardinality(Users(q)) /\ IsFiniteSet(Users(q)) /\ s \notin Users(q)
        /\ programRefs[q] \in Nat
    BY <1>0, <1>4
  <2>2. (q = p => Mid(q) = Users(q) \cup {s}) /\ (q # p => Mid(q) = Users(q))
    OBVIOUS
  <2> HIDE DEF Users, Mid
  <2> QED
    BY <2>1, <2>2, FS_AddElement
<1>6. goes => \A q \in Ids : loser \in Mid(q) <=> q = program'[loser]
  BY <1>i, <1>k, <1>l
<1>7. \A q \in Ids : Left(q) = IF gives THEN Mid(q) \ {loser} ELSE Mid(q)
  <2> SUFFICES ASSUME NEW q \in Ids, NEW t \in 1..s
               PROVE  t \in Left(q) <=> t \in Mid(q) /\ ~(gives /\ t = loser)
    BY <1>i
  <2>1. CASE t = s
    BY <1>i, <1>k, <1>l, <2>1
  <2>2. CASE t # s
    BY <1>i, <1>k, <1>l, <2>2
  <2> QED
    BY <2>1, <2>2
<1>8. \A q \in Ids : 0 \notin Mid(q)
  BY <1>n
<1>9. \A q \in Ids : Cardinality(Left(q)) =
          IF goes /\ q = program'[loser] THEN Cardinality(Mid(q)) - 1 ELSE Cardinality(Mid(q))
  <2> SUFFICES ASSUME NEW q \in Ids
               PROVE  Cardinality(Left(q)) = IF goes /\ q = program'[loser]
                                             THEN Cardinality(Mid(q)) - 1 ELSE Cardinality(Mid(q))
    OBVIOUS
  <2>1. goes /\ q = program'[loser] => loser \in Mid(q) /\ Left(q) = Mid(q) \ {loser}
    BY <1>6, <1>7
  <2>2. ~(goes /\ q = program'[loser]) => Left(q) = Mid(q)
    <3>1. gives => loser \notin Mid(q) \/ (goes /\ q = program'[loser])
      BY <1>6, <1>8
    <3> HIDE DEF Left, Mid, goes
    <3> QED
      BY <1>7, <3>1
  <2>3. IsFiniteSet(Mid(q))
    BY <1>4
  <2> HIDE DEF Left, Mid, goes
  <2> QED
    BY <2>1, <2>2, <2>3, FS_RemoveElement
<1>10. programRefs' = IF gives THEN DerefProgram(RefProgram(programRefs, p), program'[loser])
                      ELSE RefProgram(programRefs, p)
  BY DEF CloneSucceeds, gives
<1>11. /\ RefProgram(programRefs, p) \in [Ids -> Nat]
       /\ \A q \in Ids : RefProgram(programRefs, p)[q] = Cardinality(Mid(q))
  <2> HIDE DEF Mid
  <2> QED
    BY <1>0, <1>5, <1>i DEF RefProgram, NoProgram
<1>12. \A q \in Ids : Cardinality(Left(q)) \in Nat
  <2>1. \A q \in Ids : IsFiniteSet(Left(q))
    <3> HIDE DEF Left, Mid
    <3> QED
      BY <1>4, <1>7, FS_Subset
  <2> HIDE DEF Left
  <2> QED
    BY <2>1, FS_CardinalityType
<1>13. /\ programRefs' \in [Ids -> Nat]
       /\ \A q \in Ids : programRefs'[q] = Cardinality(Left(q))
  <2> DEFINE counted == RefProgram(programRefs, p)
             r == program'[loser]
  <2>1. CASE goes
    <3>1. r # 0 /\ r \in Ids
      BY <1>3, <2>1
    <3>2. programRefs' = [counted EXCEPT ![r] = @ - 1]
      BY <1>10, <2>1, <3>1 DEF DerefProgram, NoProgram
    <3>3. \A q \in Ids : Cardinality(Left(q)) =
              IF q = r THEN counted[q] - 1 ELSE counted[q]
      BY <1>9, <1>11, <2>1
    <3>4. counted \in [Ids -> Nat]
      BY <1>11
    <3> HIDE DEF Left, counted, r
    <3> QED
      BY <1>12, <3>1, <3>2, <3>3, <3>4
  <2>2. CASE ~goes
    <3>1. gives => program'[loser] = 0
      BY <1>2, <2>2
    <3>2. programRefs' = counted
      BY <1>10, <3>1 DEF DerefProgram, NoProgram
    <3>3. \A q \in Ids : Cardinality(Left(q)) = Cardinality(Mid(q))
      BY <1>9, <2>2
    <3> HIDE DEF Left, Mid
    <3> QED
      BY <1>11, <3>2, <3>3
  <2> QED
    BY <2>1, <2>2
<1>14. parsed' = {q \in parsed \cup {p} : programRefs'[q] > 0}
  BY DEF CloneSucceeds
<1>15. ASSUME NEW q \in Ids, programRefs'[q] > 0
       PROVE  q \in parsed \cup {p}
  <2>1. q # p => Cardinality(Mid(q)) = programRefs[q]
    <3> HIDE DEF Mid
    <3> QED
      BY <1>0, <1>5
  <2>2. q # p => programRefs[q] > 0
    <3>1. programRefs[q] \in Nat
      BY <1>0
    <3>2. programRefs'[q] \in {Cardinality(Mid(q)), Cardinality(Mid(q)) - 1}
      BY <1>9, <1>13
    <3> HIDE DEF Mid
    <3> QED
      BY <1>15, <2>1, <3>1, <3>2
  <2> QED
    BY <1>0, <2>2
<1> HIDE DEF Left
<1>16. parsed' \subseteq Ids /\ \A q \in Ids : q \in parsed' <=> programRefs'[q] > 0
  BY <1>0, <1>14, <1>15, <1>i
<1> QED
  BY <1>1, <1>13, <1>16 DEF Left

\* As long as no snapshot has read a config it did not keep, the cache has, with any
\* file, what that file extends.
LEMMA CacheClosed ==
    ASSUME IInv, dropped = {}
    PROVE  \A f \in Files : owners[f] # {} => \A g \in extends[f] : owners[g] # {}
<1> SUFFICES ASSUME NEW f \in Files, NEW t \in owners[f], NEW g \in extends[f]
             PROVE  owners[g] # {}
  OBVIOUS
<1>0. abandoned = {}
  BY DEF IInv, StopsExplained
<1>1. t \in 1..lastId /\ Live(t) /\ f \in Extended(configs[t])
  BY <1>0 DEF IInv, OwnedAreExtended
<1>2. Disk /\ Configs \subseteq Files /\ configs[t] \subseteq Configs
  <2>1. t \in Ids
    <3>1. lastId \in Ids /\ MaxId \in Nat
      BY SnapshotsAssumption DEF IInv, Types, TypeOK
    <3> QED
      BY <1>1, <3>1 DEF Ids
  <2> QED
    BY <2>1, DiskFact DEF IInv, Types, TypeOK
<1>3. PICK c \in configs[t] : f \in ExtendedFiles(c)
  BY <1>1 DEF Extended
<1>4. g \in ExtendedFiles(c)
  BY <1>2, <1>3, ExtendedFilesClosed
<1>5. g \in Extended(configs[t])
  BY <1>4 DEF Extended
<1> QED
  BY <1>1, <1>5 DEF IInv, OwnersAreUsers

\* add_owner panics only after a snapshot has read a config it did not keep.
LEMMA PanicExplained ==
    ASSUME IInv, NEW s, NEW read, NEW cs, NEW p, NEW count, NEW loser, NEW caught,
           Cloning(s, read, cs, p, count, loser), ClonePanics(s, read, cs, p, caught)
    PROVE  dropped' # {}
<1>0. Disk /\ Configs \subseteq Files /\ read \subseteq Configs /\ cs \subseteq Configs
  BY DiskFact DEF IInv, Types, Cloning
<1>1. PICK f \in Extended(cs) : AfterRead(s, read)[f] = {}
  BY DEF ClonePanics
<1>2. dropped' = (IF read \subseteq cs THEN dropped ELSE dropped \cup {s})
  BY DEF ClonePanics
<1> SUFFICES ASSUME dropped' = {} PROVE FALSE
  OBVIOUS
<1>3. dropped = {}
  BY <1>2
<1>4. PICK c \in cs : f \in ExtendedFiles(c)
  BY <1>1 DEF Extended
<1>5. c \in Files /\ f \in Files
  BY <1>0, <1>4, ExtendedFilesClosed
<1>6. owners[f] = {} /\ \A d \in read : f \notin Load(d)
  BY <1>1, <1>5 DEF AfterRead, Loaded
<1>7. f \in Load(c) \/ owners[f] # {}
  BY <1>0, <1>3, <1>4, <1>5, CacheClosed, LoadOrCached
<1>8. c \notin read
  BY <1>6, <1>7
<1>9. PICK t \in 1..lastId : Live(t) /\ c \in configs[t]
  BY <1>4, <1>8 DEF Cloning
<1>10. f \in Extended(configs[t])
  BY <1>4, <1>9 DEF Extended
<1> QED
  BY <1>6, <1>9, <1>10 DEF IInv, OwnersAreUsers

\* Reading waits for itself only where extended files form a circle.
LEMMA DeadlockExplained ==
    ASSUME IInv, NEW read \in SUBSET Configs, CloneDeadlocks(read), extends' = extends
    PROVE  (\E d \in Configs : \E g \in ExtendedFiles(d) \ {d} :
                g \in LoadedFrom(extends[g], Files \ {d}))'
<1>0. Disk /\ Configs \subseteq Files
  BY DiskFact DEF IInv, Types
<1>1. PICK c \in read : SelfDeadlock(c)
  BY DEF CloneDeadlocks
<1> DEFINE parse == {f \in Files \ {c} : MustParse(f)}
<1>2. PICK f \in Load(c) \cap parse : f \in LoadedFrom(extends[f], parse)
  BY <1>1 DEF SelfDeadlock
<1>3. c \in Configs /\ c \in Files /\ f \in ExtendedFiles(c) \ {c} /\ f \in Files
  BY <1>0, <1>2, LoadExtended
<1>4. parse \subseteq Files \ {c} /\ extends[f] \in SUBSET Files
  BY <1>0, <1>3 DEF Disk
<1> HIDE DEF parse
<1>5. f \in LoadedFrom(extends[f], Files \ {c})
  BY <1>0, <1>2, <1>4, LoadedFromGrows
<1>6. \E d \in Configs : \E g \in ExtendedFiles(d) \ {d} : g \in LoadedFrom(extends[g], Files \ {d})
  BY <1>3, <1>5
<1> QED
  BY <1>6, SameExtended

\* A clone that waits for itself leaves the snapshots and what they share alone.
LEMMA CloneDeadlocked ==
    ASSUME IInv, NEW read \in SUBSET Configs, CloneDeadlocks(read), extends' = extends,
           UNCHANGED <<handles, handed>>, ApiSide'
    PROVE  IInv'
<1>1. /\ UNCHANGED <<lastId, current, refCount, configs, program, disposals, programRefs,
                     parsed, owners, expired, dropped, abandoned>>
      /\ stopped' = "deadlock"
  BY DEF CloneDeadlocks, shared
<1>2. Types'
  BY <1>1 DEF IInv, Types, TypeOK, ApiSide
<1>3. Numbering' /\ Abandoned' /\ CurrentCounted' /\ HandlesCounted'
  BY <1>1 DEF IInv, Numbering, Abandoned, CurrentCounted, HandlesCounted
<1>4. DisposedOnceAndLast' /\ ReplacedIsDisposed'
  BY <1>1 DEF IInv, DisposedOnceAndLast, ReplacedIsDisposed
<1>5. ProgramsHeld'
  BY <1>1, <1>2 DEF IInv, Types, ProgramsHeld, Live, Made
<1>6. \A t : (Live(t)' <=> Live(t)) /\ Extended(configs[t])' = Extended(configs[t])
  BY <1>1, SameExtended DEF Live, Made, Extended
<1>7. OwnersAreUsers' /\ OwnedAreExtended'
  BY <1>1, <1>6 DEF IInv, OwnersAreUsers, OwnedAreExtended
<1>8. StopsExplained'
  BY <1>1, DeadlockExplained DEF IInv, StopsExplained
<1> QED
  BY <1>2, <1>3, <1>4, <1>5, <1>7, <1>8 DEF IInv

\* A clone that panics leaves a snapshot behind that nobody has: it counts for its
\* program and owns some files, for good.
LEMMA ClonePanicked ==
    ASSUME IInv, stopped = "no", NEW s, NEW read, NEW cs, NEW p, NEW count, NEW loser, NEW caught,
           Cloning(s, read, cs, p, count, loser), ClonePanics(s, read, cs, p, caught),
           extends' = extends, UNCHANGED <<handles, handed>>, ApiSide'
    PROVE  IInv'
<1>n. /\ MaxId \in Nat /\ lastId \in Nat /\ s = lastId + 1 /\ s <= MaxId /\ p \in 1..s
      /\ current \in 0..lastId
  <2>1. MaxId \in Nat /\ lastId \in Ids /\ current \in 0..lastId
    BY SnapshotsAssumption DEF IInv, Types, TypeOK
  <2>2. s = lastId + 1 /\ s \in Ids /\ p \in 1..s
    BY DEF Cloning
  <2> QED
    BY <2>1, <2>2 DEF Ids
<1>i. /\ s \in Ids /\ p \in Ids /\ p # 0 /\ s \notin 1..lastId /\ s # current /\ current \in Ids
      /\ 1..s = 1..lastId \cup {s} /\ 1..s \subseteq Ids /\ s \in 1..s /\ s > lastId
      /\ current \in 0..s /\ 1..lastId \subseteq Ids /\ 0 \in Ids /\ 0 # s
  BY <1>n DEF Ids
<1>1. /\ lastId' = s /\ refCount' = [refCount EXCEPT ![s] = 1]
      /\ program' = [program EXCEPT ![s] = p]
      /\ programRefs' = RefProgram(programRefs, p) /\ parsed' = parsed \cup {p}
      /\ expired' \subseteq expired /\ dropped' \in {dropped, dropped \cup {s}}
      /\ abandoned' = abandoned \cup {s} /\ stopped' \in {"no", "add_owner"}
      /\ UNCHANGED <<current, configs, disposals>>
  BY DEF ClonePanics
<1>2. PICK done : owners' = [f \in Files |-> IF f \in done THEN AfterRead(s, read)[f] \cup {s}
                                             ELSE AfterRead(s, read)[f]]
  BY DEF ClonePanics
<1>3. /\ refCount \in [Ids -> Nat] /\ disposals \in [Ids -> Nat] /\ owners \in [Files -> SUBSET Ids]
      /\ program \in [Ids -> Ids] /\ programRefs \in [Ids -> Nat] /\ parsed \subseteq Ids
      /\ configs \in [Ids -> SUBSET Configs]
  BY DEF IInv, Types, TypeOK
<1>4. /\ \A f \in Files : owners[f] \subseteq owners'[f] /\ owners'[f] \subseteq owners[f] \cup {s}
      /\ owners' \in [Files -> SUBSET Ids]
  <2>1. \A f \in Files : AfterRead(s, read)[f] = owners[f] \/ AfterRead(s, read)[f] = owners[f] \cup {s}
    BY DEF AfterRead
  <2>2. \A f \in Files : owners'[f] = AfterRead(s, read)[f] \/ owners'[f] = AfterRead(s, read)[f] \cup {s}
    BY <1>2
  <2>3. \A f \in Files : owners[f] \subseteq owners'[f] /\ owners'[f] \subseteq owners[f] \cup {s}
    BY <2>1, <2>2
  <2>4. DOMAIN owners' = Files /\ owners' = [f \in Files |-> owners'[f]]
    BY <1>2
  <2> QED
    BY <1>3, <1>i, <2>3, <2>4
<1>5. /\ refCount' \in [Ids -> Nat] /\ \A t \in Ids : t # s => refCount'[t] = refCount[t]
      /\ program' \in [Ids -> Ids] /\ program'[s] = p
      /\ \A t \in Ids : t # s => program'[t] = program[t]
  BY <1>1, <1>3, <1>i
<1>6. disposals[s] = 0 /\ configs[s] = {}
  BY <1>i DEF IInv, Numbering
<1>7. /\ programRefs' \in [Ids -> Nat] /\ parsed' \subseteq Ids
      /\ \A q \in Ids : programRefs'[q] = programRefs[q] + (IF q = p THEN 1 ELSE 0)
  BY <1>1, <1>3, <1>i DEF RefProgram, NoProgram
<1>8. Types'
  <2>1. expired' \subseteq Files /\ dropped' \subseteq Ids /\ abandoned' \subseteq Ids
    BY <1>1, <1>i DEF IInv, Types, TypeOK
  <2> QED
    BY <1>1, <1>4, <1>5, <1>7, <1>i, <2>1 DEF IInv, Types, TypeOK, ApiSide
<1>9. Numbering'
  <2>1. \A t \in 1..s : program'[t] \in 1..t
    BY <1>5, <1>i, <1>n DEF IInv, Numbering
  <2>2. \A t \in Ids : t > s => t > lastId
    BY <1>n DEF Ids
  <2> QED
    BY <1>1, <1>5, <1>i, <2>1, <2>2 DEF IInv, Numbering
<1>10. Abandoned'
  BY <1>1, <1>6, <1>i DEF IInv, Abandoned
<1>11. CurrentCounted' /\ HandlesCounted' /\ DisposedOnceAndLast' /\ ReplacedIsDisposed'
  <2>1. refCount'[current'] = refCount[current]
    BY <1>1, <1>5, <1>i
  <2>2. CurrentCounted'
    BY <1>1, <2>1 DEF IInv, CurrentCounted
  <2>3. HandlesCounted'
    BY <1>1, <1>i, <2>1 DEF IInv, HandlesCounted
  <2>4. DisposedOnceAndLast' /\ ReplacedIsDisposed'
    BY <1>1, <1>i DEF IInv, DisposedOnceAndLast, ReplacedIsDisposed
  <2> QED
    BY <2>2, <2>3, <2>4
<1>12. /\ \A t \in 1..lastId : Live(t)' <=> Live(t)
       /\ Live(s)'
  BY <1>1, <1>6, <1>n DEF Live, Made
<1>13. ProgramsHeld'
  <2> DEFINE Users(q) == {t \in 1..lastId : Live(t) /\ program[t] = q}
             Left(q) == {t \in 1..s : Live(t)' /\ program'[t] = q}
  <2> SUFFICES ASSUME NEW q \in Ids
               PROVE  programRefs'[q] = Cardinality(Left(q)) /\ (q \in parsed' <=> programRefs'[q] > 0)
    BY <1>1, <1>8 DEF Types, ProgramsHeld
  <2>1. /\ programRefs[q] = Cardinality(Users(q)) /\ (q \in parsed <=> programRefs[q] > 0)
        /\ programRefs[q] \in Nat
    BY <1>3 DEF IInv, ProgramsHeld
  <2>2. Left(q) = IF q = p THEN Users(q) \cup {s} ELSE Users(q)
    <3>1. ASSUME NEW t \in 1..lastId PROVE t \in Left(q) <=> t \in Users(q)
      BY <1>5, <1>12, <1>i
    <3>2. s \in Left(q) <=> q = p
      BY <1>5, <1>12, <1>i
    <3> QED
      BY <1>i, <3>1, <3>2
  <2>3. IsFiniteSet(Users(q)) /\ s \notin Users(q)
    <3>1. IsFiniteSet(1..lastId)
      BY <1>n, FS_Interval
    <3>2. Users(q) \subseteq 1..lastId
      OBVIOUS
    <3> HIDE DEF Users
    <3> QED
      BY <1>i, <3>1, <3>2, FS_Subset
  <2> HIDE DEF Users, Left
  <2>4. Cardinality(Left(q)) = Cardinality(Users(q)) + (IF q = p THEN 1 ELSE 0)
    <3>1. CASE q = p
      <4>1. Cardinality(Users(q) \cup {s}) = Cardinality(Users(q)) + 1
        BY <2>3, FS_AddElement
      <4> QED
        BY <2>2, <3>1, <4>1
    <3>2. CASE q # p
      BY <2>1, <2>2, <3>2
    <3> QED
      BY <3>1, <3>2
  <2> QED
    BY <1>1, <1>7, <2>1, <2>4
<1>14. /\ \A t : Extended(configs[t])' = Extended(configs[t])
       /\ Extended(configs[s]) = {}
  BY <1>1, <1>6, SameExtended DEF Extended
<1>15. OwnersAreUsers'
  <2>1. ASSUME NEW t \in 1..s, Live(t)', NEW f \in Extended(configs[t])
        PROVE  t \in owners'[f]
    <3>1. t \in 1..lastId /\ Live(t)
      BY <1>12, <1>14, <1>i, <2>1
    <3>2. t \in owners[f]
      BY <2>1, <3>1 DEF IInv, OwnersAreUsers
    <3>3. f \in Files
      <4>1. t \in Ids /\ configs[t] \subseteq Configs
        BY <1>3, <1>i, <3>1
      <4>2. \A c \in Configs : ExtendedFiles(c) \subseteq Files
        BY DiskFact, ExtendedFilesClosed DEF IInv, Types
      <4> QED
        BY <2>1, <4>1, <4>2 DEF Extended
    <3> QED
      BY <1>4, <3>2, <3>3
  <2>2. ASSUME NEW f \in Files, NEW t \in owners'[f]
        PROVE  Live(t)' \/ t \in dropped'
    <3>1. CASE t = s
      BY <1>12, <3>1
    <3>2. CASE t # s
      <4>1. t \in owners[f]
        BY <1>4, <2>2, <3>2
      <4>2. Live(t) => Live(t)'
        BY <1>1, <1>n, <1>3, <1>4, <2>2 DEF Live, Made, Ids
      <4> QED
        BY <1>1, <4>1, <4>2 DEF IInv, OwnersAreUsers
    <3> QED
      BY <3>1, <3>2
  <2> QED
    BY <1>1, <1>14, <2>1, <2>2 DEF OwnersAreUsers
<1>16. OwnedAreExtended'
  <2> SUFFICES ASSUME NEW f \in Files, NEW t \in owners'[f], t \notin dropped', t \notin abandoned'
               PROVE  t \in 1..s /\ Live(t)' /\ f \in Extended(configs[t])
    BY <1>1, <1>14 DEF OwnedAreExtended
  <2>1. t \in owners[f] /\ t \notin dropped /\ t \notin abandoned
    BY <1>1, <1>4
  <2> QED
    BY <1>12, <1>i, <2>1 DEF IInv, OwnedAreExtended
<1>17. StopsExplained'
  BY <1>1, PanicExplained DEF StopsExplained
<1> QED
  BY <1>8, <1>9, <1>10, <1>11, <1>13, <1>15, <1>16, <1>17 DEF IInv

\* A clone that is completed preserves the invariant.
LEMMA CloneCompleted ==
    ASSUME IInv, stopped = "no", NEW s, NEW read, NEW cs, NEW p, NEW count, NEW loser,
           Cloning(s, read, cs, p, count, loser),
           CloneSucceeds(s, read, cs, p, count, loser), extends' = extends,
           handles' = handles, handed' = IF count = 2 THEN handed \cup {s} ELSE handed,
           ApiSide'
    PROVE  IInv'
<1>0. stopped' = "no" /\ abandoned' = abandoned
  BY DEF CloneSucceeds
<1>n. /\ MaxId \in Nat /\ lastId \in Nat /\ s = lastId + 1 /\ s <= MaxId
      /\ current \in 0..lastId /\ loser \in {current, s} /\ count \in {1, 2}
  <2>1. MaxId \in Nat /\ lastId \in Ids /\ current \in 0..lastId
    BY SnapshotsAssumption DEF IInv, Types, TypeOK
  <2>2. s = lastId + 1 /\ s \in Ids /\ loser \in {current, s} /\ count \in 1..2
    BY DEF Cloning
  <2> QED
    BY <2>1, <2>2 DEF Ids
<1>i. /\ s \in Ids /\ current \in Ids /\ current # s /\ loser \in Ids /\ s \in 1..s
      /\ \A t \in 1..lastId : t \in Ids /\ t # s /\ t \in 1..s
      /\ \A t \in 1..s : t \in Ids /\ (t # s => t \in 1..lastId)
  BY <1>n DEF Ids
<1>k. /\ lastId' = s /\ s > lastId /\ current' \in 0..s
      /\ current' = (IF loser = s THEN current ELSE s)
      /\ configs' \in [Ids -> SUBSET Configs] /\ program' \in [Ids -> Ids]
      /\ \A t \in Ids : t # s => configs'[t] = configs[t] /\ program'[t] = program[t]
      /\ refCount' \in [Ids -> Nat] /\ disposals' \in [Ids -> Nat]
      /\ \A t \in Ids : t \notin {s, loser} => refCount'[t] = refCount[t]
      /\ loser # s => refCount'[s] = count /\ refCount'[loser] = refCount[loser] - 1
      /\ loser = s => refCount'[s] = 0
      /\ \A t \in Ids : t # loser => disposals'[t] = disposals[t]
      /\ disposals[loser] = 0 /\ disposals[s] = 0
      /\ disposals'[loser] = (IF refCount'[loser] = 0 THEN 1 ELSE 0)
  BY CloneCounts
<1>p. /\ \A t \in 1..s : program'[t] \in 1..t
      /\ programRefs' \in [Ids -> Nat] /\ parsed' \subseteq Ids
      /\ \A q \in Ids :
             /\ programRefs'[q] = Cardinality({t \in 1..s : Live(t)' /\ program'[t] = q})
             /\ q \in parsed' <=> programRefs'[q] > 0
  BY ClonePrograms
<1>o. /\ owners' \in [Files -> SUBSET Ids] /\ expired' \subseteq Files /\ dropped' \subseteq Ids
      /\ OwnersAreUsers' /\ OwnedAreExtended'
  BY CloneOwners
<1>h. /\ handles \in [Handles -> Handle \cup {NoHandle}] /\ handed \subseteq Ids
      /\ refCount \in [Ids -> Nat]
  BY DEF IInv, Types, TypeOK
<1>1. handed \subseteq handed' /\ handed' \subseteq Ids /\ (count > 1 => s \in handed')
  BY <1>h, <1>i, <1>n
<1>2. Types'
  <2>1. \A h \in Handles : handles'[h] # NoHandle => handles'[h].of \in Ids /\ handles'[h].count \in Nat
    BY <1>h DEF Handle
  <2>2. extends' \in Layouts /\ abandoned' \subseteq Ids
    BY <1>0 DEF IInv, Types, TypeOK
  <2> QED
    BY <1>0, <1>1, <1>h, <1>i, <1>k, <1>o, <1>p, <2>1, <2>2 DEF Types, TypeOK, ApiSide
<1>3. Numbering'
  <2>1. configs'[0] = {} /\ program'[0] = NoProgram
    <3>1. 0 \in Ids /\ 0 # s
      BY <1>n DEF Ids
    <3> QED
      BY <1>k, <3>1 DEF IInv, Numbering
  <2>2. ASSUME NEW t \in Ids, t > s PROVE disposals'[t] = 0 /\ configs'[t] = {}
    <3>1. t # loser /\ t > lastId /\ t # s
      BY <1>n, <2>2 DEF Ids
    <3> QED
      BY <1>k, <3>1 DEF IInv, Numbering
  <2> QED
    BY <1>k, <1>p, <2>1, <2>2 DEF Numbering
<1>4. CurrentCounted'
  <2>1. CASE loser = s
    BY <1>1, <1>i, <1>k, <2>1 DEF IInv, CurrentCounted
  <2>2. CASE loser # s
    BY <1>1, <1>k, <1>n, <2>2 DEF CurrentCounted
  <2> QED
    BY <2>1, <2>2
<1>a. Abandoned'
  <2> SUFFICES ASSUME NEW t \in abandoned
               PROVE  t \in 1..s /\ t # current' /\ disposals'[t] = 0
    BY <1>0, <1>k DEF Abandoned
  <2>1. t \in 1..lastId /\ t # current /\ disposals[t] = 0
    BY DEF IInv, Abandoned
  <2> QED
    BY <1>i, <1>k, <1>n, <2>1
<1>5. HandlesCounted'
  <2> SUFFICES ASSUME NEW h \in Handles, handles[h] # NoHandle
               PROVE  /\ handles[h].of \in 1..s /\ handles[h].count >= 2
                      /\ handles[h].of = current' => refCount'[current'] >= 2
    BY <1>k DEF HandlesCounted
  <2>1. /\ handles[h].of \in 1..lastId /\ handles[h].count >= 2
        /\ handles[h].of = current => refCount[current] >= 2
    BY DEF IInv, HandlesCounted
  <2>2. handles[h].of = current' => current' = current /\ loser = s
    BY <1>i, <1>k, <2>1
  <2> QED
    BY <1>i, <1>k, <2>1, <2>2
<1>6. DisposedOnceAndLast'
  <2>1. \A t \in Ids : disposals'[t] <= 1
    <3>1. \A t \in Ids : disposals[t] <= 1
      BY DEF IInv, DisposedOnceAndLast
    <3> QED
      BY <1>k, <3>1
  <2>2. disposals'[current'] = 0
    BY <1>i, <1>k DEF IInv, DisposedOnceAndLast
  <2>3. ASSUME NEW h \in Handles, handles[h] # NoHandle
        PROVE  disposals'[handles[h].of] = 0
    <3>1. /\ handles[h].of \in 1..lastId /\ disposals[handles[h].of] = 0
          /\ handles[h].of = current => refCount[current] >= 2
      BY <2>3 DEF IInv, HandlesCounted, DisposedOnceAndLast
    <3>2. CASE handles[h].of = loser
      <4>1. loser = current /\ loser # s
        BY <1>i, <1>n, <3>1, <3>2
      <4>2. refCount'[loser] # 0
        BY <1>h, <1>i, <1>k, <3>1, <3>2, <4>1
      <4> QED
        BY <1>k, <3>2, <4>2
    <3>3. CASE handles[h].of # loser
      BY <1>i, <1>k, <3>1, <3>3
    <3> QED
      BY <3>2, <3>3
  <2> QED
    BY <2>1, <2>2, <2>3 DEF DisposedOnceAndLast
<1>7. ReplacedIsDisposed'
  <2> SUFFICES ASSUME NEW t \in 1..s
               PROVE  t = current' \/ t \in handed' \cup abandoned \/ disposals'[t] = 1
    BY <1>0, <1>k DEF ReplacedIsDisposed
  <2>1. CASE t = s
    BY <1>k, <2>1
  <2>2. CASE t # s /\ t = current
    <3>1. refCount[current] > 1 \/ refCount[current] = 1
      BY <1>h, <1>i DEF IInv, CurrentCounted
    <3>2. CASE refCount[current] > 1
      BY <1>1, <2>2, <3>2 DEF IInv, CurrentCounted
    <3>3. CASE refCount[current] = 1
      BY <1>k, <1>n, <2>2, <3>3
    <3> QED
      BY <3>1, <3>2, <3>3
  <2>3. CASE t # s /\ t # current
    <3>1. t \in handed \cup abandoned \/ disposals[t] = 1
      BY <1>i, <2>3 DEF IInv, ReplacedIsDisposed
    <3>2. t # loser /\ t \in Ids
      BY <1>i, <1>n, <2>3
    <3> QED
      BY <1>1, <1>k, <3>1, <3>2
  <2> QED
    BY <2>1, <2>2, <2>3
<1>8. ProgramsHeld'
  BY <1>2, <1>k, <1>p DEF Types, ProgramsHeld
<1>9. StopsExplained'
  <2>1. dropped \subseteq dropped'
    BY DEF CloneSucceeds
  <2> QED
    BY <1>0, <2>1 DEF IInv, StopsExplained
<1> QED
  BY <1>2, <1>3, <1>4, <1>5, <1>6, <1>7, <1>8, <1>9, <1>a, <1>o DEF IInv

-----------------------------------------------------------------------------
(* The operations.                                                         *)

\* A snapshot with an id that is the session's or a handle's can be cloned.
LEMMA BaseFacts ==
    ASSUME IInv, lastId < MaxId
    PROVE  /\ lastId + 1 \in Ids /\ lastId + 1 \in 1..(lastId + 1)
           /\ configs[current] \subseteq Configs
           /\ \A c \in configs[current] : \E t \in 1..lastId : Live(t) /\ c \in configs[t]
           /\ current # 0 => program[current] \in 1..(lastId + 1)
           /\ \A h \in Handles : handles[h] # NoHandle =>
                  /\ configs[handles[h].of] \subseteq Configs
                  /\ handles[h].of \in 1..lastId /\ Live(handles[h].of)
                  /\ program[handles[h].of] \in 1..(lastId + 1)
<1>1. MaxId \in Nat /\ lastId \in Nat /\ current \in 0..lastId
  <2>1. MaxId \in Nat /\ lastId \in Ids /\ current \in 0..lastId
    BY SnapshotsAssumption DEF IInv, Types, TypeOK
  <2> QED
    BY <2>1 DEF Ids
<1>2. /\ lastId + 1 \in Ids /\ lastId + 1 \in 1..(lastId + 1) /\ current \in Ids
      /\ \A t \in 1..lastId : t \in Ids /\ 1..t \subseteq 1..(lastId + 1) /\ t <= lastId
      /\ current # 0 => current \in 1..lastId
  BY <1>1 DEF Ids
<1>3. /\ \A t \in Ids : configs[t] \subseteq Configs
      /\ configs[0] = {} /\ \A t \in 1..lastId : program[t] \in 1..t
  BY DEF IInv, Types, TypeOK, Numbering
<1>4. \A t \in 1..lastId : disposals[t] = 0 => Live(t)
  BY <1>2 DEF Live, Made
<1>5. /\ disposals[current] = 0
      /\ \A h \in Handles : handles[h] # NoHandle =>
             handles[h].of \in 1..lastId /\ disposals[handles[h].of] = 0
  BY DEF IInv, DisposedOnceAndLast, HandlesCounted
<1> QED
  BY <1>2, <1>3, <1>4, <1>5

\* The session's snapshot and those of handles.
Held == {current} \cup {handles[h].of : h \in {g \in Handles : handles[g] # NoHandle}}

\* Whatever becomes of a clone of such a snapshot, the invariant is preserved.
LEMMA ClonePreserves ==
    ASSUME IInv, stopped = "no", lastId < MaxId, NEW base, NEW count \in {1, 2}, NEW losers, NEW caught,
           base \in Held,
           losers \subseteq {current, lastId + 1}, count = 2 => losers = {current},
           CloneOf(base, count, losers, caught), handles' = handles,
           handed' = IF count = 2 /\ current' # current THEN handed \cup {lastId + 1} ELSE handed,
           ApiSide'
    PROVE  IInv'
<1> DEFINE s == lastId + 1
<1>1. PICK read \in SUBSET Configs, loser \in losers :
          \E cs \in SUBSET (configs[base] \cup read),
             p \in {lastId + 1} \cup (IF base = 0 THEN {} ELSE {program[base]}) :
                Clone(lastId + 1, read, cs, p, count, loser, caught)
  BY DEF CloneOf
<1>2. PICK cs \in SUBSET (configs[base] \cup read),
           p \in {lastId + 1} \cup (IF base = 0 THEN {} ELSE {program[base]}) :
               Clone(lastId + 1, read, cs, p, count, loser, caught)
  BY <1>1
<1>3. /\ configs[base] \subseteq Configs
      /\ \A c \in configs[base] : \E t \in 1..lastId : Live(t) /\ c \in configs[t]
      /\ base # 0 => program[base] \in 1..s
  BY BaseFacts DEF Held
<1>4. s \in Ids /\ s \in 1..s
  BY BaseFacts
<1>5. Cloning(s, read, cs, p, count, loser)
  BY <1>1, <1>2, <1>3, <1>4 DEF Cloning
<1>6. /\ extends' = extends
      /\ \/ CloneDeadlocks(read) \/ ClonePanics(s, read, cs, p, caught)
         \/ CloneSucceeds(s, read, cs, p, count, loser)
  BY <1>2 DEF Clone
<1>7. s # current
  <2>1. MaxId \in Nat /\ lastId \in Ids /\ current \in 0..lastId
    BY SnapshotsAssumption DEF IInv, Types, TypeOK
  <2> QED
    BY <2>1 DEF Ids
<1>8. CASE CloneDeadlocks(read)
  <2>1. UNCHANGED <<handles, handed>>
    BY <1>8 DEF CloneDeadlocks
  <2> QED
    BY <1>6, <1>8, <2>1, CloneDeadlocked
<1>9. CASE ClonePanics(s, read, cs, p, caught)
  <2>1. UNCHANGED <<handles, handed>>
    BY <1>9 DEF ClonePanics
  <2> HIDE DEF s
  <2> QED
    BY <1>5, <1>6, <1>9, <2>1, ClonePanicked
<1>10. CASE CloneSucceeds(s, read, cs, p, count, loser)
  <2>1. count = 2 => loser = current
    BY <1>1
  <2>2. current' = IF loser = s THEN current ELSE s
    BY <1>10 DEF CloneSucceeds
  <2>3. handed' = IF count = 2 THEN handed \cup {s} ELSE handed
    BY <1>7, <2>1, <2>2
  <2> HIDE DEF s
  <2> QED
    BY <1>5, <1>6, <1>10, <2>3, CloneCompleted
<1> QED
  BY <1>6, <1>8, <1>9, <1>10

\* A clone is adopted or it is not.
LEMMA CloneCurrent ==
    ASSUME IInv, NEW base, NEW count, NEW losers, NEW caught, CloneOf(base, count, losers, caught)
    PROVE  current' \in {current, lastId + 1} /\ lastId + 1 # 0
<1>1. lastId + 1 # 0
  <2>1. MaxId \in Nat /\ lastId \in Ids
    BY SnapshotsAssumption DEF IInv, Types, TypeOK
  <2> QED
    BY <2>1 DEF Ids
<1>2. current' \in {current, lastId + 1}
  BY DEF CloneOf, Clone, CloneDeadlocks, ClonePanics, CloneSucceeds
<1> QED
  BY <1>1, <1>2

\* The API's projects after an adoption.
LEMMA ProjectsKept ==
    ASSUME ApiSide, apiProjects' \in ProjectsAfter
    PROVE  apiProjects' \in {"none", "open", "gone"} /\ (apiProjects = "none" <=> apiProjects' = "none")
  BY DEF ApiSide, ProjectsAfter

\* update_snapshot_inner: the clone is adopted, its predecessor dereferenced.
LEMMA UpdateSnapshotPreserves ==
    ASSUME IInv, UpdateSnapshot PROVE IInv'
<1>1. /\ stopped = "no" /\ task = "idle" /\ asking = NoHandle /\ lastId < MaxId
      /\ CloneOf(current, 1, {current}, FALSE) /\ apiProjects' \in ProjectsAfter
      /\ task' = (IF current' = current THEN "idle" ELSE "watches")
      /\ UNCHANGED <<handles, watched, asking, handed>>
  BY DEF UpdateSnapshot, Running
<1>2. ApiSide
  BY DEF IInv
<1>3. ApiSide'
  BY <1>1, <1>2, CloneCurrent, ProjectsKept DEF ApiSide
<1>4. handed' = IF 1 = 2 /\ current' # current THEN handed \cup {lastId + 1} ELSE handed
  BY <1>1
<1> DEFINE losers == {current}
<1>5. CloneOf(current, 1, losers, FALSE) /\ losers \subseteq {current, lastId + 1}
  BY <1>1
<1> HIDE DEF losers
<1> QED
  BY <1>1, <1>3, <1>4, <1>5, ClonePreserves DEF Held

\* The update of an API request: the same, counted for the caller.
LEMMA ApiUpdatePreserves ==
    ASSUME IInv, NEW h \in Handles, NEW projects \in {"none", "open", "gone"},
           NEW fails \in BOOLEAN, NEW lost \in BOOLEAN, ApiUpdate(h, projects, fails, lost)
    PROVE  IInv'
<1>1. /\ stopped = "no" /\ task = "idle" /\ asking = NoHandle /\ lastId < MaxId
      /\ CloneOf(current, 2, {current}, TRUE) /\ handles' = handles
      /\ fails => projects = "gone"
      /\ projects = "none" => apiProjects = "none"
  BY DEF ApiUpdate, Running
<1>2. ApiSide
  BY DEF IInv
<1>3. CASE current' = current
  <2>1. UNCHANGED <<handed, task, watched, apiProjects, asking>>
    BY <1>3 DEF ApiUpdate, apiVars
  <2>2. ApiSide'
    BY <1>2, <1>3, <2>1 DEF ApiSide
  <2> QED
    BY <1>1, <1>3, <2>1, <2>2, ClonePreserves DEF Held
<1>4. CASE current' # current
  <2>1. /\ handed' = handed \cup {lastId + 1} /\ task' = "watches"
        /\ watched' = (watched /\ ~fails) /\ apiProjects' = projects
        /\ asking' = [at |-> h, lost |-> lost]
    BY <1>4 DEF ApiUpdate
  <2>2. current' # 0
    BY <1>1, <1>4, CloneCurrent
  <2>3. watched' \in BOOLEAN /\ (~watched' => projects # "none")
    BY <1>1, <1>2, <2>1 DEF ApiSide
  <2>4. ApiSide'
    BY <2>1, <2>2, <2>3 DEF ApiSide
  <2> QED
    BY <1>1, <1>4, <2>1, <2>4, ClonePreserves DEF Held
<1> QED
  BY <1>3, <1>4

\* The clone that warms the auto-import registry.
LEMMA WarmAutoImportsPreserves ==
    ASSUME IInv, WarmAutoImports PROVE IInv'
<1>1. /\ stopped = "no" /\ task = "warm" /\ lastId < MaxId
      /\ CloneOf(current, 1, {current, lastId + 1}, asking # NoHandle)
      /\ apiProjects' \in ProjectsAfter /\ task' = "idle" /\ asking' \in {asking, NoHandle}
      /\ UNCHANGED <<handles, watched, handed>>
  BY DEF WarmAutoImports
<1>2. ApiSide
  BY DEF IInv
<1>3. ApiSide'
  BY <1>1, <1>2, CloneCurrent, ProjectsKept DEF ApiSide
<1>4. handed' = IF 1 = 2 /\ current' # current THEN handed \cup {lastId + 1} ELSE handed
  BY <1>1
<1> DEFINE losers == {current, lastId + 1}
           caught == asking # NoHandle
<1>5. CloneOf(current, 1, losers, caught) /\ losers \subseteq {current, lastId + 1}
  BY <1>1
<1> HIDE DEF losers, caught
<1> QED
  BY <1>1, <1>3, <1>4, <1>5, ClonePreserves DEF Held

\* The clone an auto-import request makes of its handle's snapshot.
LEMMA AutoImportsPreserves ==
    ASSUME IInv, NEW h \in Handles, AutoImports(h) PROVE IInv'
<1> DEFINE base == handles[h].of
           losers == IF base = current THEN {current, lastId + 1} ELSE {lastId + 1}
<1>1. /\ stopped = "no" /\ task = "idle" /\ asking = NoHandle /\ lastId < MaxId
      /\ handles[h] # NoHandle /\ CloneOf(base, 1, losers, FALSE)
      /\ apiProjects' \in ProjectsAfter /\ UNCHANGED <<handles, watched, task, asking, handed>>
  BY DEF AutoImports, Running
<1>2. ApiSide
  BY DEF IInv
<1>3. losers \subseteq {current, lastId + 1}
  OBVIOUS
<1>4. base \in Held
  BY <1>1 DEF Held
<1> HIDE DEF base, losers
<1>5. ApiSide'
  BY <1>1, <1>2, CloneCurrent, ProjectsKept DEF ApiSide
<1>6. handed' = IF 1 = 2 /\ current' # current THEN handed \cup {lastId + 1} ELSE handed
  BY <1>1
<1>7. stopped = "no" /\ lastId < MaxId /\ CloneOf(base, 1, losers, FALSE) /\ handles' = handles
  BY <1>1
<1>8. 1 \in {1, 2} /\ (1 = 2 => losers = {current})
  OBVIOUS
<1> QED
  BY <1>3, <1>4, <1>5, <1>6, <1>7, <1>8, ClonePreserves, Zenon

\* Everything but the handles, a count, what has expired and the task at hand stays.
Rest == <<extends, lastId, current, configs, program, disposals, programRefs, parsed, owners,
          watched, apiProjects, abandoned, dropped>>

\* Steps that clone nothing: they touch handles, the copies' counts and the task only.
LEMMA RestPreserves ==
    ASSUME IInv, UNCHANGED Rest, Types', CurrentCounted', HandlesCounted',
           handed \subseteq handed', task' = task \/ task # "idle",
           asking' \in {asking, NoHandle},
           stopped' = stopped \/ (stopped' = "unwrap" /\ WatchEnabled /\ ~watched),
           \A h \in Handles : handles'[h] # NoHandle => disposals[handles'[h].of] = 0
    PROVE  IInv'
<1>1. UNCHANGED <<extends, lastId, current, configs, program, disposals, programRefs, parsed,
                  owners, watched, apiProjects, abandoned, dropped>>
  BY DEF Rest
<1>2. Numbering' /\ Abandoned' /\ DisposedOnceAndLast' /\ ReplacedIsDisposed'
  BY <1>1 DEF IInv, Numbering, Abandoned, DisposedOnceAndLast, ReplacedIsDisposed
<1>7. ApiSide'
  <2>1. task' \in {"watches", "warm", "idle"}
    BY DEF Types, TypeOK
  <2> QED
    BY <1>1, <2>1 DEF IInv, ApiSide
<1>3. \A t : (Live(t)' <=> Live(t)) /\ Extended(configs[t])' = Extended(configs[t])
  BY <1>1, SameExtended DEF Live, Made, Extended
<1>4. ProgramsHeld'
  BY <1>1 DEF IInv, Types, ProgramsHeld, Live, Made
<1>5. OwnersAreUsers' /\ OwnedAreExtended'
  BY <1>1, <1>3 DEF IInv, OwnersAreUsers, OwnedAreExtended
<1>6. StopsExplained'
  <2>1. CASE stopped' = stopped
    BY <1>1, <2>1, SameExtended DEF IInv, StopsExplained
  <2>2. CASE stopped' = "unwrap" /\ WatchEnabled /\ ~watched
    <3>1. apiProjects' # "none" /\ (abandoned' # {} => dropped' # {})
      BY <1>1, <2>2 DEF IInv, ApiSide, StopsExplained
    <3> QED
      BY <2>2, <3>1 DEF StopsExplained
  <2> QED
    BY <2>1, <2>2
<1> QED
  BY <1>2, <1>4, <1>5, <1>6, <1>7 DEF IInv

\* A handle is made by counting in the snapshot and copying that count; the copy may be
\* lost.
LEMMA HandleMade ==
    ASSUME IInv, current # 0, UNCHANGED Rest, UNCHANGED <<expired, stopped, task>>,
           refCount' = [refCount EXCEPT ![current] = @ + 1],
           NEW h \in Handles,
           handles' \in {handles,
               [handles EXCEPT ![h] = [of |-> current, count |-> refCount'[current]]]},
           handed' = handed \cup {current}, asking' \in {asking, NoHandle}
    PROVE  IInv'
<1>1. \A g \in Handles :
          handles'[g] \in {handles[g], [of |-> current, count |-> refCount'[current]]}
  BY DEF IInv, Types
<1>2. /\ refCount \in [Ids -> Nat] /\ current \in Ids /\ current \in 1..lastId
      /\ handles \in [Handles -> Handle \cup {NoHandle}]
  <2>1. MaxId \in Nat /\ lastId \in Ids /\ current \in 0..lastId
    BY SnapshotsAssumption DEF IInv, Types, TypeOK
  <2>2. current \in Ids /\ current \in 1..lastId
    BY <2>1 DEF Ids
  <2> QED
    BY <2>2 DEF IInv, Types, TypeOK
<1>3. refCount[current] >= 1 /\ refCount'[current] = refCount[current] + 1 /\ refCount' \in [Ids -> Nat]
  BY <1>2 DEF IInv, CurrentCounted
<1>4. [of |-> current, count |-> refCount'[current]] \in Handle
  BY <1>2, <1>3 DEF Handle
<1>5. handles' \in [Handles -> Handle \cup {NoHandle}]
  BY <1>2, <1>4
<1>6. Types'
  <2>1. \A g \in Handles : handles'[g] # NoHandle => handles'[g].of \in Ids /\ handles'[g].count \in Nat
    BY <1>5 DEF Handle
  <2> QED
    BY <1>2, <1>3, <1>5, <2>1 DEF IInv, Types, TypeOK, Rest
<1>7. refCount[current] \in Nat /\ current' = current /\ lastId' = lastId
  BY <1>2 DEF Rest
<1>8. CurrentCounted'
  BY <1>3, <1>7 DEF CurrentCounted
<1>9. refCount'[current] >= 2
  BY <1>3, <1>7
<1>10. HandlesCounted'
  <2> SUFFICES ASSUME NEW g \in Handles, handles'[g] # NoHandle
               PROVE  handles'[g].of \in 1..lastId /\ handles'[g].count >= 2
    BY <1>7, <1>9 DEF HandlesCounted
  <2>1. CASE handles'[g] = [of |-> current, count |-> refCount'[current]]
    BY <1>2, <1>9, <2>1
  <2>2. CASE handles'[g] = handles[g]
    BY <2>2 DEF IInv, HandlesCounted
  <2> QED
    BY <1>1, <2>1, <2>2
<1>11. ASSUME NEW g \in Handles, handles'[g] # NoHandle
       PROVE  disposals[handles'[g].of] = 0
  BY <1>1, <1>2, <1>11 DEF IInv, DisposedOnceAndLast
<1> QED
  BY <1>6, <1>8, <1>10, <1>11, RestPreserves

\* clone_handle for a request.
LEMMA CloneHandlePreserves ==
    ASSUME IInv, NEW h \in Handles, CloneHandle(h) PROVE IInv'
<1>1. /\ current # 0 /\ refCount' = [refCount EXCEPT ![current] = @ + 1]
      /\ handles' = [handles EXCEPT ![h] = [of |-> current, count |-> refCount'[current]]]
      /\ handed' = handed \cup {current} /\ UNCHANGED Rest
      /\ UNCHANGED <<expired, stopped, task, asking>>
  BY DEF CloneHandle, Rest, shared, apiVars
<1> QED
  BY <1>1, HandleMade

\* clone_handle for the API request that waits for it, which may panic and lose it.
LEMMA ApiHandlePreserves ==
    ASSUME IInv, ApiHandle PROVE IInv'
<1>1. /\ asking # NoHandle /\ refCount' = [refCount EXCEPT ![current] = @ + 1]
      /\ handed' = handed \cup {current} /\ asking' = NoHandle /\ UNCHANGED Rest
      /\ UNCHANGED <<expired, stopped, task>>
      /\ handles' \in {handles, [handles EXCEPT ![asking.at] =
                                      [of |-> current, count |-> refCount'[current]]]}
  BY DEF ApiHandle, Rest, shared
<1>2. current # 0 /\ asking.at \in Handles
  BY <1>1 DEF IInv, ApiSide
<1> QED
  BY <1>1, <1>2, HandleMade

\* Releasing a handle counts down in the copy.
LEMMA ReleaseHandlePreserves ==
    ASSUME IInv, NEW h \in Handles, ReleaseHandle(h) PROVE IInv'
<1>1. handles[h].count \in Nat /\ handles[h].count >= 2
  BY DEF IInv, Types, TypeOK, HandlesCounted, ReleaseHandle
<1>2. handles[h].count - 1 # 0
  BY <1>1
<1>3. /\ UNCHANGED Rest /\ UNCHANGED <<refCount, task, asking, stopped, expired, handed>>
      /\ handles' = [handles EXCEPT ![h] = NoHandle]
  BY <1>2 DEF ReleaseHandle, DerefCopy, Rest, apiVars, history
<1>4. handles \in [Handles -> Handle \cup {NoHandle}]
  BY DEF IInv, Types
<1>5. /\ handles' \in [Handles -> Handle \cup {NoHandle}]
      /\ \A g \in Handles : handles'[g] # NoHandle => handles'[g] = handles[g]
  BY <1>3, <1>4
<1>6. Types'
  BY <1>3, <1>5 DEF IInv, Types, TypeOK, Rest
<1>7. CurrentCounted'
  BY <1>3 DEF IInv, CurrentCounted, Rest
<1>8. HandlesCounted'
  BY <1>3, <1>5 DEF IInv, HandlesCounted, Rest
<1>9. \A g \in Handles : handles'[g] # NoHandle => disposals[handles'[g].of] = 0
  BY <1>5 DEF IInv, DisposedOnceAndLast
<1> QED
  BY <1>3, <1>6, <1>7, <1>8, <1>9, RestPreserves

\* The first snapshot has the session's reference.
LEMMA InitInvariant == Init => IInv
<1> SUFFICES ASSUME Init PROVE IInv
  OBVIOUS
<1>1. MaxId \in Nat /\ 0 \in Ids /\ 0 \in 0..0 /\ 1..0 = {}
  BY SnapshotsAssumption DEF Ids
<1>2. Types
  BY <1>1 DEF Init, Types, TypeOK
<1>3. /\ Numbering /\ Abandoned /\ ApiSide /\ CurrentCounted /\ HandlesCounted
      /\ DisposedOnceAndLast /\ ReplacedIsDisposed
  BY <1>1 DEF Init, Numbering, Abandoned, ApiSide, CurrentCounted, HandlesCounted, DisposedOnceAndLast,
             ReplacedIsDisposed, NoProgram
<1>4. ProgramsHeld
  <2>1. \A p \in Ids : {s \in 1..lastId : Live(s) /\ program[s] = p} = {}
    BY <1>1 DEF Init
  <2>2. Cardinality({}) = 0
    BY FS_EmptySet
  <2> QED
    BY <1>2, <2>1, <2>2 DEF Init, ProgramsHeld, Types
<1>5. OwnersAreUsers /\ OwnedAreExtended
  BY <1>1 DEF Init, OwnersAreUsers, OwnedAreExtended
<1>6. StopsExplained
  BY DEF Init, StopsExplained
<1> QED
  BY <1>2, <1>3, <1>4, <1>5, <1>6 DEF IInv

\* One case per action of the specification.
LEMMA NextPreserves ==
    ASSUME IInv, [Next]_vars PROVE IInv'
<1>1. CASE \E f \in Files : EditExtended(f)
  <2>1. /\ UNCHANGED Rest /\ UNCHANGED <<refCount, handles, task, asking, stopped, handed>>
        /\ expired' \subseteq Files
    BY <1>1 DEF EditExtended, snapshotVars, apiVars, history, Rest, IInv, Types, TypeOK
  <2>2. Types' /\ CurrentCounted' /\ HandlesCounted'
    BY <2>1 DEF IInv, Types, TypeOK, CurrentCounted, HandlesCounted, Rest
  <2> QED
    BY <2>1, <2>2, RestPreserves DEF IInv, DisposedOnceAndLast
<1>2. CASE SkipWarming
  <2>1. /\ UNCHANGED Rest /\ UNCHANGED <<refCount, handles, handed, expired, asking, stopped>>
        /\ task = "warm" /\ task' = "idle"
    BY <1>2 DEF SkipWarming, snapshotVars, shared, apiVars, history, Rest
  <2>2. Types' /\ CurrentCounted' /\ HandlesCounted'
    BY <2>1 DEF IInv, Types, TypeOK, CurrentCounted, HandlesCounted, Rest
  <2> QED
    BY <2>1, <2>2, RestPreserves DEF IInv, DisposedOnceAndLast
<1>3. CASE UNCHANGED vars
  <2>1. UNCHANGED Rest /\ UNCHANGED <<refCount, handles, handed, expired, task, asking, stopped>>
    BY <1>3 DEF vars, snapshotVars, shared, apiVars, history, Rest
  <2>2. Types' /\ CurrentCounted' /\ HandlesCounted'
    BY <2>1 DEF IInv, Types, TypeOK, CurrentCounted, HandlesCounted, Rest
  <2> QED
    BY <2>1, <2>2, RestPreserves DEF IInv, DisposedOnceAndLast
<1>4. CASE UpdateWatches
  <2>1. /\ UNCHANGED Rest /\ UNCHANGED <<refCount, handles, handed, expired>>
        /\ task = "watches" /\ task' \in {"warm", "idle"} /\ asking' \in {asking, NoHandle}
        /\ stopped = "no"
        /\ stopped' = stopped \/ (stopped' = "unwrap" /\ WatchEnabled /\ ~watched)
    BY <1>4 DEF UpdateWatches, snapshotVars, shared, history, Rest
  <2>2. Types' /\ CurrentCounted' /\ HandlesCounted'
    BY <2>1 DEF IInv, Types, TypeOK, CurrentCounted, HandlesCounted, Rest
  <2> QED
    BY <2>1, <2>2, RestPreserves DEF IInv, DisposedOnceAndLast
<1> QED
  BY <1>1, <1>2, <1>3, <1>4, ApiHandlePreserves, UpdateSnapshotPreserves, ApiUpdatePreserves, WarmAutoImportsPreserves,
     AutoImportsPreserves, CloneHandlePreserves, ReleaseHandlePreserves DEF Next

\* The counts of snapshots, copies, programs and owners agree in every reachable state.
THEOREM SnapshotsInvariant == Spec => []IInv
  BY InitInvariant, NextPreserves, PTL DEF Spec

\* No snapshot is disposed twice, or while the session or a handle has it: the copy in
\* a handle counts the session's reference too, so releasing it disposes nothing.
THEOREM SnapshotsDisposedOnceAndLast == Spec => []DisposedOnceAndLast
<1>1. IInv => DisposedOnceAndLast
  BY DEF IInv
<1> QED
  BY <1>1, SnapshotsInvariant, PTL

\* Session::update_snapshot_inner and what clones for it dispose what they replace.  Left
\* behind are only snapshots counted for a caller, by clone_handle or by
\* update_snapshot_ref, and those a panic of add_owner has left half made.
THEOREM SnapshotsReplacedAreDisposed == Spec => []ReplacedIsDisposed
<1>1. IInv => ReplacedIsDisposed
  BY DEF IInv
<1> QED
  BY <1>1, SnapshotsInvariant, PTL

\* ProgramCounter counts a program for every snapshot in use that has it, and its parsed
\* files are held exactly as long.
THEOREM SnapshotsHoldPrograms == Spec => []ProgramsHeld
<1>1. IInv => ProgramsHeld
  BY DEF IInv
<1> QED
  BY <1>1, SnapshotsInvariant, PTL

\* Extended configs are cached for the snapshots that use them, and owned by no others
\* than these and snapshots that read a config they did not keep.
THEOREM SnapshotsOwnExtended == Spec => []OwnersAreUsers
<1>1. IInv => OwnersAreUsers
  BY DEF IInv
<1> QED
  BY <1>1, SnapshotsInvariant, PTL

\* add_owner panics only after a snapshot has read a config it did not keep,
\* update_watches unwraps a missing watch only after the API has opened a project, and
\* load_and_acquire waits for itself only where extended files form a circle.
THEOREM SnapshotsStop == Spec => []StopsExplained
<1>1. IInv => StopsExplained
  BY DEF IInv
<1> QED
  BY <1>1, SnapshotsInvariant, PTL
=============================================================================
