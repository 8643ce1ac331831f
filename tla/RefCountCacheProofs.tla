------------------------- MODULE RefCountCacheProofs -------------------------
(***************************************************************************)
(* Proofs about RefCountCache.  However callers interleave, a dead entry   *)
(* stays in the map only while the deref that killed it is about to remove *)
(* it.  The argument needs to know that an operation which has looked an   *)
(* entry up removes it under the key it found it at: an entry is in the    *)
(* map under one key only (OneKey), and it is the key of every operation   *)
(* that holds it (LookedUp).  The second half compares the counts with the *)
(* references callers hold: Counts strengthens HeldIsCached.               *)
(***************************************************************************)
EXTENDS RefCountCache, FiniteSetTheorems, TLAPS

(* The part of the type invariant the argument uses.                       *)
CacheType ==
  /\ map \in [Keys -> Entries \cup {NoEntry}]
  /\ rc \in [Entries -> Int]
  /\ pc \in [Procs -> Step]
  /\ key \in [Procs -> Keys \cup {NoKey}]
  /\ ent \in [Procs -> Entries \cup {NoEntry}]
  /\ \A p \in Procs : pc[p] \notin {"idle", "panicked"} => key[p] \in Keys
  /\ \A p \in Procs : pc[p] \in {"check", "refCheck", "decrement"} => ent[p] \in Entries

(* An entry is in the map under one key only.                              *)
OneKey == \A j, k \in Keys : map[j] = map[k] /\ map[j] # NoEntry => j = k

(* An operation that holds an entry of the map holds it under its key.     *)
LookedUp ==
  \A p \in Procs, k \in Keys : ent[p] # NoEntry /\ map[k] = ent[p] => key[p] = k

IInv == CacheType /\ OneKey /\ LookedUp /\ NoZombie

(* A new entry keeps the map one-to-one and is alive.                      *)
LEMMA FreshEntry ==
  ASSUME NEW p \in Procs, CacheType, OneKey, LookedUp, NoZombie, key[p] \in Keys,
         InsertFresh(p), Return(p)
  PROVE  IInv'
<1> USE EntriesAssumption
<1>1. PICK e \in Entries : /\ ~Referenced(e)
                           /\ map' = [map EXCEPT ![key[p]] = e]
                           /\ rc' = [rc EXCEPT ![e] = 1]
  BY DEF InsertFresh
<1>2. \A k \in Keys : map[k] # e
  BY <1>1 DEF Referenced
<1>3. \A q \in Procs : ent[q] # e
  BY <1>1 DEF Referenced
<1>4. /\ pc' = [pc EXCEPT ![p] = "idle"]
      /\ key' = [key EXCEPT ![p] = NoKey]
      /\ ent' = [ent EXCEPT ![p] = NoEntry]
  BY DEF Return, Goto
<1>5. CacheType'
  BY <1>1, <1>4 DEF CacheType, Step
<1>6. OneKey'
  BY <1>1, <1>2 DEF OneKey, CacheType
<1>7. LookedUp'
  BY <1>1, <1>3, <1>4 DEF LookedUp, CacheType
<1>8. NoZombie'
  <2> SUFFICES ASSUME NEW k \in Keys, map'[k] # NoEntry, rc'[map'[k]] <= 0, ~DisableDeletion
               PROVE  \E q \in Procs : pc'[q] = "remove" /\ key'[q] = k
    BY DEF NoZombie
  <2>1. k # key[p]
    BY <1>1 DEF CacheType
  <2>2. map'[k] = map[k] /\ rc'[map'[k]] = rc[map[k]]
    BY <1>1, <1>2, <2>1 DEF CacheType
  <2>3. PICK q \in Procs : pc[q] = "remove" /\ key[q] = k
    BY <2>2 DEF NoZombie
  <2>4. q # p
    BY <2>1, <2>3
  <2> QED
    BY <1>4, <2>3, <2>4 DEF CacheType
<1> QED
  BY <1>5, <1>6, <1>7, <1>8 DEF IInv

(* A step that leaves the map alone, raises counts at most, and neither    *)
(* takes a caller out of "remove" nor points it at an entry of another key.*)
LEMMA SameMap ==
  ASSUME NEW p \in Procs, IInv, CacheType', UNCHANGED map,
         \A e \in Entries : rc'[e] >= rc[e],
         pc[p] # "remove",
         \A q \in Procs : q # p => pc'[q] = pc[q] /\ key'[q] = key[q] /\ ent'[q] = ent[q],
         ent'[p] # NoEntry => key'[p] \in Keys /\ map[key'[p]] = ent'[p]
  PROVE  IInv'
<1>1. OneKey'
  BY DEF IInv, OneKey
<1>2. LookedUp'
  BY DEF IInv, LookedUp, OneKey
<1>3. NoZombie'
  <2> SUFFICES ASSUME NEW k \in Keys, map[k] # NoEntry, rc'[map[k]] <= 0, ~DisableDeletion
               PROVE  \E q \in Procs : pc'[q] = "remove" /\ key'[q] = k
    BY DEF NoZombie
  <2>1. rc[map[k]] <= 0
    BY DEF IInv, CacheType
  <2>2. PICK q \in Procs : pc[q] = "remove" /\ key[q] = k
    BY <2>1 DEF IInv, NoZombie
  <2> QED
    BY <2>2
<1> QED
  BY <1>1, <1>2, <1>3 DEF IInv

(* Every step of every caller preserves the inductive invariant.           *)
LEMMA StepInv ==
  ASSUME IInv, [Next]_vars
  PROVE  IInv'
<1> USE EntriesAssumption
<1>0. CacheType /\ OneKey /\ LookedUp /\ NoZombie
  BY DEF IInv
<1>1. CASE UNCHANGED vars
  BY <1>1 DEF IInv, CacheType, OneKey, LookedUp, NoZombie, vars
<1>2. ASSUME NEW p \in Procs, ProcStep(p) PROVE IInv'
  <2>1. ASSUME NEW k \in Keys, Acquire(p, k) PROVE IInv'
    <3>1. CacheType' /\ pc[p] = "idle" /\ ent'[p] = NoEntry
      BY <1>0, <2>1 DEF Acquire, Idle, Goto, CacheType, Step
    <3> QED
      BY <2>1, <3>1, SameMap DEF Acquire, Goto, IInv, CacheType
  <2>2. ASSUME NEW k \in Keys, Ref(p, k) PROVE IInv'
    <3>1. CacheType' /\ pc[p] = "idle" /\ ent'[p] = NoEntry
      BY <1>0, <2>2 DEF Ref, Idle, Goto, CacheType, Step
    <3> QED
      BY <2>2, <3>1, SameMap DEF Ref, Goto, IInv, CacheType
  <2>3. ASSUME NEW k \in Keys, Deref(p, k) PROVE IInv'
    <3>1. CacheType' /\ pc[p] = "idle" /\ ent'[p] = NoEntry
      BY <1>0, <2>3 DEF Deref, Idle, Goto, CacheType, Step
    <3> QED
      BY <2>3, <3>1, SameMap DEF Deref, Goto, IInv, CacheType
  <2>4. CASE AcquireLookup(p)
    <3>1. CacheType' /\ ent'[p] = map[key[p]] /\ key'[p] = key[p] /\ key[p] \in Keys
      BY <1>0, <2>4 DEF AcquireLookup, Goto, CacheType, Step
    <3> QED
      BY <2>4, <3>1, SameMap DEF AcquireLookup, Goto, IInv, CacheType
  <2>5. CASE AcquireExisting(p)
    <3>1. CacheType' /\ ent'[p] = NoEntry /\ \A e \in Entries : rc'[e] >= rc[e]
      BY <1>0, <2>5 DEF AcquireExisting, ReturnHolding, Return, Goto, CacheType, Step
    <3> QED
      BY <2>5, <3>1, SameMap DEF AcquireExisting, ReturnHolding, Return, Goto, IInv, CacheType
  <2>6. CASE AcquireDead(p)
    <3>1. CacheType' /\ ent'[p] = NoEntry
      BY <1>0, <2>6 DEF AcquireDead, Goto, CacheType, Step
    <3> QED
      BY <2>6, <3>1, SameMap DEF AcquireDead, Goto, IInv, CacheType
  <2>7. CASE AcquireParsed(p)
    <3>1. key[p] \in Keys /\ Return(p)
      BY <1>0, <2>7 DEF AcquireParsed, ReturnHolding, CacheType
    <3>2. CASE InsertFresh(p)
      BY <1>0, <3>1, <3>2, FreshEntry
    <3>3. CASE ~InsertFresh(p)
      <4>1. /\ map[key[p]] \in Entries
            /\ rc' = [rc EXCEPT ![map[key[p]]] = @ + 1]
            /\ UNCHANGED map
        BY <1>0, <2>7, <3>1, <3>3 DEF AcquireParsed, CacheType
      <4>2. CacheType' /\ ent'[p] = NoEntry /\ \A e \in Entries : rc'[e] >= rc[e]
        BY <1>0, <3>1, <4>1 DEF Return, Goto, CacheType, Step
      <4> QED
        BY <2>7, <3>1, <4>1, <4>2, SameMap DEF AcquireParsed, Return, Goto, IInv, CacheType
    <3> QED
      BY <3>2, <3>3
  <2>8. CASE RefLookup(p)
    <3>1. CacheType' /\ ent'[p] = map[key[p]] /\ key'[p] = key[p] /\ key[p] \in Keys
      BY <1>0, <2>8 DEF RefLookup, Goto, CacheType, Step
    <3> QED
      BY <2>8, <3>1, SameMap DEF RefLookup, Goto, IInv, CacheType
  <2>9. CASE RefNotFound(p)
    <3>1. CacheType' /\ ent'[p] = NoEntry
      BY <1>0, <2>9 DEF RefNotFound, Goto, CacheType, Step
    <3> QED
      BY <2>9, <3>1, SameMap DEF RefNotFound, Goto, IInv, CacheType
  <2>10. CASE RefExisting(p)
    <3>1. CacheType' /\ ent'[p] = NoEntry /\ \A e \in Entries : rc'[e] >= rc[e]
      BY <1>0, <2>10 DEF RefExisting, ReturnHolding, Return, Goto, CacheType, Step
    <3> QED
      BY <2>10, <3>1, SameMap DEF RefExisting, ReturnHolding, Return, Goto, IInv, CacheType
  <2>11. CASE RefDead(p)
    <3>1. CacheType' /\ ent'[p] = NoEntry
      BY <1>0, <2>11 DEF RefDead, Goto, CacheType, Step
    <3> QED
      BY <2>11, <3>1, SameMap DEF RefDead, Goto, IInv, CacheType
  <2>12. CASE RefInsert(p)
    BY <1>0, <2>12, FreshEntry DEF RefInsert, ReturnHolding, CacheType
  <2>13. CASE DerefLookup(p)
    <3>1. /\ CacheType' /\ key[p] \in Keys
          /\ ent'[p] # NoEntry => key'[p] = key[p] /\ ent'[p] = map[key[p]]
      BY <1>0, <2>13 DEF DerefLookup, Return, Goto, CacheType, Step
    <3> QED
      BY <2>13, <3>1, SameMap DEF DerefLookup, Return, Goto, IInv, CacheType
  <2>14. CASE DerefDecrement(p)
    <3>1. CacheType' /\ OneKey' /\ LookedUp'
      BY <1>0, <2>14 DEF DerefDecrement, Return, Goto, CacheType, OneKey, LookedUp, Step
    <3>2. NoZombie'
      <4> SUFFICES ASSUME NEW k \in Keys, map[k] # NoEntry, rc'[map[k]] <= 0, ~DisableDeletion
                   PROVE  \E q \in Procs : pc'[q] = "remove" /\ key'[q] = k
        BY <2>14 DEF NoZombie, DerefDecrement
      <4>1. CASE map[k] = ent[p]
        <5>1. key[p] = k
          BY <1>0, <4>1 DEF LookedUp
        <5>2. rc[ent[p]] - 1 <= 0
          BY <1>0, <2>14, <4>1 DEF DerefDecrement, CacheType
        <5>3. pc'[p] = "remove" /\ key'[p] = k
          BY <1>0, <2>14, <5>1, <5>2 DEF DerefDecrement, Goto, CacheType
        <5> QED
          BY <5>3
      <4>2. CASE map[k] # ent[p]
        <5>1. rc[map[k]] <= 0
          BY <1>0, <2>14, <4>2 DEF DerefDecrement, CacheType
        <5>2. PICK q \in Procs : pc[q] = "remove" /\ key[q] = k
          BY <1>0, <5>1 DEF NoZombie
        <5>3. pc'[q] = "remove" /\ key'[q] = k
          BY <1>0, <2>14, <5>2 DEF DerefDecrement, Return, Goto, CacheType
        <5> QED
          BY <5>3
      <4> QED
        BY <4>1, <4>2
    <3> QED
      BY <3>1, <3>2 DEF IInv
  <2>15. CASE DerefRemove(p)
    <3>1. /\ map' = [map EXCEPT ![key[p]] = NoEntry] /\ key[p] \in Keys
          /\ pc' = [pc EXCEPT ![p] = "idle"] /\ key' = [key EXCEPT ![p] = NoKey]
          /\ ent' = [ent EXCEPT ![p] = NoEntry] /\ rc' = rc
      BY <1>0, <2>15 DEF DerefRemove, Return, Goto, CacheType
    <3>2. CacheType' /\ OneKey' /\ LookedUp'
      BY <1>0, <3>1 DEF CacheType, OneKey, LookedUp, Step
    <3>3. NoZombie'
      BY <1>0, <3>1 DEF CacheType, NoZombie
    <3> QED
      BY <3>2, <3>3 DEF IInv
  <2> QED
    BY <1>2, <2>1, <2>2, <2>3, <2>4, <2>5, <2>6, <2>7, <2>8, <2>9, <2>10,
       <2>11, <2>12, <2>13, <2>14, <2>15 DEF ProcStep
<1> QED
  BY <1>1, <1>2 DEF Next

(* However acquire, ref and deref of any number of callers interleave, an  *)
(* entry whose count has reached zero is in the map only while the deref   *)
(* that brought it there has still to remove it: no dead entry is stranded.*)
THEOREM NoDeadEntryStranded == Spec => []NoZombie
<1>1. Init => IInv
  BY EntriesAssumption DEF Init, IInv, CacheType, OneKey, LookedUp, NoZombie, Step
<1>2. IInv /\ [Next]_vars => IInv'
  BY StepInv
<1>3. IInv => NoZombie
  BY DEF IInv
<1> QED
  BY <1>1, <1>2, <1>3, PTL DEF Spec
-----------------------------------------------------------------------------
(* References counted against held ones.  The references to a key that are *)
(* owed to its entry are the ones callers hold and the ones a deref has    *)
(* taken from its caller and not yet taken off the count.  However callers *)
(* interleave, the entry in the map never counts more than that (Bounded); *)
(* while they take turns it counts exactly that (Turns).                   *)

HeldRefs(k) == {r \in Procs \X (1 .. MaxHeld) : r[2] <= held[r[1]][k]}

DerefProcs(k) ==
  {p \in Procs : /\ key[p] = k
                 /\ pc[p] = "deref" \/ (pc[p] = "decrement" /\ ent[p] = map[k])}

Owed(k) == TotalHeld(k) + Cardinality(DerefProcs(k))

(* Held references stay within their bound: an operation that is to return *)
(* with one more has room for it.                                          *)
HeldType ==
  /\ held \in [Procs -> [Keys -> 0 .. MaxHeld]]
  /\ serial \in BOOLEAN
  /\ \A p \in Procs :
       pc[p] \in {"acquire", "check", "parse", "ref", "refCheck", "refInsert"}
         => held[p][key[p]] < MaxHeld

Bounded == \A k \in Keys : map[k] # NoEntry => rc[map[k]] <= Owed(k)

Busy(p) == pc[p] # "idle"

(* Callers that take turns: at most one is in an operation, what it looked *)
(* up is still in the map, it met no missing or dead entry, and counts are *)
(* exact.                                                                  *)
OneBusy == \A p, q \in Procs : Busy(p) /\ Busy(q) => p = q

Smooth ==
  \A p \in Procs :
    /\ pc[p] \notin {"panicked", "refInsert"}
    /\ pc[p] \in {"check", "refCheck", "decrement"} => ent[p] = map[key[p]]
    /\ pc[p] = "ref" => held[p][key[p]] > 0
    /\ pc[p] = "remove" => Owed(key[p]) = 0

Exact ==
  \A k \in Keys :
    /\ map[k] = NoEntry => Owed(k) = 0
    /\ map[k] # NoEntry => rc[map[k]] = Owed(k)

Turns == serial => OneBusy /\ Smooth /\ Exact

Counts == IInv /\ HeldType /\ Bounded /\ Turns

(* A step of p changes no other caller's state.                            *)
Others(p) ==
  \A q \in Procs : q # p => pc'[q] = pc[q] /\ key'[q] = key[q] /\ ent'[q] = ent[q]

(* Sets of callers are finite.                                             *)
LEMMA FiniteProcs ==
  ASSUME NEW S \in SUBSET Procs
  PROVE  IsFiniteSet(S) /\ Cardinality(S) \in Nat
  BY ProcsAssumption, FS_Subset, FS_CardinalityType

(* Sets of held references are finite.                                     *)
LEMMA FiniteRefs ==
  ASSUME NEW S \in SUBSET (Procs \X (1 .. MaxHeld))
  PROVE  IsFiniteSet(S) /\ Cardinality(S) \in Nat
<1>1. IsFiniteSet(1 .. MaxHeld)
  BY BoundAssumption, FS_Interval
<1>2. IsFiniteSet(Procs \X (1 .. MaxHeld))
  BY <1>1, ProcsAssumption, FS_Product
<1> QED
  BY <1>2, FS_Subset, FS_CardinalityType

(* The counts are natural numbers.                                         *)
LEMMA OwedNat ==
  ASSUME NEW k
  PROVE  /\ TotalHeld(k) \in Nat /\ Cardinality(DerefProcs(k)) \in Nat /\ Owed(k) \in Nat
         /\ TotalHeld(k)' \in Nat /\ Cardinality(DerefProcs(k)') \in Nat /\ Owed(k)' \in Nat
<1>1. HeldRefs(k) \in SUBSET (Procs \X (1 .. MaxHeld)) /\ HeldRefs(k)' \in SUBSET (Procs \X (1 .. MaxHeld))
  BY DEF HeldRefs
<1>2. TotalHeld(k) = Cardinality(HeldRefs(k)) /\ TotalHeld(k)' = Cardinality(HeldRefs(k)')
  BY DEF HeldRefs, TotalHeld
<1>3. TotalHeld(k) \in Nat /\ TotalHeld(k)' \in Nat
  BY <1>1, <1>2, FiniteRefs
<1>4. DerefProcs(k) \in SUBSET Procs /\ DerefProcs(k)' \in SUBSET Procs
  BY DEF DerefProcs
<1>5. Cardinality(DerefProcs(k)) \in Nat /\ Cardinality(DerefProcs(k)') \in Nat
  BY <1>4, FiniteProcs
<1> QED
  BY <1>3, <1>5 DEF Owed

(* A reference more for p and k.                                           *)
LEMMA HeldUp ==
  ASSUME NEW p \in Procs, NEW k \in Keys, held \in [Procs -> [Keys -> 0 .. MaxHeld]],
         held[p][k] < MaxHeld, held' = [held EXCEPT ![p][k] = @ + 1]
  PROVE  /\ held' \in [Procs -> [Keys -> 0 .. MaxHeld]]
         /\ TotalHeld(k)' = TotalHeld(k) + 1
         /\ \A j \in Keys : j # k => TotalHeld(j)' = TotalHeld(j)
<1> USE BoundAssumption
<1>1. held' \in [Procs -> [Keys -> 0 .. MaxHeld]]
  OBVIOUS
<1>2. \A q \in Procs, j \in Keys : held'[q][j] = IF q = p /\ j = k THEN held[p][k] + 1 ELSE held[q][j]
  OBVIOUS
<1>3. \A j \in Keys : j # k => TotalHeld(j)' = TotalHeld(j)
  <2> SUFFICES ASSUME NEW j \in Keys, j # k PROVE TotalHeld(j)' = TotalHeld(j)
    OBVIOUS
  <2>1. \A r \in Procs \X (1 .. MaxHeld) : held'[r[1]][j] = held[r[1]][j]
    BY <1>2
  <2> QED
    BY <2>1 DEF TotalHeld
<1>4. TotalHeld(k)' = TotalHeld(k) + 1
  <2> DEFINE new == <<p, held[p][k] + 1>>
  <2>1. held[p][k] \in Nat /\ held[p][k] + 1 \in 1 .. MaxHeld
    OBVIOUS
  <2>2. new \in Procs \X (1 .. MaxHeld) /\ new[1] = p /\ new[2] = held[p][k] + 1
    BY <2>1
  <2>3. new \notin HeldRefs(k)
    BY <2>1, <2>2 DEF HeldRefs
  <2>4. ASSUME NEW r \in Procs \X (1 .. MaxHeld)
        PROVE  r \in HeldRefs(k)' <=> r \in HeldRefs(k) \/ r = new
    <3>0. r[1] \in Procs /\ r[2] \in 1 .. MaxHeld /\ r = <<r[1], r[2]>>
      OBVIOUS
    <3>1. CASE r[1] = p
      <4>0. \A x, h \in Nat : x <= h + 1 <=> x <= h \/ x = h + 1
        OBVIOUS
      <4>1. r[2] <= held[p][k] + 1 <=> r[2] <= held[p][k] \/ r[2] = held[p][k] + 1
        <5>1. r[2] \in Nat
          BY <3>0
        <5> HIDE DEF new
        <5> QED
          BY <2>1, <4>0, <5>1
      <4>2. r = new <=> r[2] = held[p][k] + 1
        BY <3>0, <3>1
      <4>3. held'[r[1]][k] = held[p][k] + 1
        BY <1>2, <3>1
      <4> QED
        BY <3>1, <4>1, <4>2, <4>3 DEF HeldRefs
    <3>2. CASE r[1] # p
      <4>1. held'[r[1]][k] = held[r[1]][k] /\ r # new
        BY <1>2, <3>0, <3>2, <2>2
      <4> QED
        BY <4>1 DEF HeldRefs
    <3> QED
      BY <3>1, <3>2
  <2>5. HeldRefs(k)' = HeldRefs(k) \cup {new}
    <3>1. HeldRefs(k)' \subseteq Procs \X (1 .. MaxHeld) /\ HeldRefs(k) \subseteq Procs \X (1 .. MaxHeld)
      BY DEF HeldRefs
    <3> HIDE DEF new
    <3> QED
      BY <2>2, <2>4, <3>1
  <2>6. IsFiniteSet(HeldRefs(k))
    BY FiniteRefs DEF HeldRefs
  <2>7. Cardinality(HeldRefs(k) \cup {new}) = Cardinality(HeldRefs(k)) + 1
    BY <2>3, <2>6, FS_AddElement
  <2>8. TotalHeld(k) = Cardinality(HeldRefs(k)) /\ TotalHeld(k)' = Cardinality(HeldRefs(k)')
    BY DEF HeldRefs, TotalHeld
  <2> QED
    BY <2>5, <2>7, <2>8
<1> QED
  BY <1>1, <1>3, <1>4

(* A reference less for p and k.                                           *)
LEMMA HeldDown ==
  ASSUME NEW p \in Procs, NEW k \in Keys, held \in [Procs -> [Keys -> 0 .. MaxHeld]],
         held[p][k] > 0, held' = [held EXCEPT ![p][k] = @ - 1]
  PROVE  /\ held' \in [Procs -> [Keys -> 0 .. MaxHeld]]
         /\ TotalHeld(k) = TotalHeld(k)' + 1
         /\ \A j \in Keys : j # k => TotalHeld(j)' = TotalHeld(j)
<1> USE BoundAssumption
<1>1. held' \in [Procs -> [Keys -> 0 .. MaxHeld]]
  OBVIOUS
<1>2. \A q \in Procs, j \in Keys : held'[q][j] = IF q = p /\ j = k THEN held[p][k] - 1 ELSE held[q][j]
  OBVIOUS
<1>3. \A j \in Keys : j # k => TotalHeld(j)' = TotalHeld(j)
  <2> SUFFICES ASSUME NEW j \in Keys, j # k PROVE TotalHeld(j)' = TotalHeld(j)
    OBVIOUS
  <2>1. \A r \in Procs \X (1 .. MaxHeld) : held'[r[1]][j] = held[r[1]][j]
    BY <1>2
  <2> QED
    BY <2>1 DEF TotalHeld
<1>4. TotalHeld(k) = TotalHeld(k)' + 1
  <2> DEFINE old == <<p, held[p][k]>>
  <2>1. held[p][k] \in Nat /\ held[p][k] \in 1 .. MaxHeld
    OBVIOUS
  <2>2. old \in Procs \X (1 .. MaxHeld) /\ old[1] = p /\ old[2] = held[p][k]
    BY <2>1
  <2>3. old \notin HeldRefs(k)'
    BY <1>2, <2>1, <2>2 DEF HeldRefs
  <2>4. ASSUME NEW r \in Procs \X (1 .. MaxHeld)
        PROVE  r \in HeldRefs(k) <=> r \in HeldRefs(k)' \/ r = old
    <3>0. r[1] \in Procs /\ r[2] \in 1 .. MaxHeld /\ r = <<r[1], r[2]>>
      OBVIOUS
    <3>1. CASE r[1] = p
      <4>1. r[2] <= held[p][k] <=> r[2] <= held[p][k] - 1 \/ r[2] = held[p][k]
        BY <2>1, <3>0
      <4>2. r = old <=> r[2] = held[p][k]
        BY <3>0, <3>1
      <4>3. held'[r[1]][k] = held[p][k] - 1
        BY <1>2, <3>1
      <4> QED
        BY <3>1, <4>1, <4>2, <4>3 DEF HeldRefs
    <3>2. CASE r[1] # p
      <4>1. held'[r[1]][k] = held[r[1]][k] /\ r # old
        BY <1>2, <3>0, <3>2, <2>2
      <4> QED
        BY <4>1 DEF HeldRefs
    <3> QED
      BY <3>1, <3>2
  <2>5. HeldRefs(k) = HeldRefs(k)' \cup {old}
    <3>1. HeldRefs(k)' \subseteq Procs \X (1 .. MaxHeld) /\ HeldRefs(k) \subseteq Procs \X (1 .. MaxHeld)
      BY DEF HeldRefs
    <3> HIDE DEF old
    <3> QED
      BY <2>2, <2>4, <3>1
  <2>6. IsFiniteSet(HeldRefs(k)')
    <3>1. HeldRefs(k)' \in SUBSET (Procs \X (1 .. MaxHeld))
      BY DEF HeldRefs
    <3> QED
      BY <3>1, FiniteRefs
  <2>7. Cardinality(HeldRefs(k)' \cup {old}) = Cardinality(HeldRefs(k)') + 1
    <3> HIDE DEF old
    <3> QED
      BY <2>3, <2>6, FS_AddElement
  <2>8. TotalHeld(k) = Cardinality(HeldRefs(k)) /\ TotalHeld(k)' = Cardinality(HeldRefs(k)')
    BY DEF HeldRefs, TotalHeld
  <2> QED
    BY <2>5, <2>7, <2>8
<1> QED
  BY <1>1, <1>3, <1>4

(* A step of a caller that is outside deref before and after it, and that  *)
(* leaves the map alone, leaves the derefs under way as they are.          *)
LEMMA DerefsSame ==
  ASSUME NEW p \in Procs, NEW k \in Keys, Others(p), map'[k] = map[k],
         pc[p] \notin {"deref", "decrement"}, pc'[p] \notin {"deref", "decrement"}
  PROVE  DerefProcs(k)' = DerefProcs(k)
  BY DEF DerefProcs, Others

(* A caller joins the derefs of k under way.                               *)
LEMMA DerefsJoin ==
  ASSUME NEW p \in Procs, NEW k \in Keys, Others(p), map'[k] = map[k],
         p \notin DerefProcs(k), p \in DerefProcs(k)'
  PROVE  Cardinality(DerefProcs(k)') = Cardinality(DerefProcs(k)) + 1
<1>1. DerefProcs(k)' = DerefProcs(k) \cup {p}
  BY DEF DerefProcs, Others
<1>2. IsFiniteSet(DerefProcs(k))
  BY FiniteProcs DEF DerefProcs
<1> QED
  BY <1>1, <1>2, FS_AddElement

(* It leaves them ...                                                      *)
LEMMA DerefsLeave ==
  ASSUME NEW p \in Procs, NEW k \in Keys, Others(p), map'[k] = map[k],
         p \in DerefProcs(k), p \notin DerefProcs(k)'
  PROVE  Cardinality(DerefProcs(k)) = Cardinality(DerefProcs(k)') + 1
<1>1. DerefProcs(k) = DerefProcs(k)' \cup {p}
  BY DEF DerefProcs, Others
<1>2. DerefProcs(k)' \in SUBSET Procs
  BY DEF DerefProcs
<1>3. IsFiniteSet(DerefProcs(k)')
  BY <1>2, FiniteProcs
<1> QED
  BY <1>1, <1>3, FS_AddElement

(* ... or takes no part in them, or moves on within one.                   *)
LEMMA DerefsStay ==
  ASSUME NEW p \in Procs, NEW k \in Keys, Others(p), map'[k] = map[k],
         p \in DerefProcs(k) <=> p \in DerefProcs(k)'
  PROVE  DerefProcs(k)' = DerefProcs(k)
  BY DEF DerefProcs, Others

(* What a caller that takes turns may rely on for its own step.            *)
SmoothAt(p) ==
  /\ pc[p] \notin {"panicked", "refInsert"}
  /\ pc[p] \in {"check", "refCheck", "decrement"} => ent[p] = map[key[p]]
  /\ pc[p] = "ref" => held[p][key[p]] > 0
  /\ pc[p] = "remove" => Owed(key[p]) = 0

(* Callers that take turns are alone in an operation ...                   *)
LEMMA Alone ==
  ASSUME NEW p \in Procs, Turns, serial, Idle(p) \/ Busy(p)
  PROVE  \A q \in Procs : q # p => pc[q] = "idle"
<1>1. OneBusy /\ Smooth
  BY DEF Turns
<1>2. CASE Busy(p)
  BY <1>1, <1>2 DEF OneBusy, Busy
<1>3. CASE Idle(p)
  BY <1>1, <1>3 DEF Smooth, Idle
<1> QED
  BY <1>2, <1>3

(* ... so that a step has to keep only its own caller's promises and the   *)
(* counts.                                                                 *)
LEMMA TurnsKept ==
  ASSUME NEW p \in Procs, Turns, serial' = serial, Idle(p) \/ Busy(p), Others(p),
         serial => SmoothAt(p)' /\ Exact'
  PROVE  Turns'
<1> SUFFICES ASSUME serial PROVE OneBusy' /\ Smooth' /\ Exact'
  BY DEF Turns
<1>1. \A q \in Procs : q # p => pc'[q] = "idle"
  BY Alone DEF Others
<1>2. OneBusy'
  BY <1>1 DEF OneBusy, Busy
<1>3. Smooth'
  <2> SUFFICES ASSUME NEW q \in Procs PROVE SmoothAt(q)'
    BY DEF Smooth, SmoothAt
  <2>1. CASE q = p
    BY <2>1
  <2>2. CASE q # p
    <3>1. pc'[q] = "idle"
      BY <1>1, <2>2
    <3> QED
      BY <3>1 DEF SmoothAt
  <2> QED
    BY <2>1, <2>2
<1> QED
  BY <1>2, <1>3

(* What is owed to a key's entry: it stays the same, ...                   *)
LEMMA OwedSame ==
  ASSUME NEW p \in Procs, NEW k \in Keys, Others(p), map'[k] = map[k], held' = held,
         pc[p] \notin {"deref", "decrement"}, pc'[p] \notin {"deref", "decrement"}
  PROVE  Owed(k)' = Owed(k)
<1>1. DerefProcs(k)' = DerefProcs(k)
  BY DerefsSame
<1>2. TotalHeld(k)' = TotalHeld(k)
  BY DEF TotalHeld
<1> QED
  BY <1>1, <1>2 DEF Owed

(* ... or one is added, when a caller leaves with a reference.             *)
LEMMA OwedUp ==
  ASSUME NEW p \in Procs, NEW m \in Keys, HeldType, held[p][m] < MaxHeld,
         held' = [held EXCEPT ![p][m] = @ + 1], Others(p),
         pc[p] \notin {"deref", "decrement"}, pc'[p] \notin {"deref", "decrement"}
  PROVE  /\ held' \in [Procs -> [Keys -> 0 .. MaxHeld]]
         /\ Owed(m)' >= 1
         /\ \A k \in Keys : map'[k] = map[k] =>
              Owed(k)' = IF k = m THEN Owed(k) + 1 ELSE Owed(k)
<1>1. /\ held' \in [Procs -> [Keys -> 0 .. MaxHeld]]
      /\ TotalHeld(m)' = TotalHeld(m) + 1
      /\ \A j \in Keys : j # m => TotalHeld(j)' = TotalHeld(j)
  BY HeldUp DEF HeldType
<1>2. ASSUME NEW k \in Keys, map'[k] = map[k] PROVE Cardinality(DerefProcs(k)') = Cardinality(DerefProcs(k))
  BY <1>2, DerefsSame
<1>3. ASSUME NEW k \in Keys, map'[k] = map[k]
      PROVE  Owed(k)' = IF k = m THEN Owed(k) + 1 ELSE Owed(k)
  <2>1. Owed(k) = TotalHeld(k) + Cardinality(DerefProcs(k)) /\ Owed(k)' = TotalHeld(k)' + Cardinality(DerefProcs(k)')
    BY DEF Owed
  <2>2. TotalHeld(k) \in Nat /\ Cardinality(DerefProcs(k)) \in Nat
    BY OwedNat
  <2> QED
    BY <1>1, <1>2, <1>3, <2>1, <2>2
<1>4. Owed(m)' >= 1
  <2>1. Owed(m)' = TotalHeld(m)' + Cardinality(DerefProcs(m)')
    BY DEF Owed
  <2>2. TotalHeld(m) \in Nat /\ Cardinality(DerefProcs(m)') \in Nat
    <3>1. \A j \in Keys : TotalHeld(j) \in Nat
      BY OwedNat
    <3>2. DerefProcs(m)' \in SUBSET Procs
      BY DEF DerefProcs
    <3> QED
      BY <3>1, <3>2, FiniteProcs
  <2> QED
    BY <1>1, <2>1, <2>2
<1> QED
  BY <1>1, <1>3, <1>4

(* A reference that is held is among the references to its key.            *)
LEMMA HeldIsTotal ==
  ASSUME NEW p \in Procs, NEW k \in Keys, HeldType, held[p][k] > 0
  PROVE  TotalHeld(k) >= 1
<1> USE BoundAssumption
<1>1. held[p][k] \in 1 .. MaxHeld
  BY DEF HeldType
<1>2. <<p, 1>> \in HeldRefs(k)
  BY <1>1 DEF HeldRefs
<1>3. IsFiniteSet(HeldRefs(k)) /\ Cardinality(HeldRefs(k)) \in Nat
  BY FiniteRefs DEF HeldRefs
<1>4. Cardinality(HeldRefs(k)) # 0
  BY <1>2, <1>3, FS_EmptySet
<1>5. TotalHeld(k) = Cardinality(HeldRefs(k))
  BY DEF HeldRefs, TotalHeld
<1> QED
  BY <1>3, <1>4, <1>5

(* A caller that takes turns meets no dead entry, except the one it is to  *)
(* remove.                                                                 *)
LEMMA NoneDead ==
  ASSUME NEW p \in Procs, Counts, serial, Busy(p), pc[p] # "remove",
         NEW k \in Keys, map[k] # NoEntry
  PROVE  Usable(map[k])
<1>1. \A q \in Procs : pc[q] # "remove"
  BY Alone DEF Counts
<1>2. map[k] \in Entries /\ rc[map[k]] \in Int
  BY DEF Counts, IInv, CacheType
<1> QED
  BY <1>1, <1>2 DEF Counts, IInv, NoZombie, Usable

(* Steps that count nothing.                                               *)
LEMMA NothingCounted ==
  ASSUME NEW p \in Procs, Counts, IInv', HeldType', UNCHANGED <<map, rc, held, serial>>,
         Others(p), Idle(p) \/ Busy(p),
         pc[p] \notin {"deref", "decrement"}, pc'[p] \notin {"deref", "decrement"},
         serial => SmoothAt(p)'
  PROVE  Counts'
<1>1. \A k \in Keys : Owed(k)' = Owed(k)
  BY OwedSame
<1>2. Bounded'
  BY <1>1 DEF Counts, Bounded
<1>3. serial => Exact'
  BY <1>1 DEF Counts, Turns, Exact
<1>4. Turns'
  BY <1>3, TurnsKept DEF Counts
<1> QED
  BY <1>2, <1>4 DEF Counts

(* Leaving with a reference that is counted at the entry looked up.        *)
LEMMA ExistingCounted ==
  ASSUME NEW p \in Procs, NEW e \in Entries, Counts, IInv', UNCHANGED <<map, serial>>,
         Busy(p), pc[p] \notin {"deref", "decrement"}, key[p] \in Keys,
         held[p][key[p]] < MaxHeld,
         rc' = [rc EXCEPT ![e] = @ + 1], ReturnHolding(p),
         \A k \in Keys : map[k] = e => k = key[p],
         serial => map[key[p]] = e
  PROVE  Counts'
<1> USE EntriesAssumption
<1>0. CacheType /\ HeldType /\ Bounded /\ Turns
  BY DEF Counts, IInv
<1>1. PICK m \in Keys : m = key[p]
  OBVIOUS
<1>2. /\ pc' = [pc EXCEPT ![p] = "idle"] /\ key' = [key EXCEPT ![p] = NoKey]
      /\ ent' = [ent EXCEPT ![p] = NoEntry] /\ held' = [held EXCEPT ![p][m] = @ + 1]
  BY <1>1 DEF ReturnHolding, Return, Goto
<1>3. Others(p) /\ pc'[p] = "idle"
  BY <1>0, <1>2 DEF Others, CacheType
<1>4. /\ held' \in [Procs -> [Keys -> 0 .. MaxHeld]]
      /\ \A k \in Keys : Owed(k)' = IF k = m THEN Owed(k) + 1 ELSE Owed(k)
  BY <1>0, <1>1, <1>2, <1>3, OwedUp
<1>5. \A k \in Keys : Owed(k) \in Nat
  BY OwedNat
<1>6. HeldType'
  <2>1. \A q \in Procs : q # p => held'[q] = held[q]
    BY <1>0, <1>2 DEF HeldType
  <2> QED
    BY <1>0, <1>3, <1>4, <2>1 DEF HeldType, Others
<1>7. \A k \in Keys : map[k] # NoEntry => map[k] \in Entries /\ rc[map[k]] \in Int
  BY <1>0 DEF CacheType
<1>8. \A k \in Keys : map[k] # NoEntry =>
        rc'[map[k]] = IF map[k] = e THEN rc[map[k]] + 1 ELSE rc[map[k]]
  BY <1>0, <1>7 DEF CacheType
<1>9. Bounded'
  <2> SUFFICES ASSUME NEW k \in Keys, map[k] # NoEntry PROVE rc'[map[k]] <= Owed(k)'
    BY DEF Bounded
  <2>1. rc[map[k]] <= Owed(k)
    BY <1>0 DEF Bounded
  <2>2. map[k] = e => k = m
    BY <1>1
  <2> QED
    BY <1>4, <1>5, <1>7, <1>8, <2>1, <2>2
<1>10. serial => Exact'
  <2> SUFFICES ASSUME serial, NEW k \in Keys
               PROVE  /\ map[k] = NoEntry => Owed(k)' = 0
                      /\ map[k] # NoEntry => rc'[map[k]] = Owed(k)'
    BY DEF Exact
  <2>1. /\ map[k] = NoEntry => Owed(k) = 0
        /\ map[k] # NoEntry => rc[map[k]] = Owed(k)
    BY <1>0 DEF Turns, Exact
  <2>2. map[k] = e <=> k = m
    BY <1>1
  <2> QED
    BY <1>4, <1>5, <1>7, <1>8, <2>1, <2>2
<1>11. SmoothAt(p)'
  BY <1>3 DEF SmoothAt
<1>12. Turns'
  BY <1>0, <1>3, <1>10, <1>11, TurnsKept
<1> QED
  BY <1>6, <1>9, <1>12 DEF Counts

(* Leaving with the one reference to a new entry.                          *)
LEMMA FreshCounted ==
  ASSUME NEW p \in Procs, Counts, IInv', serial' = serial,
         Busy(p), pc[p] \notin {"deref", "decrement"}, key[p] \in Keys,
         held[p][key[p]] < MaxHeld,
         InsertFresh(p), ReturnHolding(p),
         serial => map[key[p]] = NoEntry
  PROVE  Counts'
<1> USE EntriesAssumption
<1>0. CacheType /\ HeldType /\ Bounded /\ Turns
  BY DEF Counts, IInv
<1>1. PICK m \in Keys : m = key[p]
  OBVIOUS
<1>2. /\ pc' = [pc EXCEPT ![p] = "idle"] /\ key' = [key EXCEPT ![p] = NoKey]
      /\ ent' = [ent EXCEPT ![p] = NoEntry] /\ held' = [held EXCEPT ![p][m] = @ + 1]
  BY <1>1 DEF ReturnHolding, Return, Goto
<1>3. Others(p) /\ pc'[p] = "idle"
  BY <1>0, <1>2 DEF Others, CacheType
<1>4. /\ held' \in [Procs -> [Keys -> 0 .. MaxHeld]]
      /\ Owed(m)' >= 1
      /\ \A k \in Keys : map'[k] = map[k] => Owed(k)' = IF k = m THEN Owed(k) + 1 ELSE Owed(k)
  BY <1>0, <1>1, <1>2, <1>3, OwedUp
<1>5. \A k \in Keys : Owed(k) \in Nat
  BY OwedNat
<1>6. HeldType'
  <2>1. \A q \in Procs : q # p => held'[q] = held[q]
    BY <1>0, <1>2 DEF HeldType
  <2> QED
    BY <1>0, <1>3, <1>4, <2>1 DEF HeldType, Others
<1>7. PICK e \in Entries : /\ ~Referenced(e)
                           /\ map' = [map EXCEPT ![m] = e]
                           /\ rc' = [rc EXCEPT ![e] = 1]
  BY <1>1 DEF InsertFresh
<1>8. ASSUME NEW k \in Keys, k # m
      PROVE  map'[k] = map[k] /\ Owed(k)' = Owed(k) /\ (map[k] # NoEntry => rc'[map[k]] = rc[map[k]])
  <2>1. map'[k] = map[k] /\ map[k] # e /\ map[k] \in Entries \cup {NoEntry}
    BY <1>0, <1>7, <1>8 DEF CacheType, Referenced
  <2>2. map[k] # NoEntry => rc'[map[k]] = rc[map[k]]
    BY <1>0, <1>7, <2>1 DEF CacheType
  <2> QED
    BY <1>4, <1>8, <2>1, <2>2
<1>9. map'[m] = e /\ rc'[e] = 1
  BY <1>0, <1>7 DEF CacheType
<1>10. Bounded'
  <2> SUFFICES ASSUME NEW k \in Keys, map'[k] # NoEntry PROVE rc'[map'[k]] <= Owed(k)'
    BY DEF Bounded
  <2>1. CASE k = m
    <3>1. Owed(m)' \in Nat
      BY OwedNat
    <3> QED
      BY <1>4, <1>9, <2>1, <3>1
  <2>2. CASE k # m
    BY <1>0, <1>8, <2>2 DEF Bounded
  <2> QED
    BY <2>1, <2>2
<1>11. serial => Exact'
  <2> SUFFICES ASSUME serial PROVE Exact'
    OBVIOUS
  <2>1. \A q \in Procs : pc'[q] = "idle"
    BY <1>0, <1>3, Alone DEF Others
  <2>2. DerefProcs(m)' = {}
    BY <2>1 DEF DerefProcs
  <2>3. Owed(m) = 0
    BY <1>0, <1>1 DEF Turns, Exact
  <2>4. TotalHeld(m) = 0
    BY <2>3, OwedNat DEF Owed
  <2>5. TotalHeld(m)' = TotalHeld(m) + 1
    BY <1>0, <1>1, <1>2, HeldUp DEF HeldType
  <2>6. Owed(m)' = 1
    BY <2>2, <2>4, <2>5, FS_EmptySet DEF Owed
  <2> QED
    BY <1>0, <1>8, <1>9, <2>6 DEF Turns, Exact
<1>12. SmoothAt(p)'
  BY <1>3 DEF SmoothAt
<1>13. Turns'
  BY <1>0, <1>3, <1>11, <1>12, TurnsKept
<1> QED
  BY <1>6, <1>10, <1>13 DEF Counts

(* A deref takes a reference from its caller: it is owed all the same.     *)
LEMMA DerefCounts ==
  ASSUME NEW p \in Procs, NEW k \in Keys, Counts, IInv', Deref(p, k), serial' = serial
  PROVE  Counts'
<1> USE EntriesAssumption
<1>0. CacheType /\ HeldType /\ Bounded /\ Turns
  BY DEF Counts, IInv
<1>1. /\ pc' = [pc EXCEPT ![p] = "deref"] /\ key' = [key EXCEPT ![p] = k]
      /\ ent' = [ent EXCEPT ![p] = NoEntry] /\ held' = [held EXCEPT ![p][k] = @ - 1]
      /\ map' = map /\ rc' = rc /\ pc[p] = "idle" /\ held[p][k] > 0 /\ Idle(p)
  BY DEF Deref, Goto, Idle
<1>2. Others(p) /\ pc'[p] = "deref" /\ key'[p] = k
  BY <1>0, <1>1 DEF Others, CacheType
<1>3. /\ held' \in [Procs -> [Keys -> 0 .. MaxHeld]]
      /\ TotalHeld(k) = TotalHeld(k)' + 1
      /\ \A j \in Keys : j # k => TotalHeld(j)' = TotalHeld(j)
  BY <1>0, <1>1, HeldDown DEF HeldType
<1>4. Cardinality(DerefProcs(k)') = Cardinality(DerefProcs(k)) + 1
  <2>1. p \notin DerefProcs(k) /\ p \in DerefProcs(k)'
    BY <1>1, <1>2 DEF DerefProcs
  <2> QED
    BY <1>1, <1>2, <2>1, DerefsJoin
<1>5. \A j \in Keys : j # k => DerefProcs(j)' = DerefProcs(j)
  <2> SUFFICES ASSUME NEW j \in Keys, j # k PROVE DerefProcs(j)' = DerefProcs(j)
    OBVIOUS
  <2>1. p \notin DerefProcs(j) /\ p \notin DerefProcs(j)'
    BY <1>1, <1>2 DEF DerefProcs
  <2> QED
    BY <1>1, <1>2, <2>1, DerefsStay
<1>6. \A j \in Keys : Owed(j)' = Owed(j)
  <2> SUFFICES ASSUME NEW j \in Keys PROVE Owed(j)' = Owed(j)
    OBVIOUS
  <2>1. Owed(j) = TotalHeld(j) + Cardinality(DerefProcs(j)) /\ Owed(j)' = TotalHeld(j)' + Cardinality(DerefProcs(j)')
    BY DEF Owed
  <2>2. TotalHeld(j)' \in Nat /\ Cardinality(DerefProcs(j)) \in Nat
    BY OwedNat
  <2>3. CASE j = k
    BY <1>3, <1>4, <2>1, <2>2, <2>3
  <2>4. CASE j # k
    BY <1>3, <1>5, <2>1, <2>4
  <2> QED
    BY <2>3, <2>4
<1>7. HeldType'
  <2>1. \A q \in Procs : q # p => held'[q] = held[q]
    BY <1>0, <1>1 DEF HeldType
  <2> QED
    BY <1>0, <1>2, <1>3, <2>1 DEF HeldType, Others
<1>8. Bounded'
  BY <1>0, <1>1, <1>6 DEF Bounded
<1>9. serial => Exact'
  BY <1>0, <1>1, <1>6 DEF Turns, Exact
<1>10. SmoothAt(p)'
  BY <1>2 DEF SmoothAt
<1>11. Turns'
  BY <1>0, <1>1, <1>2, <1>9, <1>10, TurnsKept
<1> QED
  BY <1>7, <1>8, <1>11 DEF Counts

(* A deref finds the entry, or none: then nothing counts its reference.    *)
LEMMA DerefLookupCounts ==
  ASSUME NEW p \in Procs, Counts, IInv', DerefLookup(p), serial' = serial
  PROVE  Counts'
<1> USE EntriesAssumption
<1>0. CacheType /\ HeldType /\ Bounded /\ Turns
  BY DEF Counts, IInv
<1>1. PICK m \in Keys : m = key[p]
  BY <1>0 DEF DerefLookup, CacheType
<1>2. map' = map /\ rc' = rc /\ held' = held /\ pc[p] = "deref" /\ Busy(p)
  BY DEF DerefLookup, Busy
<1>3. p \in DerefProcs(m)
  BY <1>1, <1>2 DEF DerefProcs
<1>4. \A j \in Keys : TotalHeld(j)' = TotalHeld(j)
  BY <1>2 DEF TotalHeld
<1>5. CASE map[m] = NoEntry
  <2>1. /\ pc' = [pc EXCEPT ![p] = "idle"] /\ key' = [key EXCEPT ![p] = NoKey]
        /\ ent' = [ent EXCEPT ![p] = NoEntry]
    BY <1>1, <1>5 DEF DerefLookup, Return, Goto
  <2>2. Others(p) /\ pc'[p] = "idle" /\ key'[p] = NoKey
    BY <1>0, <2>1 DEF Others, CacheType
  <2>3. ASSUME NEW j \in Keys, j # m PROVE Owed(j)' = Owed(j)
    <3>1. p \notin DerefProcs(j) /\ p \notin DerefProcs(j)'
      BY <1>1, <2>2, <2>3 DEF DerefProcs
    <3>2. DerefProcs(j)' = DerefProcs(j)
      BY <1>2, <2>2, <3>1, DerefsStay
    <3> QED
      BY <1>4, <3>2 DEF Owed
  <2>4. HeldType'
    BY <1>0, <1>2, <2>2 DEF HeldType, Others
  <2>5. Bounded'
    BY <1>0, <1>2, <1>5, <2>3 DEF Bounded
  <2>6. ~serial
    <3>1. Cardinality(DerefProcs(m)) # 0
      BY <1>3, FiniteProcs, FS_EmptySet DEF DerefProcs
    <3>2. Owed(m) # 0
      BY <3>1, OwedNat DEF Owed
    <3> QED
      BY <1>0, <1>5, <3>2 DEF Turns, Exact
  <2>7. Turns'
    BY <2>6 DEF Turns
  <2> QED
    BY <2>4, <2>5, <2>7 DEF Counts
<1>6. CASE map[m] # NoEntry
  <2>1. /\ pc' = [pc EXCEPT ![p] = "decrement"] /\ key' = [key EXCEPT ![p] = m]
        /\ ent' = [ent EXCEPT ![p] = map[m]]
    BY <1>1, <1>6 DEF DerefLookup, Goto
  <2>2. Others(p) /\ pc'[p] = "decrement" /\ key'[p] = m /\ ent'[p] = map[m]
    BY <1>0, <2>1 DEF Others, CacheType
  <2>3. \A j \in Keys : DerefProcs(j)' = DerefProcs(j)
    <3> SUFFICES ASSUME NEW j \in Keys PROVE DerefProcs(j)' = DerefProcs(j)
      OBVIOUS
    <3>1. p \in DerefProcs(j) <=> p \in DerefProcs(j)'
      BY <1>1, <1>2, <2>2 DEF DerefProcs
    <3> QED
      BY <1>2, <2>2, <3>1, DerefsStay
  <2>4. \A j \in Keys : Owed(j)' = Owed(j)
    BY <1>4, <2>3 DEF Owed
  <2>5. HeldType'
    BY <1>0, <1>2, <2>2 DEF HeldType, Others
  <2>6. Bounded'
    BY <1>0, <1>2, <2>4 DEF Bounded
  <2>7. serial => Exact'
    BY <1>0, <1>2, <2>4 DEF Turns, Exact
  <2>8. SmoothAt(p)'
    BY <1>2, <2>2 DEF SmoothAt
  <2>9. Turns'
    BY <1>0, <1>2, <2>2, <2>7, <2>8, TurnsKept
  <2> QED
    BY <2>5, <2>6, <2>9 DEF Counts
<1> QED
  BY <1>5, <1>6

(* The count goes down where the reference was owed, or at an entry that   *)
(* has left the map.                                                       *)
LEMMA DecrementCounts ==
  ASSUME NEW p \in Procs, Counts, IInv', DerefDecrement(p), serial' = serial
  PROVE  Counts'
<1> USE EntriesAssumption
<1>0. CacheType /\ HeldType /\ Bounded /\ Turns /\ LookedUp
  BY DEF Counts, IInv
<1>1. PICK m \in Keys : m = key[p]
  BY <1>0 DEF DerefDecrement, CacheType
<1>2. /\ map' = map /\ held' = held /\ pc[p] = "decrement" /\ Busy(p) /\ ent[p] \in Entries
      /\ rc' = [rc EXCEPT ![ent[p]] = @ - 1]
  BY <1>0 DEF DerefDecrement, Busy, CacheType
<1>3. /\ Others(p)
      /\ pc'[p] \in {"idle", "remove"}
      /\ pc'[p] = "remove" => key'[p] = m /\ rc[ent[p]] - 1 <= 0
  <2>1. CASE rc[ent[p]] - 1 <= 0 /\ ~DisableDeletion
    BY <1>0, <1>1, <2>1 DEF DerefDecrement, Goto, Others, CacheType
  <2>2. CASE ~(rc[ent[p]] - 1 <= 0 /\ ~DisableDeletion)
    BY <1>0, <1>1, <2>2 DEF DerefDecrement, Return, Goto, Others, CacheType
  <2> QED
    BY <2>1, <2>2
<1>4. \A j \in Keys : TotalHeld(j)' = TotalHeld(j)
  BY <1>2 DEF TotalHeld
<1>5. \A j \in Keys : p \notin DerefProcs(j)'
  BY <1>3 DEF DerefProcs
<1>6. \A j \in Keys : map[j] = ent[p] => j = m
  BY <1>0, <1>1, <1>2 DEF LookedUp
<1>7. ASSUME NEW j \in Keys
      PROVE  Owed(j)' = IF j = m /\ map[m] = ent[p] THEN Owed(j) - 1 ELSE Owed(j)
  <2>0. Owed(j) = TotalHeld(j) + Cardinality(DerefProcs(j)) /\ Owed(j)' = TotalHeld(j)' + Cardinality(DerefProcs(j)')
    BY DEF Owed
  <2>1. TotalHeld(j) \in Nat /\ Cardinality(DerefProcs(j)) \in Nat /\ Cardinality(DerefProcs(j)') \in Nat
    BY OwedNat
  <2>2. CASE j = m /\ map[m] = ent[p]
    <3>1. p \in DerefProcs(j)
      BY <1>1, <1>2, <2>2 DEF DerefProcs
    <3>2. Cardinality(DerefProcs(j)) = Cardinality(DerefProcs(j)') + 1
      BY <1>2, <1>3, <1>5, <3>1, DerefsLeave
    <3> QED
      BY <1>4, <2>0, <2>1, <2>2, <3>2
  <2>3. CASE ~(j = m /\ map[m] = ent[p])
    <3>1. p \notin DerefProcs(j)
      BY <1>1, <1>2, <2>3 DEF DerefProcs
    <3>2. DerefProcs(j)' = DerefProcs(j)
      BY <1>2, <1>3, <1>5, <3>1, DerefsStay
    <3> QED
      BY <1>4, <2>0, <2>3, <3>2
  <2> QED
    BY <2>2, <2>3
<1>8. \A j \in Keys : map[j] # NoEntry =>
        /\ rc[map[j]] \in Int
        /\ rc'[map[j]] = IF j = m /\ map[m] = ent[p] THEN rc[map[j]] - 1 ELSE rc[map[j]]
  BY <1>0, <1>2, <1>6 DEF CacheType
<1>9. \A j \in Keys : Owed(j) \in Nat /\ Owed(j)' \in Nat
  BY OwedNat
<1>10. HeldType'
  BY <1>0, <1>2, <1>3 DEF HeldType, Others
<1>11. Bounded'
  <2> SUFFICES ASSUME NEW j \in Keys, map[j] # NoEntry PROVE rc'[map[j]] <= Owed(j)'
    BY <1>2 DEF Bounded
  <2>1. rc[map[j]] <= Owed(j)
    BY <1>0 DEF Bounded
  <2> QED
    BY <1>7, <1>8, <1>9, <2>1
<1>12. ASSUME serial PROVE Exact' /\ SmoothAt(p)'
  <2>1. ent[p] = map[m] /\ map[m] # NoEntry
    BY <1>0, <1>1, <1>2, <1>12 DEF Turns, Smooth
  <2>2. Exact'
    <3> SUFFICES ASSUME NEW j \in Keys
                 PROVE  /\ map[j] = NoEntry => Owed(j)' = 0
                        /\ map[j] # NoEntry => rc'[map[j]] = Owed(j)'
      BY <1>2 DEF Exact
    <3>1. /\ map[j] = NoEntry => Owed(j) = 0
          /\ map[j] # NoEntry => rc[map[j]] = Owed(j)
      BY <1>0, <1>12 DEF Turns, Exact
    <3> QED
      BY <1>7, <1>8, <1>9, <2>1, <3>1
  <2>3. pc'[p] = "remove" => Owed(m)' = 0
    <3> SUFFICES ASSUME pc'[p] = "remove" PROVE Owed(m)' = 0
      OBVIOUS
    <3>1. rc'[map[m]] = Owed(m)'
      BY <1>2, <2>1, <2>2 DEF Exact
    <3>2. rc'[map[m]] = rc[ent[p]] - 1 /\ rc[ent[p]] - 1 <= 0
      BY <1>3, <1>8, <2>1
    <3>3. Owed(m)' \in Nat
      BY <1>9
    <3>4. \A x \in Nat : x <= 0 => x = 0
      OBVIOUS
    <3>5. Owed(m)' <= 0
      BY <3>1, <3>2
    <3> QED
      BY <3>3, <3>4, <3>5
  <2>4. pc'[p] = "remove" => Owed(key[p])' = 0
    <3>1. pc'[p] = "remove" => Owed(key[p])' = Owed(m)'
      <4>1. pc'[p] = "remove" => key'[p] = m
        BY <1>3
      <4> QED
        BY <4>1 DEF Owed, TotalHeld, DerefProcs
    <3> QED
      BY <2>3, <3>1
  <2> QED
    BY <1>3, <2>2, <2>4 DEF SmoothAt
<1>13. Turns'
  BY <1>0, <1>2, <1>3, <1>12, TurnsKept
<1> QED
  BY <1>10, <1>11, <1>13 DEF Counts

(* An entry is taken out of the map: callers that take turns owe it none.  *)
LEMMA RemoveCounts ==
  ASSUME NEW p \in Procs, Counts, IInv', DerefRemove(p), serial' = serial
  PROVE  Counts' /\ (serial /\ map[key[p]] # NoEntry => rc[map[key[p]]] <= 0)
<1> USE EntriesAssumption
<1>0. CacheType /\ HeldType /\ Bounded /\ Turns
  BY DEF Counts, IInv
<1>1. PICK m \in Keys : m = key[p]
  BY <1>0 DEF DerefRemove, CacheType
<1>2. /\ map' = [map EXCEPT ![m] = NoEntry] /\ rc' = rc /\ held' = held
      /\ pc[p] = "remove" /\ Busy(p)
      /\ pc' = [pc EXCEPT ![p] = "idle"] /\ key' = [key EXCEPT ![p] = NoKey]
      /\ ent' = [ent EXCEPT ![p] = NoEntry]
  BY <1>1 DEF DerefRemove, Return, Goto, Busy
<1>3. Others(p) /\ pc'[p] = "idle"
  BY <1>0, <1>2 DEF Others, CacheType
<1>4. \A j \in Keys : map'[j] = IF j = m THEN NoEntry ELSE map[j]
  BY <1>0, <1>2 DEF CacheType
<1>5. \A j \in Keys : j # m => Owed(j)' = Owed(j)
  BY <1>2, <1>3, <1>4, OwedSame
<1>6. HeldType'
  BY <1>0, <1>2, <1>3 DEF HeldType, Others
<1>7. Bounded'
  BY <1>0, <1>2, <1>4, <1>5 DEF Bounded
<1>8. SmoothAt(p)'
  BY <1>3 DEF SmoothAt
<1>9. ASSUME serial PROVE Exact' /\ Owed(m) = 0
  <2>1. Owed(m) = 0
    BY <1>0, <1>1, <1>2, <1>9 DEF Turns, Smooth
  <2>2. TotalHeld(m)' = 0
    <3>1. TotalHeld(m) = 0
      BY <2>1, OwedNat DEF Owed
    <3> QED
      BY <1>2, <3>1 DEF TotalHeld
  <2>3. DerefProcs(m)' = {}
    <3>1. \A q \in Procs : pc'[q] = "idle"
      BY <1>0, <1>2, <1>3, <1>9, Alone DEF Others
    <3> QED
      BY <3>1 DEF DerefProcs
  <2>4. Owed(m)' = 0
    BY <2>2, <2>3, FS_EmptySet DEF Owed
  <2>5. Exact'
    BY <1>0, <1>2, <1>4, <1>5, <1>9, <2>4 DEF Turns, Exact
  <2> QED
    BY <2>1, <2>5
<1>10. Turns'
  BY <1>0, <1>2, <1>3, <1>8, <1>9, TurnsKept
<1>11. serial /\ map[m] # NoEntry => rc[map[m]] <= 0
  <2> SUFFICES ASSUME serial, map[m] # NoEntry PROVE rc[map[m]] <= 0
    OBVIOUS
  <2>1. rc[map[m]] = Owed(m) /\ Owed(m) = 0
    BY <1>0, <1>9 DEF Turns, Exact
  <2> QED
    BY <2>1
<1> QED
  BY <1>1, <1>6, <1>7, <1>10, <1>11 DEF Counts

(* Every step of every caller keeps the counts.                            *)
LEMMA CountsStep ==
  ASSUME Counts, [Next]_vars
  PROVE  Counts'
<1> USE EntriesAssumption
<1>0. CacheType /\ HeldType /\ Bounded /\ Turns /\ LookedUp /\ OneKey /\ IInv
  BY DEF Counts, IInv
<1>i. IInv'
  BY <1>0, StepInv
<1>1. CASE UNCHANGED vars
  <2>1. \A k \in Keys : Owed(k)' = Owed(k)
    BY <1>1 DEF Owed, TotalHeld, DerefProcs, vars
  <2>2. HeldType' /\ Bounded'
    BY <1>0, <1>1, <2>1 DEF HeldType, Bounded, vars
  <2>3. Turns'
    <3> SUFFICES ASSUME serial PROVE OneBusy' /\ Smooth' /\ Exact'
      BY <1>1 DEF Turns, vars
    <3>1. OneBusy' /\ Exact'
      BY <1>0, <1>1, <2>1 DEF Turns, OneBusy, Busy, Exact, vars
    <3>2. Smooth'
      BY <1>0, <1>1 DEF Turns, Smooth, Owed, TotalHeld, DerefProcs, vars
    <3> QED
      BY <3>1, <3>2
  <2> QED
    BY <1>i, <2>2, <2>3 DEF Counts
<1>2. ASSUME NEW p \in Procs, ProcStep(p), serial' = serial PROVE Counts'
  <2>0. pc[p] \notin {"idle", "panicked"} => key[p] \in Keys /\ Busy(p)
    BY <1>0 DEF CacheType, Busy
  <2>1. ASSUME NEW k \in Keys, Acquire(p, k) PROVE Counts'
    <3>1. /\ UNCHANGED <<map, rc, held>> /\ Others(p) /\ Idle(p) /\ pc[p] = "idle"
          /\ pc'[p] = "acquire" /\ key'[p] = k /\ held[p][k] < MaxHeld
      BY <1>0, <2>1 DEF Acquire, Goto, Others, Idle, CacheType
    <3>2. HeldType' /\ SmoothAt(p)'
      BY <1>0, <1>2, <3>1 DEF HeldType, Others, SmoothAt
    <3> QED
      BY <1>i, <1>2, <3>1, <3>2, NothingCounted
  <2>2. ASSUME NEW k \in Keys, Ref(p, k) PROVE Counts'
    <3>1. /\ UNCHANGED <<map, rc, held>> /\ Others(p) /\ Idle(p) /\ pc[p] = "idle"
          /\ pc'[p] = "ref" /\ key'[p] = k
      BY <1>0, <2>2 DEF Ref, Goto, Others, Idle, CacheType
    <3>2. held[p][k] < MaxHeld /\ held[p][k] > 0
      BY <2>2, BoundAssumption DEF Ref
    <3>3. HeldType' /\ SmoothAt(p)'
      BY <1>0, <1>2, <3>1, <3>2 DEF HeldType, Others, SmoothAt
    <3> QED
      BY <1>i, <1>2, <3>1, <3>3, NothingCounted
  <2>3. ASSUME NEW k \in Keys, Deref(p, k) PROVE Counts'
    BY <1>i, <1>2, <2>3, DerefCounts
  <2>4. CASE AcquireLookup(p)
    <3>1. /\ UNCHANGED <<map, rc, held>> /\ Others(p) /\ Busy(p) /\ pc[p] = "acquire"
          /\ pc'[p] \in {"parse", "check"} /\ key'[p] = key[p] /\ ent'[p] = map[key[p]]
      BY <1>0, <2>4 DEF AcquireLookup, Goto, Others, Busy, CacheType
    <3>2. HeldType' /\ SmoothAt(p)'
      BY <1>0, <1>2, <3>1 DEF HeldType, Others, SmoothAt
    <3> QED
      BY <1>i, <1>2, <3>1, <3>2, NothingCounted
  <2>5. CASE AcquireExisting(p)
    <3>1. /\ ent[p] \in Entries /\ UNCHANGED map /\ pc[p] = "check" /\ ReturnHolding(p)
          /\ rc' = [rc EXCEPT ![ent[p]] = @ + 1]
      BY <1>0, <2>5 DEF AcquireExisting, CacheType
    <3>2. held[p][key[p]] < MaxHeld /\ key[p] \in Keys /\ Busy(p)
      BY <1>0, <2>0, <3>1 DEF HeldType
    <3>3. /\ \A k \in Keys : map[k] = ent[p] => k = key[p]
          /\ serial => map[key[p]] = ent[p]
      BY <1>0, <3>1 DEF LookedUp, Turns, Smooth
    <3> QED
      BY <1>i, <1>2, <3>1, <3>2, <3>3, ExistingCounted
  <2>6. CASE AcquireDead(p)
    <3>1. /\ UNCHANGED <<map, rc, held>> /\ Others(p) /\ Busy(p) /\ pc[p] = "check"
          /\ pc'[p] = "parse" /\ key'[p] = key[p]
      BY <1>0, <2>6 DEF AcquireDead, Goto, Others, Busy, CacheType
    <3>2. HeldType' /\ SmoothAt(p)'
      BY <1>0, <1>2, <3>1 DEF HeldType, Others, SmoothAt
    <3> QED
      BY <1>i, <1>2, <3>1, <3>2, NothingCounted
  <2>7. CASE AcquireParsed(p)
    <3>1. pc[p] = "parse" /\ ReturnHolding(p)
      BY <2>7 DEF AcquireParsed
    <3>2. held[p][key[p]] < MaxHeld /\ key[p] \in Keys /\ Busy(p)
      BY <1>0, <2>0, <3>1 DEF HeldType
    <3>3. CASE map[key[p]] # NoEntry /\ Usable(map[key[p]])
      <4>1. /\ map[key[p]] \in Entries /\ UNCHANGED map
            /\ rc' = [rc EXCEPT ![map[key[p]]] = @ + 1]
        BY <1>0, <2>7, <3>2, <3>3 DEF AcquireParsed, CacheType
      <4>2. \A k \in Keys : map[k] = map[key[p]] => k = key[p]
        BY <1>0, <3>2, <3>3 DEF OneKey
      <4> QED
        BY <1>i, <1>2, <3>1, <3>2, <4>1, <4>2, ExistingCounted
    <3>4. CASE ~(map[key[p]] # NoEntry /\ Usable(map[key[p]]))
      <4>1. InsertFresh(p)
        BY <2>7, <3>4 DEF AcquireParsed
      <4>2. serial => map[key[p]] = NoEntry
        BY <3>1, <3>2, <3>4, NoneDead
      <4> QED
        BY <1>i, <1>2, <3>1, <3>2, <4>1, <4>2, FreshCounted
    <3> QED
      BY <3>3, <3>4
  <2>8. CASE RefLookup(p)
    <3>1. /\ UNCHANGED <<map, rc, held>> /\ Others(p) /\ Busy(p) /\ pc[p] = "ref"
          /\ pc'[p] = "refCheck" /\ key'[p] = key[p] /\ ent'[p] = map[key[p]]
      BY <1>0, <2>8 DEF RefLookup, Goto, Others, Busy, CacheType
    <3>2. HeldType' /\ SmoothAt(p)'
      BY <1>0, <1>2, <3>1 DEF HeldType, Others, SmoothAt
    <3> QED
      BY <1>i, <1>2, <3>1, <3>2, NothingCounted
  <2>9. CASE RefNotFound(p)
    <3>1. /\ UNCHANGED <<map, rc, held>> /\ Others(p) /\ Busy(p) /\ pc[p] = "ref"
          /\ pc'[p] = "panicked" /\ map[key[p]] = NoEntry /\ key[p] \in Keys
      BY <1>0, <2>0, <2>9 DEF RefNotFound, Goto, Others, Busy, CacheType
    <3>2. HeldType'
      BY <1>0, <1>2, <3>1 DEF HeldType, Others
    <3>3. ~serial
      <4> SUFFICES ASSUME serial PROVE FALSE
        OBVIOUS
      <4>1. held[p][key[p]] > 0 /\ Owed(key[p]) = 0
        BY <1>0, <3>1 DEF Turns, Smooth, Exact
      <4>2. TotalHeld(key[p]) >= 1
        BY <1>0, <3>1, <4>1, HeldIsTotal
      <4>3. TotalHeld(key[p]) \in Nat /\ Cardinality(DerefProcs(key[p])) \in Nat
        BY OwedNat
      <4> QED
        BY <4>1, <4>2, <4>3 DEF Owed
    <3> QED
      BY <1>i, <1>2, <3>1, <3>2, <3>3, NothingCounted
  <2>10. CASE RefExisting(p)
    <3>1. /\ ent[p] \in Entries /\ UNCHANGED map /\ pc[p] = "refCheck" /\ ReturnHolding(p)
          /\ rc' = [rc EXCEPT ![ent[p]] = @ + 1]
      BY <1>0, <2>10 DEF RefExisting, CacheType
    <3>2. held[p][key[p]] < MaxHeld /\ key[p] \in Keys /\ Busy(p)
      BY <1>0, <2>0, <3>1 DEF HeldType
    <3>3. /\ \A k \in Keys : map[k] = ent[p] => k = key[p]
          /\ serial => map[key[p]] = ent[p]
      BY <1>0, <3>1 DEF LookedUp, Turns, Smooth
    <3> QED
      BY <1>i, <1>2, <3>1, <3>2, <3>3, ExistingCounted
  <2>11. CASE RefDead(p)
    <3>1. /\ UNCHANGED <<map, rc, held>> /\ Others(p) /\ Busy(p) /\ pc[p] = "refCheck"
          /\ pc'[p] = "refInsert" /\ key'[p] = key[p] /\ ~Usable(ent[p]) /\ ent[p] \in Entries
          /\ key[p] \in Keys
      BY <1>0, <2>0, <2>11 DEF RefDead, Goto, Others, Busy, CacheType
    <3>2. HeldType'
      BY <1>0, <1>2, <3>1 DEF HeldType, Others
    <3>3. ~serial
      <4> SUFFICES ASSUME serial PROVE FALSE
        OBVIOUS
      <4>1. map[key[p]] = ent[p]
        BY <1>0, <3>1 DEF Turns, Smooth
      <4> QED
        BY <3>1, <4>1, NoneDead
    <3> QED
      BY <1>i, <1>2, <3>1, <3>2, <3>3, NothingCounted
  <2>12. CASE RefInsert(p)
    <3>1. pc[p] = "refInsert" /\ InsertFresh(p) /\ ReturnHolding(p)
      BY <2>12 DEF RefInsert
    <3>2. held[p][key[p]] < MaxHeld /\ key[p] \in Keys /\ Busy(p)
      BY <1>0, <2>0, <3>1 DEF HeldType
    <3>3. ~serial
      BY <1>0, <3>1 DEF Turns, Smooth
    <3> QED
      BY <1>i, <1>2, <3>1, <3>2, <3>3, FreshCounted
  <2>13. CASE DerefLookup(p)
    BY <1>i, <1>2, <2>13, DerefLookupCounts
  <2>14. CASE DerefDecrement(p)
    BY <1>i, <1>2, <2>14, DecrementCounts
  <2>15. CASE DerefRemove(p)
    BY <1>i, <1>2, <2>15, RemoveCounts
  <2> QED
    BY <1>2, <2>1, <2>2, <2>3, <2>4, <2>5, <2>6, <2>7, <2>8, <2>9, <2>10,
       <2>11, <2>12, <2>13, <2>14, <2>15 DEF ProcStep
<1> QED
  BY <1>1, <1>2 DEF Next

(* The initial cache is empty and nothing is held.                         *)
LEMMA CountsInit ==
  ASSUME Init
  PROVE  Counts
<1> USE EntriesAssumption
<1>1. IInv
  BY DEF Init, IInv, CacheType, OneKey, LookedUp, NoZombie, Step
<1>2. HeldType
  BY BoundAssumption DEF Init, HeldType
<1>3. Bounded
  BY DEF Init, Bounded
<1>4. \A k \in Keys : Owed(k) = 0
  <2> SUFFICES ASSUME NEW k \in Keys PROVE Owed(k) = 0
    OBVIOUS
  <2>1. DerefProcs(k) = {}
    BY DEF Init, DerefProcs
  <2>2. HeldRefs(k) = {}
    <3>1. ASSUME NEW r \in Procs \X (1 .. MaxHeld) PROVE ~(r[2] <= held[r[1]][k])
      <4>1. r[1] \in Procs /\ r[2] \in 1 .. MaxHeld
        OBVIOUS
      <4>2. held[r[1]][k] = 0
        BY <4>1 DEF Init
      <4>3. r[2] \in Nat /\ r[2] >= 1
        BY <4>1
      <4>4. \A x \in Nat : x >= 1 => ~(x <= 0)
        OBVIOUS
      <4> QED
        BY <4>2, <4>3, <4>4
    <3> QED
      BY <3>1 DEF HeldRefs
  <2>3. TotalHeld(k) = Cardinality(HeldRefs(k))
    BY DEF TotalHeld, HeldRefs
  <2> QED
    BY <2>1, <2>2, <2>3, FS_EmptySet DEF Owed
<1>5. OneBusy /\ Smooth
  BY DEF Init, OneBusy, Busy, Smooth
<1>6. Exact
  BY <1>4 DEF Init, Exact
<1> QED
  BY <1>1, <1>2, <1>3, <1>5, <1>6 DEF Counts, Turns

(* What the counts say when no operation is under way.                     *)
LEMMA CountsWhenQuiet ==
  ASSUME Counts
  PROVE  HeldIsCached
<1> USE EntriesAssumption
<1>0. CacheType /\ HeldType /\ Bounded /\ Turns /\ NoZombie
  BY DEF Counts, IInv
<1>1. TypeOK
  BY <1>0 DEF TypeOK, CacheType, HeldType
<1>2. ASSUME Quiet PROVE \A k \in Keys : Owed(k) = TotalHeld(k) /\ TotalHeld(k) \in Nat
  <2> SUFFICES ASSUME NEW k \in Keys PROVE Owed(k) = TotalHeld(k) /\ TotalHeld(k) \in Nat
    OBVIOUS
  <2>1. DerefProcs(k) = {}
    BY <1>2 DEF Quiet, DerefProcs
  <2>2. TotalHeld(k) \in Nat
    BY OwedNat
  <2> QED
    BY <2>1, <2>2, FS_EmptySet DEF Owed
<1>3. ASSUME Quiet, ~DisableDeletion, NEW k \in Keys, map[k] # NoEntry PROVE rc[map[k]] > 0
  <2>1. rc[map[k]] \in Int
    BY <1>0, <1>3 DEF CacheType
  <2> QED
    BY <1>0, <1>3, <2>1 DEF NoZombie, Quiet
<1>4. ASSUME serial, Quiet
      PROVE  /\ \A p \in Procs : pc[p] # "panicked"
             /\ \A k \in Keys :
                  /\ map[k] = NoEntry => TotalHeld(k) = 0
                  /\ map[k] # NoEntry => rc[map[k]] = TotalHeld(k)
                  /\ map[k] # NoEntry /\ ~DisableDeletion => TotalHeld(k) > 0
  <2>1. \A p \in Procs : pc[p] # "panicked"
    BY <1>0, <1>4 DEF Turns, Smooth
  <2>2. \A k \in Keys : /\ map[k] = NoEntry => TotalHeld(k) = 0
                        /\ map[k] # NoEntry => rc[map[k]] = TotalHeld(k)
    BY <1>0, <1>2, <1>4 DEF Turns, Exact
  <2>3. \A k \in Keys : map[k] # NoEntry /\ ~DisableDeletion => TotalHeld(k) > 0
    BY <1>3, <1>4, <2>2
  <2> QED
    BY <2>1, <2>2, <2>3
<1>5. ASSUME Quiet, ~DisableDeletion, \A k \in Keys : TotalHeld(k) = 0, NEW k \in Keys
      PROVE  map[k] = NoEntry
  <2> SUFFICES ASSUME map[k] # NoEntry PROVE FALSE
    OBVIOUS
  <2>1. rc[map[k]] > 0
    BY <1>3, <1>5
  <2>2. rc[map[k]] <= 0
    BY <1>0, <1>2, <1>5 DEF Bounded
  <2>3. rc[map[k]] \in Int
    BY <1>0 DEF CacheType
  <2> QED
    BY <2>1, <2>2, <2>3
<1> QED
  BY <1>1, <1>4, <1>5 DEF HeldIsCached

(* The entry a deref is about to remove is dead.                           *)
Dying ==
  \A p \in Procs : pc[p] = "remove" => ent[p] \in Entries /\ rc[ent[p]] <= 0 /\ ~DisableDeletion

(* A dead entry stays dead while a deref keeps it: a count is raised only  *)
(* when it is positive, and a fresh entry is not one that is kept.         *)
LEMMA DyingStep ==
  ASSUME IInv, Dying, [Next]_vars
  PROVE  Dying'
<1>0. CacheType
  BY DEF IInv
<1>1. ASSUME NEW p \in Procs, NEW q \in Procs, ProcStep(p), pc'[q] = "remove", pc[q] = "remove"
      PROVE  ent'[q] \in Entries /\ rc'[ent'[q]] <= 0
  <2>1. ent[q] \in Entries /\ rc[ent[q]] <= 0 /\ ~Usable(ent[q]) /\ rc[ent[q]] \in Int
    BY <1>0, <1>1 DEF Dying, Usable, CacheType
  <2>2. CASE p = q
    BY <1>0, <1>1, <2>1, <2>2 DEF ProcStep, Acquire, Ref, Deref, Idle, AcquireLookup, AcquireExisting,
       AcquireDead, AcquireParsed, RefLookup, RefNotFound, RefExisting, RefDead, RefInsert,
       DerefLookup, DerefDecrement, DerefRemove, Return, ReturnHolding, Goto, CacheType
  <2>3. CASE p # q
    <3>1. ent'[q] = ent[q]
      BY <1>0, <1>1, <2>3 DEF ProcStep, Acquire, Ref, Deref, AcquireLookup, AcquireExisting,
         AcquireDead, AcquireParsed, RefLookup, RefNotFound, RefExisting, RefDead, RefInsert,
         DerefLookup, DerefDecrement, DerefRemove, Return, ReturnHolding, Goto, CacheType
    <3>2. CASE InsertFresh(p)
      BY <1>0, <2>1, <3>1, <3>2 DEF InsertFresh, Referenced, CacheType
    <3>3. CASE AcquireExisting(p) \/ RefExisting(p)
      BY <1>0, <2>1, <3>1, <3>3 DEF AcquireExisting, RefExisting, CacheType
    <3>4. CASE AcquireParsed(p) /\ ~InsertFresh(p)
      <4>1. Usable(map[key[p]]) /\ rc' = [rc EXCEPT ![map[key[p]]] = @ + 1]
        BY <3>4 DEF AcquireParsed
      <4> QED
        BY <1>0, <2>1, <3>1, <4>1 DEF CacheType
    <3>5. CASE DerefDecrement(p)
      <4>1. rc' = [rc EXCEPT ![ent[p]] = @ - 1]
        BY <3>5 DEF DerefDecrement
      <4> QED
        BY <1>0, <2>1, <3>1, <4>1 DEF CacheType
    <3>6. CASE rc' = rc
      BY <2>1, <3>1, <3>6
    <3> QED
      BY <1>1, <3>2, <3>3, <3>4, <3>5, <3>6 DEF ProcStep, Acquire, Ref, Deref, AcquireLookup,
         AcquireDead, RefLookup, RefNotFound, RefDead, RefInsert, DerefLookup, DerefRemove
  <2> QED
    BY <2>2, <2>3
<1>2. ASSUME NEW p \in Procs, NEW q \in Procs, ProcStep(p), pc'[q] = "remove", pc[q] # "remove"
      PROVE  ent'[q] \in Entries /\ rc'[ent'[q]] <= 0 /\ ~DisableDeletion
  <2>1. p = q /\ DerefDecrement(p)
    BY <1>0, <1>2 DEF ProcStep, Acquire, Ref, Deref, AcquireLookup, AcquireExisting,
       AcquireDead, AcquireParsed, RefLookup, RefNotFound, RefExisting, RefDead, RefInsert,
       DerefLookup, DerefDecrement, DerefRemove, Return, ReturnHolding, Goto, CacheType
  <2>2. ent[p] \in Entries /\ rc[ent[p]] \in Int /\ ent'[p] = ent[p]
    BY <1>0, <1>2, <2>1 DEF DerefDecrement, Return, Goto, CacheType
  <2>3. rc[ent[p]] - 1 <= 0 /\ ~DisableDeletion /\ rc' = [rc EXCEPT ![ent[p]] = @ - 1]
    BY <1>0, <1>2, <2>1 DEF DerefDecrement, Return, Goto, CacheType
  <2> QED
    BY <1>0, <2>1, <2>2, <2>3 DEF CacheType
<1>3. CASE UNCHANGED vars
  BY <1>3 DEF Dying, vars
<1>4. ASSUME NEW p \in Procs, ProcStep(p) PROVE Dying'
  BY <1>1, <1>2, <1>4 DEF Dying
<1> QED
  BY <1>3, <1>4 DEF Next

(* A step takes an entry out of the map only by a deref's removal; one     *)
(* that is still counted is not the one the deref saw die, and callers     *)
(* that take turns remove none.                                            *)
LEMMA LiveKeptStep ==
  ASSUME Counts, Dying, Next, NEW k \in Keys, map[k] # NoEntry, map'[k] = NoEntry,
         rc[map[k]] > 0
  PROVE  /\ ~serial
         /\ \E p \in Procs : /\ pc[p] = "remove" /\ pc'[p] = "idle"
                            /\ key[p] = k /\ ent[p] \notin {NoEntry, map[k]}
<1> USE EntriesAssumption
<1>0. CacheType /\ IInv
  BY DEF Counts, IInv
<1>1. PICK p \in Procs : ProcStep(p) /\ serial' = serial
  BY DEF Next
<1>2. IInv'
  BY <1>0, StepInv
<1>3. map' # map
  OBVIOUS
<1>4. DerefRemove(p)
  <2>1. ~InsertFresh(p)
    <3> SUFFICES ASSUME InsertFresh(p) PROVE FALSE
      OBVIOUS
    <3>1. PICK e \in Entries : map' = [map EXCEPT ![key[p]] = e]
      BY DEF InsertFresh
    <3>2. map'[k] # NoEntry
      BY <1>0, <3>1 DEF CacheType
    <3> QED
      BY <3>2
  <2> QED
    BY <1>1, <1>3, <2>1
       DEF ProcStep, Acquire, Ref, Deref, AcquireLookup, AcquireExisting, AcquireDead,
           AcquireParsed, RefLookup, RefNotFound, RefExisting, RefDead, RefInsert,
           DerefLookup, DerefDecrement
<1>5. key[p] = k
  BY <1>0, <1>4 DEF DerefRemove, CacheType
<1>6. ~serial
  <2>1. rc[map[k]] \in Int
    BY <1>0 DEF CacheType
  <2> QED
    BY <1>1, <1>2, <1>4, <1>5, <2>1, RemoveCounts
<1>7. pc[p] = "remove" /\ pc'[p] = "idle" /\ ent[p] \notin {NoEntry, map[k]}
  BY <1>0, <1>4 DEF DerefRemove, Return, Goto, CacheType, Dying
<1> QED
  BY <1>5, <1>6, <1>7

(* Callers that take turns, any number of them and of keys: between their  *)
(* operations the count of a cached entry is the number of references held *)
(* to its key, a key nobody holds is not cached, and no ref finds its      *)
(* entry missing.  And however acquire, ref and deref interleave, nothing  *)
(* stays cached once all is given back.                                    *)
THEOREM HeldReferencesAreCounted == Spec => []HeldIsCached
<1>1. Init => Counts
  BY CountsInit
<1>2. Counts /\ [Next]_vars => Counts'
  BY CountsStep
<1>3. Counts => HeldIsCached
  BY CountsWhenQuiet
<1> QED
  BY <1>1, <1>2, <1>3, PTL DEF Spec

(* An entry that is still counted leaves the map only when a deref that saw*)
(* the key's former entry die removes the one put in its place meanwhile,  *)
(* and never when callers take turns.                                      *)
THEOREM LiveEntriesAreKept == Spec => LiveEntryKept
<1>1. Init => Counts /\ Dying
  BY CountsInit DEF Init, Dying
<1>2. Counts /\ Dying /\ [Next]_vars => Counts' /\ Dying'
  BY CountsStep, DyingStep DEF Counts
<1>3. Counts /\ Dying /\ [Next]_vars =>
        [\A k \in Keys :
           map[k] # NoEntry /\ map'[k] = NoEntry /\ rc[map[k]] > 0
             => /\ ~serial
                /\ \E p \in Procs : /\ pc[p] = "remove" /\ pc'[p] = "idle"
                                   /\ key[p] = k /\ ent[p] \notin {NoEntry, map[k]}]_vars
  BY LiveKeptStep
<1> QED
  BY <1>1, <1>2, <1>3, PTL DEF Spec, LiveEntryKept
=============================================================================
