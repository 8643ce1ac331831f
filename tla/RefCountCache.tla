---------------------------- MODULE RefCountCache ----------------------------
(***************************************************************************)
(* The reference-counted cache behind the language server's parse cache    *)
(* (crates/ts-project/src/refcountcache.rs).  The map from keys to entries *)
(* has one lock and every entry has its own; an operation takes them in    *)
(* several steps and holds neither in between.  Each action is one such    *)
(* step.  An entry is named by an id (the Arc); an id is used again once   *)
(* neither the map nor an operation in progress refers to it.              *)
(***************************************************************************)
EXTENDS Integers, FiniteSets

CONSTANTS
  Procs,             \* callers of the cache
  Keys,              \* identities
  Entries,           \* ids for entries
  NoEntry,           \* no entry
  NoKey,             \* no operation's key
  MaxHeld,           \* bound: references a caller holds to one key
  DisableDeletion    \* RefCountCacheOptions.disable_deletion

ASSUME ProcsAssumption   == IsFiniteSet(Procs)
ASSUME EntriesAssumption == NoEntry \notin Entries /\ NoKey \notin Keys
ASSUME BoundAssumption   == MaxHeld \in Nat \ {0}
ASSUME OptionsAssumption == DisableDeletion \in BOOLEAN

VARIABLES
  map,     \* the entries map: the entry of a key, or NoEntry
  rc,      \* ref_count of an entry
  pc,      \* the step a caller is at
  key,     \* the key of its operation
  ent,     \* the entry its operation has looked up
  held,    \* references it has acquired and not given back
  serial   \* callers take turns, as the snapshots of one session do

vars == <<map, rc, pc, key, ent, held, serial>>

Step == {"idle", "acquire", "check", "parse", "ref", "refCheck", "refInsert",
         "deref", "decrement", "remove", "panicked"}

(* The types of the cache's and the callers' state; an operation past its  *)
(* lookup has an entry.                                                    *)
TypeOK ==
  /\ map \in [Keys -> Entries \cup {NoEntry}]
  /\ rc \in [Entries -> Int]
  /\ pc \in [Procs -> Step]
  /\ key \in [Procs -> Keys \cup {NoKey}]
  /\ ent \in [Procs -> Entries \cup {NoEntry}]
  /\ held \in [Procs -> [Keys -> 0 .. MaxHeld]]
  /\ serial \in BOOLEAN
  /\ \A p \in Procs : pc[p] \in {"check", "refCheck", "decrement"} => ent[p] \in Entries

Init ==
  /\ map = [k \in Keys |-> NoEntry]
  /\ rc = [e \in Entries |-> 0]
  /\ pc = [p \in Procs |-> "idle"]
  /\ key = [p \in Procs |-> NoKey]
  /\ ent = [p \in Procs |-> NoEntry]
  /\ held = [p \in Procs |-> [k \in Keys |-> 0]]
  /\ serial \in BOOLEAN

Idle(p) == pc[p] = "idle" /\ (serial => \A q \in Procs : pc[q] \in {"idle", "panicked"})

(* ref_count > 0 || options.disable_deletion                               *)
Usable(e) == rc[e] > 0 \/ DisableDeletion

Referenced(e) == (\E k \in Keys : map[k] = e) \/ (\E p \in Procs : ent[p] = e)

Goto(p, s, k, e) ==
  /\ pc' = [pc EXCEPT ![p] = s]
  /\ key' = [key EXCEPT ![p] = k]
  /\ ent' = [ent EXCEPT ![p] = e]

Return(p) == Goto(p, "idle", NoKey, NoEntry)

(* The caller leaves with a reference to its key.                          *)
ReturnHolding(p) ==
  /\ Return(p)
  /\ held' = [held EXCEPT ![p][key[p]] = @ + 1]

(* entries.insert(identity, a new entry with ref_count 1)                  *)
InsertFresh(p) ==
  \E e \in Entries :
    /\ ~Referenced(e)
    /\ map' = [map EXCEPT ![key[p]] = e]
    /\ rc' = [rc EXCEPT ![e] = 1]

-----------------------------------------------------------------------------
(* acquire                                                                 *)
Acquire(p, k) ==
  /\ Idle(p) /\ held[p][k] < MaxHeld
  /\ Goto(p, "acquire", k, NoEntry)
  /\ UNCHANGED <<map, rc, held>>

AcquireLookup(p) ==
  /\ pc[p] = "acquire"
  /\ LET e == map[key[p]] IN
     Goto(p, IF e = NoEntry THEN "parse" ELSE "check", key[p], e)
  /\ UNCHANGED <<map, rc, held>>

(* A plausible bug: the count of the entry found is not looked at.         *)
AcquireAny(p) ==
  /\ pc[p] = "check"
  /\ rc' = [rc EXCEPT ![ent[p]] = @ + 1]
  /\ ReturnHolding(p)
  /\ UNCHANGED map

AcquireExisting(p) ==
  /\ pc[p] = "check" /\ Usable(ent[p])
  /\ rc' = [rc EXCEPT ![ent[p]] = @ + 1]
  /\ ReturnHolding(p)
  /\ UNCHANGED map

AcquireDead(p) ==
  /\ pc[p] = "check" /\ ~Usable(ent[p])
  /\ Goto(p, "parse", key[p], NoEntry)
  /\ UNCHANGED <<map, rc, held>>

(* After parsing: look again under the map lock, and insert.               *)
AcquireParsed(p) ==
  /\ pc[p] = "parse"
  /\ LET e == map[key[p]] IN
     IF e # NoEntry /\ Usable(e)
     THEN rc' = [rc EXCEPT ![e] = @ + 1] /\ UNCHANGED map
     ELSE InsertFresh(p)
  /\ ReturnHolding(p)

-----------------------------------------------------------------------------
(* ref, by a caller that holds a reference                                 *)
Ref(p, k) ==
  /\ Idle(p) /\ held[p][k] \in 1 .. MaxHeld - 1
  /\ Goto(p, "ref", k, NoEntry)
  /\ UNCHANGED <<map, rc, held>>

RefLookup(p) ==
  /\ pc[p] = "ref" /\ map[key[p]] # NoEntry
  /\ Goto(p, "refCheck", key[p], map[key[p]])
  /\ UNCHANGED <<map, rc, held>>

(* panic!("cache entry not found")                                         *)
RefNotFound(p) ==
  /\ pc[p] = "ref" /\ map[key[p]] = NoEntry
  /\ Goto(p, "panicked", NoKey, NoEntry)
  /\ UNCHANGED <<map, rc, held>>

(* A plausible bug: a ref that is not counted.                             *)
RefExistingUncounted(p) ==
  /\ pc[p] = "refCheck" /\ Usable(ent[p])
  /\ ReturnHolding(p)
  /\ UNCHANGED <<map, rc>>

RefExisting(p) ==
  /\ pc[p] = "refCheck" /\ Usable(ent[p])
  /\ rc' = [rc EXCEPT ![ent[p]] = @ + 1]
  /\ ReturnHolding(p)
  /\ UNCHANGED map

RefDead(p) ==
  /\ pc[p] = "refCheck" /\ ~Usable(ent[p])
  /\ Goto(p, "refInsert", key[p], NoEntry)
  /\ UNCHANGED <<map, rc, held>>

RefInsert(p) ==
  /\ pc[p] = "refInsert"
  /\ InsertFresh(p)
  /\ ReturnHolding(p)

-----------------------------------------------------------------------------
(* deref: the caller gives a reference back.  It keeps the Arc of the entry*)
(* it found until it returns.                                              *)
Deref(p, k) ==
  /\ Idle(p) /\ held[p][k] > 0
  /\ held' = [held EXCEPT ![p][k] = @ - 1]
  /\ Goto(p, "deref", k, NoEntry)
  /\ UNCHANGED <<map, rc>>

DerefLookup(p) ==
  /\ pc[p] = "deref"
  /\ LET e == map[key[p]] IN
     IF e = NoEntry THEN Return(p) ELSE Goto(p, "decrement", key[p], e)
  /\ UNCHANGED <<map, rc, held>>

(* A plausible bug: the count at which an entry is deleted is off by one.  *)
DerefDecrementLate(p) ==
  /\ pc[p] = "decrement"
  /\ rc' = [rc EXCEPT ![ent[p]] = @ - 1]
  /\ IF rc[ent[p]] - 1 < 0 /\ ~DisableDeletion
     THEN Goto(p, "remove", key[p], ent[p])
     ELSE Return(p)
  /\ UNCHANGED <<map, held>>

DerefDecrement(p) ==
  /\ pc[p] = "decrement"
  /\ rc' = [rc EXCEPT ![ent[p]] = @ - 1]
  /\ IF rc[ent[p]] - 1 <= 0 /\ ~DisableDeletion
     THEN Goto(p, "remove", key[p], ent[p])
     ELSE Return(p)
  /\ UNCHANGED <<map, held>>

DerefRemove(p) ==
  /\ pc[p] = "remove"
  /\ map' = [map EXCEPT ![key[p]] = NoEntry]
  /\ Return(p)
  /\ UNCHANGED <<rc, held>>

ProcStep(p) ==
  \/ \E k \in Keys : Acquire(p, k) \/ Ref(p, k) \/ Deref(p, k)
  \/ AcquireLookup(p) \/ AcquireExisting(p) \/ AcquireDead(p) \/ AcquireParsed(p)
  \/ RefLookup(p) \/ RefNotFound(p) \/ RefExisting(p) \/ RefDead(p) \/ RefInsert(p)
  \/ DerefLookup(p) \/ DerefDecrement(p) \/ DerefRemove(p)

Next == \E p \in Procs : ProcStep(p) /\ UNCHANGED serial

Spec == Init /\ [][Next]_vars

-----------------------------------------------------------------------------
(* References to k that callers hold.                                      *)
TotalHeld(k) == Cardinality({r \in Procs \X (1 .. MaxHeld) : r[2] <= held[r[1]][k]})

Quiet == \A p \in Procs : pc[p] \in {"idle", "panicked"}

(* Callers that take turns: between their operations a key is cached       *)
(* exactly when somebody holds it (or once held it, if deletion is         *)
(* disabled), its count is the number of references held, and no ref has   *)
(* met "cache entry not found".  However they interleave, nothing is       *)
(* cached once every reference has been given back.  (The variables have   *)
(* their types throughout.)                                                *)
HeldIsCached ==
  /\ TypeOK
  /\ serial /\ Quiet =>
       /\ \A p \in Procs : pc[p] # "panicked"
       /\ \A k \in Keys :
            /\ map[k] = NoEntry => TotalHeld(k) = 0
            /\ map[k] # NoEntry => rc[map[k]] = TotalHeld(k)
            /\ map[k] # NoEntry /\ ~DisableDeletion => TotalHeld(k) > 0
  /\ Quiet /\ ~DisableDeletion /\ (\A k \in Keys : TotalHeld(k) = 0)
       => \A k \in Keys : map[k] = NoEntry

(* An entry that is still counted leaves the map in one way only, and not  *)
(* when callers take turns: a deref has seen the key's former entry die,   *)
(* and before it removes the key a ref or an acquire that found that entry *)
(* dead has put a new one in its place.  The entry a deref saw die never   *)
(* comes back to life.                                                     *)
LiveEntryKept ==
  [][\A k \in Keys :
       map[k] # NoEntry /\ map'[k] = NoEntry /\ rc[map[k]] > 0
         => /\ ~serial
            /\ \E p \in Procs : /\ pc[p] = "remove" /\ pc'[p] = "idle"
                               /\ key[p] = k /\ ent[p] \notin {NoEntry, map[k]}]_vars

(* A dead entry stays in the map only while the deref that killed it is on *)
(* its way to remove it, however the callers interleave.                   *)
NoZombie ==
  \A k \in Keys :
    map[k] # NoEntry /\ rc[map[k]] <= 0 /\ ~DisableDeletion
      => \E p \in Procs : pc[p] = "remove" /\ key[p] = k

=============================================================================
