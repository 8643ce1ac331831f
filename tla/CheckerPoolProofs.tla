-------------------------- MODULE CheckerPoolProofs --------------------------
(***************************************************************************)
(* Proofs about CheckerPool, for any number of threads, slots, files,      *)
(* requests and diagnostics and any nesting depth.                         *)
(***************************************************************************)
EXTENDS CheckerPool, WellFoundedInduction, FiniteSetTheorems, TLAPS

-----------------------------------------------------------------------------
(* Facts about the operators.                                              *)

(* Every non-empty set of naturals has a least element, so position() in   *)
(* acquire_checker_slot finds a slot when one is inactive.                 *)
LEMMA LeastNatural ==
  ASSUME NEW S \in SUBSET Nat, S # {}
  PROVE  \E m \in S : \A k \in S : m <= k
<1> DEFINE R == OpToRel(<, Nat)
<1>1. IsWellFoundedOn(R, Nat)
  BY NatLessThanWellFounded
<1>2. \A x, y \in Nat : x < y => <<x, y>> \in R
  BY DEF OpToRel
<1> HIDE DEF R
<1>3. PICK x \in S : \A y \in S : ~ (<<y, x>> \in R)
  BY <1>1, WFMin
<1>4. \A y \in S : ~ (y < x)
  BY <1>2, <1>3
<1>5. \A y \in S : x <= y
  BY <1>4
<1>6. QED
  BY <1>5

(* The outer and inner calls of a call.                                    *)
LEMMA CallNesting ==
  ASSUME NEW c \in Calls
  PROVE  /\ c[2] > 1 => /\ Outer(c) \in Calls
                        /\ Outer(c) # c
                        /\ Outer(c)[2] < MaxDepth
                        /\ Inner(Outer(c)) = c
         /\ c[2] < MaxDepth => /\ Inner(c) \in Calls
                               /\ Inner(c)[2] > 1
                               /\ Outer(Inner(c)) = c
         /\ c[2] \in 1 .. MaxDepth
  BY MaxDepthAssumption DEF Calls, Outer, Inner

(* FirstInactive is an inactive slot unless every slot is active.          *)
LEMMA FirstInactiveFree ==
  ASSUME TypeOK
  PROVE  \/ FirstInactive = NoSlot /\ \A s \in Slots : active[s]
         \/ FirstInactive \in Slots /\ ~active[FirstInactive]
<1>1. CASE \A s \in Slots : active[s]
  BY <1>1 DEF FirstInactive
<1>2. CASE ~ \A s \in Slots : active[s]
  <2> DEFINE Free == {s \in Slots : ~active[s]}
  <2>1. Free \in SUBSET Nat /\ Free # {}
    BY <1>2, MaxCheckersAssumption DEF Slots
  <2>2. PICK m \in Free : \A k \in Free : m <= k
    BY <2>1, LeastNatural
  <2>3. m \in Slots /\ ~active[m] /\ \A q \in Slots : q < m => active[q]
    BY <2>2, MaxCheckersAssumption DEF Slots
  <2>4. QED
    BY <1>2, <2>3 DEF FirstInactive
<1>3. QED
  BY <1>1, <1>2

(* A slot an acquire loop takes is inactive.                               *)
LEMMA ChosenFree ==
  ASSUME TypeOK, NEW c \in Calls
  PROVE  /\ Chosen(c) \in Slots \cup {NoSlot}
         /\ Chosen(c) # NoSlot => ~active[Chosen(c)]
<1>1. RequestSlot(c) \in Slots \cup {NoSlot} /\ FileSlot(c) \in Slots \cup {NoSlot}
      /\ arg[c].want \in Slots \cup {NoSlot}
  BY DEF TypeOK, PoolType, CallType, Arg, RequestSlot, FileSlot
<1>2. QED
  BY <1>1, FirstInactiveFree DEF Chosen

(* NoSlot is not a slot.                                                   *)
LEMMA NoSlotFact == NoSlot \notin Slots
  BY MaxCheckersAssumption DEF NoSlot, Slots

(* NotifyAll and Unwound keep the stages of calls that do not wait.        *)
LEMMA StageFacts ==
  ASSUME TypeOK
  PROVE  /\ \A p \in [Calls -> Stage] : NotifyAll(p) \in [Calls -> Stage]
         /\ \A c \in Calls : Unwound(c) \in [Calls -> Stage]
  BY DEF TypeOK, CallType, NotifyAll, Unwound, Stage

-----------------------------------------------------------------------------
(* Type correctness.                                                       *)
LEMMA InitType == Init => TypeOK
<1> SUFFICES ASSUME Init PROVE TypeOK
  OBVIOUS
<1>1. PoolType
  BY DEF Init, PoolType
<1>2. StateType
  BY DEF Init, StateType
<1>3. CallType
  BY DEF Init, CallType, Arg, NoArg, Stage
<1>4. PublisherType
  BY DEF Init, PublisherType
<1>5. QED
  BY <1>1, <1>2, <1>3, <1>4 DEF TypeOK

(* Counts are cardinalities of finite sets of diagnostics.                 *)
LEMMA CountIsNat ==
  ASSUME TypeOK, NEW s \in Slots
  PROVE  Cardinality(diags[s]) \in Nat
<1>1. IsFiniteSet(diags[s])
  BY DiagsAssumption, FS_Subset DEF TypeOK, StateType
<1>2. QED
  BY <1>1, FS_CardinalityType

(* The stages a panic leaves behind are well typed: the panic goes on in a *)
(* callback, which has a slot.                                             *)
LEMMA UnwoundType ==
  ASSUME TypeOK, Nesting, NEW c \in Calls, pc[c] # "idle", Forget(c),
         pc' \in {Unwound(c), NotifyAll(Unwound(c))}
  PROVE  CallType'
<1>1. Unwound(c) \in [Calls -> Stage]
  BY StageFacts
<1>2. pc' \in [Calls -> Stage]
  BY <1>1, StageFacts
<1>3. \A d \in Calls : \/ pc'[d] \in {"idle", "acquiring"}
                       \/ d # c /\ pc'[d] = pc[d]
                       \/ d # c /\ pc[d] = "callback"
  <2>1. c[2] > 1 => pc[Outer(c)] = "callback"
    BY DEF Nesting
  <2>2. \A d \in Calls : \/ Unwound(c)[d] \in {"idle"}
                         \/ d # c /\ Unwound(c)[d] = pc[d]
                         \/ d # c /\ pc[d] = "callback"
    BY <2>1 DEF Unwound
  <2>3. QED
    BY <1>1, <2>2 DEF NotifyAll
<1>4. arg' \in [Calls -> Arg] /\ slot' \in [Calls -> Slots \cup {NoSlot}]
  BY DEF Forget, TypeOK, CallType, NoArg, Arg
<1>5. \A d \in Calls : d # c => slot'[d] = slot[d]
  BY DEF Forget, TypeOK, CallType
<1>6. QED
  BY <1>2, <1>3, <1>4, <1>5 DEF TypeOK, CallType

(* Every step keeps the types: no acquire or release leaves a call slotless. *)
LEMMA StepType == TypeOK /\ Nesting /\ [Next]_vars => TypeOK'
<1> SUFFICES ASSUME TypeOK, Nesting, [Next]_vars PROVE TypeOK'
  OBVIOUS
<1> USE NoSlotFact
<1>1. ASSUME NEW c \in Calls, NEW a \in Arg, Begin(c, a) PROVE TypeOK'
  BY <1>1 DEF Begin, TypeOK, PoolType, StateType, CallType, PublisherType, Stage,
     poolVars, semVars, pubVars
<1>2. ASSUME NEW c \in Calls, TakeSlot(c) PROVE TypeOK'
  <2>1. Chosen(c) \in Slots
    BY <1>2, ChosenFree DEF TakeSlot
  <2>2. arg[c] \in Arg
    BY DEF TypeOK, CallType
  <2>3. PoolType'
    BY <1>2, <2>1, <2>2 DEF TakeSlot, TypeOK, PoolType, Arg
  <2>4. CallType'
    BY <1>2, <2>1 DEF TakeSlot, TypeOK, CallType, Stage
  <2>5. StateType' /\ PublisherType'
    BY <1>2 DEF TakeSlot, TypeOK, StateType, PublisherType, semVars, pubVars
  <2>6. QED
    BY <2>3, <2>4, <2>5 DEF TypeOK
<1>3. ASSUME NEW c \in Calls, Wait(c) \/ SpuriousWakeup(c) PROVE TypeOK'
  BY <1>3 DEF Wait, SpuriousWakeup, TypeOK, PoolType, StateType, CallType,
     PublisherType, Stage, poolVars, semVars, pubVars
<1>4. ASSUME NEW c \in Calls, AcquirePanic(c) PROVE TypeOK'
  <2>1. CallType'
    BY <1>4, UnwoundType DEF AcquirePanic
  <2>2. PoolType' /\ StateType' /\ PublisherType'
    BY <1>4 DEF AcquirePanic, TypeOK, PoolType, StateType, PublisherType,
       poolVars, semVars, pubVars
  <2>3. QED
    BY <2>1, <2>2 DEF TypeOK
<1>5. ASSUME NEW c \in Calls, LockState(c) \/ CallbackPanic(c) \/ MarkCanceled(c)
      PROVE TypeOK'
  BY <1>5 DEF LockState, CallbackPanic, MarkCanceled, TypeOK, PoolType, StateType,
     CallType, PublisherType, Stage, poolVars, semVars, pubVars, callVars
<1>6. ASSUME NEW c \in Calls, NEW d \in Diags, FindDiagnostic(c, d) PROVE TypeOK'
  BY <1>6 DEF FindDiagnostic, TypeOK, PoolType, StateType,
     CallType, PublisherType, Stage, poolVars, pubVars, callVars
<1>7. ASSUME NEW c \in Calls, Release(c) PROVE TypeOK'
  <2>1. slot[c] \in Slots /\ arg[c] \in Arg
    BY <1>7 DEF Release, ReleaseGuard, TypeOK, CallType
  <2>2. Cardinality(diags[slot[c]]) \in Nat
    BY <2>1, CountIsNat
  <2>3. PoolType'
    <3>1. /\ active' \in [Slots -> BOOLEAN] /\ fileAssoc' \in [Files -> Slots \cup {NoSlot}]
          /\ leaked' \in SUBSET Slots
      BY <1>7 DEF Release, TypeOK, PoolType
    <3>2. reqAssoc' \in [Requests -> Slots \cup {NoSlot}]
      BY <1>7, <2>1 DEF Release, ForgetRequest, TypeOK, PoolType, Arg
    <3>3. count' \in [Slots -> Nat] /\ accumulated' \in SUBSET Diags
      BY <1>7, <2>1, <2>2 DEF Release, CollectDiagnostics, TypeOK, PoolType, StateType
    <3>4. changed' \in BOOLEAN
      BY <1>7 DEF Release, CollectDiagnostics, TypeOK, PoolType
    <3>5. QED
      BY <3>1, <3>2, <3>3, <3>4 DEF PoolType
  <2>4. CallType'
    <3>1. [pc EXCEPT ![c] = "released"] \in [Calls -> Stage]
      BY DEF TypeOK, CallType, Stage
    <3>2. pc' \in [Calls -> Stage]
      BY <1>7, <3>1, StageFacts DEF Release
    <3>3. \A d \in Calls : pc'[d] # pc[d] => pc'[d] = "acquiring" \/ d = c
      BY <1>7 DEF Release, NotifyAll, TypeOK, CallType
    <3>4. QED
      BY <1>7, <2>1, <3>2, <3>3 DEF Release, TypeOK, CallType
  <2>5. StateType' /\ PublisherType'
    BY <1>7 DEF Release, TypeOK, StateType, PublisherType, semVars, pubVars
  <2>6. QED
    BY <2>3, <2>4, <2>5 DEF TypeOK
<1>8. ASSUME NEW c \in Calls, Finish(c) PROVE TypeOK'
  BY <1>8 DEF Finish, Forget, TypeOK, PoolType, StateType, CallType, PublisherType,
     Stage, NoArg, Arg, poolVars, pubVars
<1>9. ASSUME NEW c \in Calls, UnwindState(c) PROVE TypeOK'
  BY <1>9 DEF UnwindState, TypeOK, PoolType, StateType, CallType, PublisherType,
     Stage, poolVars, pubVars
<1>10. ASSUME NEW c \in Calls, UnwindRelease(c) PROVE TypeOK'
  <2>1. slot[c] \in Slots /\ arg[c] \in Arg
    BY <1>10 DEF UnwindRelease, TypeOK, CallType
  <2>2. PoolType'
    BY <1>10, <2>1 DEF UnwindRelease, ForgetRequest, TypeOK, PoolType, Arg
  <2>3. CallType'
    BY <1>10, UnwoundType DEF UnwindRelease
  <2>4. StateType' /\ PublisherType'
    BY <1>10 DEF UnwindRelease, TypeOK, StateType, PublisherType, semVars, pubVars
  <2>5. QED
    BY <2>2, <2>3, <2>4 DEF TypeOK
<1>11. CASE TakeNewGlobalDiagnostics \/ PublishGlobalDiagnostics \/ PublishFails
  BY <1>11 DEF TakeNewGlobalDiagnostics, PublishGlobalDiagnostics, PublishFails, TypeOK,
     PoolType, StateType, CallType, PublisherType, poolVars, semVars, callVars
<1>12. CASE UNCHANGED vars
  BY <1>12 DEF vars, poolVars, semVars, callVars, pubVars, TypeOK, PoolType, StateType,
     CallType, PublisherType
<1>13. ASSUME NEW c \in Calls, ReleasePanic(c) PROVE TypeOK'
  <2>1. slot[c] \in Slots /\ arg[c] \in Arg
    BY <1>13 DEF ReleasePanic, ReleaseGuard, TypeOK, CallType
  <2>2. PoolType'
    BY <1>13, <2>1 DEF ReleasePanic, ForgetRequest, TypeOK, PoolType, Arg
  <2>3. CallType'
    BY <1>13, <2>1 DEF ReleasePanic, TypeOK, CallType, Stage
  <2>4. StateType' /\ PublisherType'
    BY <1>13 DEF ReleasePanic, TypeOK, StateType, PublisherType, semVars, pubVars
  <2>5. QED
    BY <2>2, <2>3, <2>4 DEF TypeOK
<1>14. ASSUME NEW c \in Calls, UnwindLeaked(c) PROVE TypeOK'
  <2>1. CallType'
    BY <1>14, UnwoundType DEF UnwindLeaked
  <2>2. PoolType' /\ StateType' /\ PublisherType'
    BY <1>14 DEF UnwindLeaked, TypeOK, PoolType, StateType, PublisherType, poolVars, pubVars
  <2>3. QED
    BY <2>1, <2>2 DEF TypeOK
<1>15. QED
  BY <1>1, <1>2, <1>3, <1>4, <1>5, <1>6, <1>7, <1>8, <1>9, <1>10, <1>11, <1>12, <1>13, <1>14
     DEF Next, CallStep

(* Who can leave a callback: its own innermost call, or a panic from below. *)
LEMMA StepNesting == TypeOK /\ Nesting /\ [Next]_vars => Nesting'
<1> SUFFICES ASSUME TypeOK, Nesting, [Next]_vars,
                    NEW e \in Calls, e[2] > 1, pc'[e] # "idle"
             PROVE  pc'[Outer(e)] = "callback"
  BY DEF Nesting, Outer
<1> USE DEF TypeOK, CallType
<1>0. Outer(e) \in Calls /\ Outer(e) # e /\ Inner(Outer(e)) = e /\ Outer(e)[2] < MaxDepth
  BY CallNesting
<1>1. ASSUME NEW c \in Calls, pc' = [pc EXCEPT ![c] = "acquiring"], pc[c] = "idle",
             c[2] > 1 => pc[Outer(c)] = "callback"
      PROVE  pc'[Outer(e)] = "callback"
  BY <1>0, <1>1 DEF Nesting
<1>2. ASSUME NEW c \in Calls, NEW st, pc' = [pc EXCEPT ![c] = st],
             pc[c] \notin {"idle", "callback"}
      PROVE  pc'[Outer(e)] = "callback"
  BY <1>0, <1>2 DEF Nesting
<1>3. ASSUME NEW c \in Calls, NEW st, pc' = [pc EXCEPT ![c] = st] \/ pc' = NotifyAll([pc EXCEPT ![c] = st]),
             pc[c] = "callback", Innermost(c)
      PROVE  pc'[Outer(e)] = "callback"
  <2>1. e # c => pc[e] # "idle"
    BY <1>3 DEF NotifyAll
  <2>2. Outer(e) # c
    BY <1>0, <1>3, <2>1 DEF Innermost
  <2>3. pc[Outer(e)] = "callback"
    BY <1>3, <2>1 DEF Nesting
  <2>4. QED
    BY <1>0, <1>3, <2>2, <2>3 DEF NotifyAll
<1>4. ASSUME NEW c \in Calls, pc' = Unwound(c) \/ pc' = NotifyAll(Unwound(c)),
             pc[c] \notin {"idle", "callback"}
      PROVE  pc'[Outer(e)] = "callback"
  <2>1. e # c /\ pc[e] # "idle"
    <3>1. e # c
      BY <1>4 DEF Unwound, NotifyAll
    <3>2. Unwound(c)[e] # "idle"
      BY <1>4 DEF Unwound, NotifyAll
    <3>3. CASE c[2] > 1 /\ e = Outer(c)
      BY <3>3, <1>4 DEF Nesting
    <3>4. QED
      BY <3>1, <3>2, <3>3 DEF Unwound
  <2>2. pc[Outer(e)] = "callback"
    BY <2>1 DEF Nesting
  <2>3. c[2] > 1 => Outer(e) # Outer(c)
    BY <1>0, <2>1, CallNesting
  <2>4. Unwound(c)[Outer(e)] = "callback"
    BY <1>0, <1>4, <2>2, <2>3 DEF Unwound
  <2>5. QED
    BY <1>0, <1>4, <2>4 DEF NotifyAll
<1>5. ASSUME NEW c \in Calls, CallStep(c) PROVE pc'[Outer(e)] = "callback"
  <2>1. CASE \E a \in Arg : Begin(c, a)
    BY <2>1, <1>1 DEF Begin
  <2>2. CASE TakeSlot(c) \/ Wait(c) \/ SpuriousWakeup(c) \/ LockState(c) \/ Finish(c)
             \/ UnwindState(c)
    BY <2>2, <1>2 DEF TakeSlot, Wait, SpuriousWakeup, LockState, Finish, UnwindState
  <2>3. CASE CallbackPanic(c) \/ Release(c) \/ ReleasePanic(c)
    BY <2>3, <1>3 DEF CallbackPanic, Release, ReleasePanic, ReleaseGuard
  <2>4. CASE AcquirePanic(c) \/ UnwindRelease(c) \/ UnwindLeaked(c)
    BY <2>4, <1>4 DEF AcquirePanic, UnwindRelease, UnwindLeaked
  <2>5. CASE MarkCanceled(c) \/ \E d \in Diags : FindDiagnostic(c, d)
    BY <2>5 DEF MarkCanceled, FindDiagnostic, callVars, Nesting
  <2>6. QED
    BY <1>5, <2>1, <2>2, <2>3, <2>4, <2>5 DEF CallStep
<1>6. CASE UNCHANGED pc
  BY <1>6 DEF Nesting
<1>7. QED
  BY <1>5, <1>6 DEF Next, vars, callVars, TakeNewGlobalDiagnostics, PublishGlobalDiagnostics,
     PublishFails

(* Types and nesting hold together; each needs the other.                  *)
LEMMA TypeAndNesting == Spec => [](TypeOK /\ Nesting)
<1>1. Init => TypeOK /\ Nesting
  BY InitType DEF Init, Nesting
<1>2. TypeOK /\ Nesting /\ [Next]_vars => TypeOK' /\ Nesting'
  BY StepType, StepNesting
<1>3. QED
  BY <1>1, <1>2, PTL DEF Spec

(* The pool's state keeps its types, and every call past acquire has a slot. *)
THEOREM TypeCorrect == Spec => []TypeOK
  BY TypeAndNesting, PTL

-----------------------------------------------------------------------------
(* Mutual exclusion of slots and of their states, request associations and *)
(* wakeups.  Waiting strengthens NoLostWakeup: it says which slots are     *)
(* active while a call sleeps, so that it survives changes of the          *)
(* associations that Chosen looks at.                                      *)
Waiting ==
  \A c \in Calls : pc[c] = "waiting" =>
    IF arg[c].want = NoSlot THEN \A s \in Slots : active[s] ELSE active[arg[c].want]

(* Steps that neither take nor release a slot.                             *)
QuietStep ==
  /\ \A d \in Calls : /\ Owns(d)' <=> Owns(d)
                      /\ Owns(d) => slot'[d] = slot[d] /\ arg'[d] = arg[d]
                      /\ pc'[d] = "waiting" =>
                            arg'[d] = arg[d] /\ (pc[d] = "waiting" \/ Wait(d))
  /\ UNCHANGED <<active, reqAssoc, leaked>>

(* The step in which call c leaks its slot.                                *)
LeakStep(c) ==
  /\ Owns(c)
  /\ \A d \in Calls : /\ Owns(d)' <=> Owns(d) /\ d # c
                      /\ d # c => slot'[d] = slot[d] /\ arg'[d] = arg[d]
                      /\ pc'[d] = "waiting" => pc[d] = "waiting" /\ d # c
  /\ leaked' = leaked \cup {slot[c]}
  /\ active' = active
  /\ reqAssoc' = ForgetRequest(arg[c].req)

(* Steps in which call c releases its slot.                                *)
FreeStep(c) ==
  /\ Owns(c)
  /\ \A d \in Calls : /\ Owns(d)' <=> Owns(d) /\ d # c
                      /\ d # c => slot'[d] = slot[d] /\ arg'[d] = arg[d]
                      /\ pc'[d] # "waiting"
  /\ active' = [active EXCEPT ![slot[c]] = FALSE]
  /\ leaked' = leaked
  /\ reqAssoc' = ForgetRequest(arg[c].req)

(* A panic that leaves call c takes only its own slot away from it.        *)
LEMMA UnwoundOwners ==
  ASSUME TypeOK, Nesting, NEW c \in Calls, pc[c] # "idle",
         pc' \in {Unwound(c), NotifyAll(Unwound(c))}
  PROVE  \A d \in Calls : /\ Owns(d)' <=> Owns(d) /\ d # c
                          /\ pc'[d] = "waiting" => pc[d] = "waiting" /\ d # c
                          /\ pc' = NotifyAll(Unwound(c)) => pc'[d] # "waiting"
<1>1. c[2] > 1 => pc[Outer(c)] = "callback"
  BY DEF Nesting
<1>2. \A d \in Calls : \/ d = c /\ Unwound(c)[d] = "idle"
                       \/ d # c /\ pc[d] = "callback" /\ Unwound(c)[d] = "unwinding"
                       \/ d # c /\ Unwound(c)[d] = pc[d]
  BY <1>1 DEF Unwound
<1>3. \A d \in Calls : Unwound(c)[d] \in Stage
  BY StageFacts
<1>4. \A d \in Calls :
        NotifyAll(Unwound(c))[d] = IF Unwound(c)[d] = "waiting" THEN "acquiring" ELSE Unwound(c)[d]
  BY DEF NotifyAll
<1>5. QED
  BY <1>2, <1>3, <1>4 DEF Owns

(* For slots and requests a step is quiet, or takes, frees or leaks one.   *)
LEMMA StepKinds ==
  ASSUME TypeOK, Nesting, Next
  PROVE  QuietStep \/ \E c \in Calls : TakeSlot(c) \/ FreeStep(c) \/ LeakStep(c)
<1> USE DEF TypeOK, CallType
<1>1. ASSUME NEW c \in Calls, CallStep(c)
      PROVE  QuietStep \/ TakeSlot(c) \/ FreeStep(c) \/ LeakStep(c)
  <2>1. CASE \E a \in Arg : Begin(c, a)
    BY <2>1 DEF Begin, QuietStep, Owns, poolVars
  <2>2. CASE Wait(c)
    BY <2>2 DEF Wait, QuietStep, Owns, poolVars
  <2>3. CASE SpuriousWakeup(c)
    BY <2>3 DEF SpuriousWakeup, QuietStep, Owns, poolVars
  <2>4. CASE AcquirePanic(c)
    <3>1. \A d \in Calls : /\ Owns(d)' <=> Owns(d) /\ d # c
                           /\ pc'[d] = "waiting" => pc[d] = "waiting" /\ d # c
      BY <2>4, UnwoundOwners DEF AcquirePanic
    <3>2. ~Owns(c)
      BY <2>4 DEF AcquirePanic, Owns
    <3>3. \A d \in Calls : d # c => arg'[d] = arg[d] /\ slot'[d] = slot[d]
      BY <2>4 DEF AcquirePanic, Forget
    <3>4. QED
      BY <2>4, <3>1, <3>2, <3>3 DEF AcquirePanic, QuietStep, poolVars
  <2>5. CASE LockState(c) \/ CallbackPanic(c)
    BY <2>5 DEF LockState, CallbackPanic, QuietStep, Owns, poolVars
  <2>6. CASE MarkCanceled(c) \/ \E d \in Diags : FindDiagnostic(c, d)
    BY <2>6 DEF MarkCanceled, FindDiagnostic, QuietStep, Owns, poolVars, callVars
  <2>7. CASE Release(c)
    <3>1. Owns(c)
      BY <2>7 DEF Release, ReleaseGuard, Owns
    <3>2. \A d \in Calls : /\ d = c => pc'[d] = "released"
                           /\ d # c => pc'[d] = IF pc[d] = "waiting" THEN "acquiring" ELSE pc[d]
      BY <2>7 DEF Release, NotifyAll
    <3>3. \A d \in Calls : (Owns(d)' <=> Owns(d) /\ d # c) /\ pc'[d] # "waiting"
      BY <3>2 DEF Owns
    <3>4. QED
      BY <2>7, <3>1, <3>3 DEF Release, FreeStep
  <2>8. CASE Finish(c)
    BY <2>8 DEF Finish, Forget, QuietStep, Owns, poolVars
  <2>9. CASE UnwindState(c)
    BY <2>9 DEF UnwindState, QuietStep, Owns, poolVars
  <2>10. CASE UnwindRelease(c)
    <3>0. pc[c] # "idle" /\ pc' = NotifyAll(Unwound(c))
      BY <2>10 DEF UnwindRelease
    <3>1. \A d \in Calls : (Owns(d)' <=> Owns(d) /\ d # c) /\ pc'[d] # "waiting"
      BY <3>0, UnwoundOwners
    <3>2. Owns(c)
      BY <2>10 DEF UnwindRelease, Owns
    <3>3. \A d \in Calls : d # c => arg'[d] = arg[d] /\ slot'[d] = slot[d]
      BY <2>10 DEF UnwindRelease, Forget
    <3>4. /\ active' = [active EXCEPT ![slot[c]] = FALSE]
          /\ reqAssoc' = ForgetRequest(arg[c].req) /\ leaked' = leaked
      BY <2>10 DEF UnwindRelease
    <3>5. QED
      BY <3>1, <3>2, <3>3, <3>4 DEF FreeStep, Owns
  <2>11. CASE ReleasePanic(c)
    <3>1. pc[c] = "callback" /\ \A d \in Calls : pc'[d] = IF d = c THEN "leaking" ELSE pc[d]
      BY <2>11 DEF ReleasePanic, ReleaseGuard
    <3>2. Owns(c) /\ \A d \in Calls : /\ Owns(d)' <=> Owns(d) /\ d # c
                                      /\ pc'[d] = "waiting" => pc[d] = "waiting" /\ d # c
      BY <3>1 DEF Owns
    <3>3. QED
      BY <2>11, <3>2 DEF ReleasePanic, LeakStep
  <2>12. CASE UnwindLeaked(c)
    <3>1. \A d \in Calls : /\ Owns(d)' <=> Owns(d) /\ d # c
                           /\ pc'[d] = "waiting" => pc[d] = "waiting" /\ d # c
      BY <2>12, UnwoundOwners DEF UnwindLeaked
    <3>2. ~Owns(c)
      BY <2>12 DEF UnwindLeaked, Owns
    <3>3. \A d \in Calls : d # c => arg'[d] = arg[d] /\ slot'[d] = slot[d]
      BY <2>12 DEF UnwindLeaked, Forget
    <3>4. QED
      BY <2>12, <3>1, <3>2, <3>3 DEF UnwindLeaked, QuietStep, poolVars
  <2>13. QED
    BY <1>1, <2>1, <2>2, <2>3, <2>4, <2>5, <2>6, <2>7, <2>8, <2>9, <2>10, <2>11, <2>12
       DEF CallStep
<1>2. CASE TakeNewGlobalDiagnostics \/ PublishGlobalDiagnostics \/ PublishFails
  BY <1>2 DEF TakeNewGlobalDiagnostics, PublishGlobalDiagnostics, PublishFails, QuietStep, Owns,
     poolVars, callVars
<1>3. QED
  BY <1>1, <1>2 DEF Next

(* No acquire, release or unwinding breaks the exclusion of slots.         *)
LEMMA StepSlots ==
  ASSUME TypeOK, Nesting, SlotExclusion, Next
  PROVE  SlotExclusion'
<1>1. CASE QuietStep
  BY <1>1 DEF QuietStep, SlotExclusion, Owns
<1>2. ASSUME NEW c \in Calls, TakeSlot(c) PROVE SlotExclusion'
  <2>1. Chosen(c) \in Slots /\ ~active[Chosen(c)]
    BY <1>2, ChosenFree, NoSlotFact DEF TakeSlot
  <2>2. /\ slot'[c] = Chosen(c) /\ Owns(c)' /\ ~Owns(c)
        /\ \A d \in Calls : d # c => slot'[d] = slot[d] /\ (Owns(d)' <=> Owns(d))
    BY <1>2 DEF TakeSlot, TypeOK, CallType, Owns
  <2>3. leaked' = leaked /\ \A s \in Slots : active'[s] <=> active[s] \/ s = Chosen(c)
    BY <1>2, <2>1 DEF TakeSlot, TypeOK, PoolType
  <2>4. QED
    BY <2>1, <2>2, <2>3 DEF SlotExclusion
<1>3. ASSUME NEW c \in Calls, FreeStep(c) PROVE SlotExclusion'
  <2>1. slot[c] \in Slots
    BY <1>3 DEF FreeStep, Owns, TypeOK, CallType
  <2>2. \A s \in Slots : active'[s] <=> active[s] /\ s # slot[c]
    BY <1>3, <2>1 DEF FreeStep, TypeOK, PoolType
  <2>3. QED
    BY <1>3, <2>1, <2>2 DEF FreeStep, SlotExclusion, Owns
<1>4. ASSUME NEW c \in Calls, LeakStep(c) PROVE SlotExclusion'
  <2>1. slot[c] \in Slots
    BY <1>4 DEF LeakStep, Owns, TypeOK, CallType
  <2>2. QED
    BY <1>4, <2>1 DEF LeakStep, SlotExclusion, Owns
<1>5. QED
  BY <1>1, <1>2, <1>3, <1>4, StepKinds

(* Associations follow the calls that own slots.                           *)
LEMMA StepRequests ==
  ASSUME TypeOK, Nesting, SlotExclusion, RequestAssociation, Next
  PROVE  RequestAssociation'
<1>0. \A d \in Calls : arg[d].req \in Requests \cup {NoRequest}
  BY DEF TypeOK, CallType, Arg
<1>1. CASE QuietStep
  BY <1>1 DEF QuietStep, RequestAssociation, Owns
<1>2. ASSUME NEW c \in Calls, TakeSlot(c) PROVE RequestAssociation'
  <2>1. Chosen(c) \in Slots /\ ~active[Chosen(c)]
    BY <1>2, ChosenFree, NoSlotFact DEF TakeSlot
  <2>2. /\ slot'[c] = Chosen(c) /\ Owns(c)' /\ ~Owns(c) /\ arg' = arg
        /\ \A d \in Calls : d # c => slot'[d] = slot[d] /\ (Owns(d)' <=> Owns(d))
    BY <1>2 DEF TakeSlot, TypeOK, CallType, Owns
  <2>3. ASSUME NEW d \in Calls, Owns(d), arg[d].req # NoRequest, arg[d].req = arg[c].req
        PROVE  FALSE
    <3>1. RequestSlot(c) = slot[d] /\ slot[d] \in Slots
      BY <2>3 DEF RequestAssociation, RequestSlot, Owns, TypeOK, CallType
    <3>2. active[RequestSlot(c)]
      BY <2>3, <3>1 DEF SlotExclusion
    <3>3. QED
      BY <1>2, <3>1, <3>2, NoSlotFact DEF TakeSlot, AcquirePanics
  <2>4. \A r \in Requests : reqAssoc'[r] = IF r = arg[c].req THEN Chosen(c) ELSE reqAssoc[r]
    BY <1>2, <1>0, RequestsAssumption DEF TakeSlot, TypeOK, PoolType
  <2>5. QED
    BY <1>0, <2>1, <2>2, <2>3, <2>4 DEF RequestAssociation
<1>3. ASSUME NEW c \in Calls, FreeStep(c) \/ LeakStep(c) PROVE RequestAssociation'
  <2>1. \A r \in Requests : reqAssoc'[r] = IF r = arg[c].req THEN NoSlot ELSE reqAssoc[r]
    BY <1>0, <1>3, RequestsAssumption DEF FreeStep, LeakStep, ForgetRequest, TypeOK, PoolType
  <2>2. ASSUME NEW d \in Calls, Owns(d), d # c, arg[d].req # NoRequest
        PROVE  arg[d].req # arg[c].req
    <3>1. arg[d].req = arg[c].req => slot[d] = slot[c]
      BY <1>3, <2>2 DEF RequestAssociation, FreeStep, LeakStep
    <3>2. QED
      BY <1>3, <2>2, <3>1 DEF SlotExclusion, FreeStep, LeakStep
  <2>3. QED
    BY <1>0, <1>3, <2>1, <2>2 DEF FreeStep, LeakStep, RequestAssociation, Owns
<1>4. QED
  BY <1>1, <1>2, <1>3, StepKinds

(* A sleeping call: only taking a slot can happen without waking it, and   *)
(* that leaves every active slot active.                                   *)
LEMMA StepWaiting ==
  ASSUME TypeOK, Nesting, SlotExclusion, RequestAssociation, Waiting, Next
  PROVE  Waiting'
<1>0. \A d \in Calls : arg[d].want \in Slots \cup {NoSlot}
  BY DEF TypeOK, CallType, Arg
<1>1. CASE QuietStep
  <2>1. ASSUME NEW d \in Calls, Wait(d)
        PROVE  IF arg[d].want = NoSlot THEN \A s \in Slots : active[s] ELSE active[arg[d].want]
    <3>1. RequestSlot(d) = NoSlot
      <4>1. ASSUME RequestSlot(d) # NoSlot PROVE active[RequestSlot(d)]
        <5>1. arg[d].req \in Requests /\ RequestSlot(d) = reqAssoc[arg[d].req]
          BY <4>1 DEF RequestSlot, TypeOK, CallType, Arg
        <5>2. RequestSlot(d) \in Slots
          BY <4>1, <5>1 DEF TypeOK, PoolType
        <5>3. QED
          BY <4>1, <5>1, <5>2 DEF RequestAssociation, SlotExclusion
      <4>2. QED
        BY <2>1, <4>1 DEF Wait, AcquirePanics
    <3>2. Chosen(d) = NoSlot
      BY <2>1 DEF Wait
    <3>3. CASE arg[d].want = NoSlot
      <4>1. FirstInactive = NoSlot
        BY <3>1, <3>2, <3>3, NoSlotFact DEF Chosen
      <4>2. QED
        BY <3>3, <4>1, FirstInactiveFree, NoSlotFact
    <3>4. CASE arg[d].want # NoSlot
      BY <3>1, <3>2, <3>4 DEF Chosen
    <3>5. QED
      BY <3>3, <3>4
  <2>2. QED
    BY <1>0, <1>1, <2>1 DEF QuietStep, Waiting, Owns
<1>2. ASSUME NEW c \in Calls, TakeSlot(c) PROVE Waiting'
  <2>1. \A s \in Slots : active[s] => active'[s]
    BY <1>2 DEF TakeSlot, TypeOK, PoolType
  <2>2. arg' = arg /\ \A d \in Calls : pc'[d] = "waiting" => pc[d] = "waiting"
    BY <1>2 DEF TakeSlot, TypeOK, CallType
  <2>3. QED
    BY <1>0, <2>1, <2>2 DEF Waiting
<1>3. ASSUME NEW c \in Calls, FreeStep(c) PROVE Waiting'
  BY <1>3 DEF FreeStep, Waiting, Owns
<1>4. ASSUME NEW c \in Calls, LeakStep(c) PROVE Waiting'
  BY <1>0, <1>4 DEF LeakStep, Waiting, Owns
<1>5. QED
  BY <1>1, <1>2, <1>3, <1>4, StepKinds

-----------------------------------------------------------------------------
(* The semantic_state guards.                                              *)

(* Steps that neither lock nor unlock a state.                             *)
StateQuiet ==
  /\ \A d \in Calls : /\ HoldsState(d)' <=> HoldsState(d)
                      /\ HoldsState(d) => slot'[d] = slot[d]
  /\ UNCHANGED semLocked

(* Steps in which call c drops its guard.                                  *)
StateFree(c) ==
  /\ HoldsState(c)
  /\ \A d \in Calls : /\ HoldsState(d)' <=> HoldsState(d) /\ d # c
                      /\ d # c => slot'[d] = slot[d]
  /\ semLocked' = [semLocked EXCEPT ![slot[c]] = FALSE]

(* Unwinding past a call leaves the other calls' guards.                   *)
LEMMA UnwoundHolders ==
  ASSUME TypeOK, Nesting, NEW c \in Calls, pc[c] # "idle", Forget(c),
         pc' \in {Unwound(c), NotifyAll(Unwound(c))}
  PROVE  \A d \in Calls : /\ HoldsState(d)' <=> HoldsState(d) /\ d # c
                          /\ d # c => slot'[d] = slot[d]
<1>1. c[2] > 1 => pc[Outer(c)] = "callback"
  BY DEF Nesting
<1>2. \A d \in Calls : \/ d = c /\ Unwound(c)[d] = "idle"
                       \/ d # c /\ pc[d] = "callback" /\ Unwound(c)[d] = "unwinding"
                       \/ d # c /\ Unwound(c)[d] = pc[d]
  BY <1>1 DEF Unwound
<1>3. \A d \in Calls :
        NotifyAll(Unwound(c))[d] = IF Unwound(c)[d] = "waiting" THEN "acquiring" ELSE Unwound(c)[d]
  BY DEF NotifyAll
<1>4. \A d \in Calls : d # c => slot'[d] = slot[d]
  BY DEF Forget, TypeOK, CallType
<1>5. QED
  BY <1>2, <1>3, <1>4 DEF HoldsState

(* For states a step is quiet, locks a state or unlocks one.               *)
LEMMA StateKinds ==
  ASSUME TypeOK, Nesting, Next
  PROVE  StateQuiet \/ \E c \in Calls : LockState(c) \/ StateFree(c)
<1> USE DEF TypeOK, CallType
<1>1. ASSUME NEW c \in Calls, CallStep(c) PROVE StateQuiet \/ LockState(c) \/ StateFree(c)
  <2>1. CASE \E a \in Arg : Begin(c, a)
    BY <2>1 DEF Begin, StateQuiet, HoldsState, semVars
  <2>2. CASE Wait(c) \/ SpuriousWakeup(c) \/ CallbackPanic(c)
    BY <2>2 DEF Wait, SpuriousWakeup, CallbackPanic, StateQuiet, HoldsState, semVars
  <2>3. CASE TakeSlot(c)
    BY <2>3 DEF TakeSlot, StateQuiet, HoldsState, semVars
  <2>4. CASE AcquirePanic(c)
    <3>1. pc[c] # "idle" /\ ~HoldsState(c) /\ Forget(c) /\ pc' = Unwound(c)
      BY <2>4 DEF AcquirePanic, HoldsState
    <3>2. QED
      BY <2>4, <3>1, UnwoundHolders DEF AcquirePanic, StateQuiet, semVars
  <2>5. CASE MarkCanceled(c) \/ \E d \in Diags : FindDiagnostic(c, d)
    BY <2>5 DEF MarkCanceled, FindDiagnostic, StateQuiet, HoldsState, callVars
  <2>6. CASE Release(c)
    <3>1. \A d \in Calls : /\ d = c => pc'[d] = "released"
                           /\ d # c => pc'[d] = IF pc[d] = "waiting" THEN "acquiring" ELSE pc[d]
      BY <2>6 DEF Release, NotifyAll
    <3>2. \A d \in Calls : HoldsState(d)' <=> HoldsState(d)
      BY <2>6, <3>1 DEF Release, ReleaseGuard, HoldsState
    <3>3. QED
      BY <2>6, <3>2 DEF Release, StateQuiet, semVars
  <2>7. CASE Finish(c)
    BY <2>7 DEF Finish, Forget, StateFree, HoldsState
  <2>8. CASE UnwindState(c)
    BY <2>8 DEF UnwindState, StateFree, HoldsState
  <2>9. CASE UnwindRelease(c)
    <3>1. pc[c] # "idle" /\ ~HoldsState(c) /\ Forget(c) /\ pc' = NotifyAll(Unwound(c))
      BY <2>9 DEF UnwindRelease, HoldsState
    <3>2. QED
      BY <2>9, <3>1, UnwoundHolders DEF UnwindRelease, StateQuiet, semVars
  <2>10. CASE ReleasePanic(c)
    BY <2>10 DEF ReleasePanic, ReleaseGuard, StateQuiet, HoldsState, semVars
  <2>11. CASE UnwindLeaked(c)
    <3>1. pc[c] # "idle" /\ HoldsState(c) /\ Forget(c) /\ pc' = Unwound(c)
      BY <2>11 DEF UnwindLeaked, HoldsState
    <3>2. QED
      BY <2>11, <3>1, UnwoundHolders DEF UnwindLeaked, StateFree
  <2>12. QED
    BY <1>1, <2>1, <2>2, <2>3, <2>4, <2>5, <2>6, <2>7, <2>8, <2>9, <2>10, <2>11 DEF CallStep
<1>2. CASE TakeNewGlobalDiagnostics \/ PublishGlobalDiagnostics \/ PublishFails
  BY <1>2 DEF TakeNewGlobalDiagnostics, PublishGlobalDiagnostics, PublishFails, StateQuiet,
     HoldsState, semVars, callVars
<1>3. QED
  BY <1>1, <1>2 DEF Next

(* No lock, release or unwinding breaks the exclusion of states.           *)
LEMMA StepStates ==
  ASSUME TypeOK, Nesting, StateExclusion, Next
  PROVE  StateExclusion'
<1>1. CASE StateQuiet
  BY <1>1 DEF StateQuiet, StateExclusion
<1>2. ASSUME NEW c \in Calls, LockState(c) PROVE StateExclusion'
  <2>1. slot[c] \in Slots /\ ~semLocked[slot[c]]
    BY <1>2 DEF LockState, TypeOK, CallType
  <2>2. /\ HoldsState(c)' /\ ~HoldsState(c) /\ slot' = slot
        /\ \A d \in Calls : d # c => (HoldsState(d)' <=> HoldsState(d))
    BY <1>2 DEF LockState, TypeOK, CallType, HoldsState
  <2>3. \A s \in Slots : semLocked'[s] <=> semLocked[s] \/ s = slot[c]
    BY <1>2, <2>1 DEF LockState, TypeOK, StateType
  <2>4. QED
    BY <2>1, <2>2, <2>3 DEF StateExclusion
<1>3. ASSUME NEW c \in Calls, StateFree(c) PROVE StateExclusion'
  <2>1. slot[c] \in Slots
    BY <1>3 DEF StateFree, HoldsState, TypeOK, CallType
  <2>2. \A s \in Slots : semLocked'[s] <=> semLocked[s] /\ s # slot[c]
    BY <1>3, <2>1 DEF StateFree, TypeOK, StateType
  <2>3. QED
    BY <1>3, <2>1, <2>2 DEF StateFree, StateExclusion
<1>4. QED
  BY <1>1, <1>2, <1>3, StateKinds

-----------------------------------------------------------------------------
(* The inductive invariant.                                                *)
IInv == TypeOK /\ Nesting /\ SlotExclusion /\ StateExclusion /\ RequestAssociation /\ Waiting

(* The inductive invariant holds in every behaviour of the pool.           *)
LEMMA Inductive == Spec => []IInv
<1>1. Init => IInv
  <2> SUFFICES ASSUME Init PROVE IInv
    OBVIOUS
  <2>1. \A c \in Calls : pc[c] = "idle"
    BY DEF Init
  <2>2. Nesting /\ Waiting /\ \A c \in Calls : ~Owns(c) /\ ~HoldsState(c)
    BY <2>1 DEF Nesting, Waiting, Owns, HoldsState
  <2>3. SlotExclusion /\ StateExclusion /\ RequestAssociation
    BY <2>2 DEF Init, SlotExclusion, StateExclusion, RequestAssociation
  <2>4. QED
    BY <2>2, <2>3, InitType DEF IInv
<1>2. IInv /\ [Next]_vars => IInv'
  <2> SUFFICES ASSUME IInv, [Next]_vars PROVE IInv'
    OBVIOUS
  <2>1. TypeOK' /\ Nesting'
    BY StepType, StepNesting DEF IInv
  <2>2. CASE Next
    BY <2>1, <2>2, StepSlots, StepStates, StepRequests, StepWaiting DEF IInv
  <2>3. CASE UNCHANGED vars
    <3> USE <2>3 DEF vars, poolVars, semVars, callVars, pubVars
    <3>1. SlotExclusion' /\ RequestAssociation' /\ Waiting'
      BY DEF IInv, SlotExclusion, RequestAssociation, Waiting, Owns
    <3>2. StateExclusion'
      BY DEF IInv, StateExclusion, HoldsState
    <3>3. QED
      BY <2>1, <3>1, <3>2 DEF IInv
  <2>4. QED
    BY <2>2, <2>3
<1>3. QED
  BY <1>1, <1>2, PTL DEF Spec

(* No two callbacks ever share a checker slot, and a slot is active only   *)
(* while a call owns it or after a panic inside its release_checker, for   *)
(* any number of threads, slots and nesting.                               *)
THEOREM SlotsExclusive == Spec => []SlotExclusion
  BY Inductive, PTL DEF IInv

(* At most one call holds a slot's semantic state.                         *)
THEOREM StatesExclusive == Spec => []StateExclusion
  BY Inductive, PTL DEF IInv

(* A request is associated with a slot exactly while its call owns it.     *)
THEOREM RequestsAssociated == Spec => []RequestAssociation
  BY Inductive, PTL DEF IInv

(* A call never sleeps while it could take a slot.                         *)
THEOREM NoWakeupLost == Spec => []NoLostWakeup
<1>1. IInv => NoLostWakeup
  <2> SUFFICES ASSUME IInv, NEW c \in Calls, pc[c] = "waiting" PROVE Chosen(c) = NoSlot
    BY DEF NoLostWakeup
  <2> USE DEF IInv
  <2>1. /\ RequestSlot(c) \in Slots \cup {NoSlot} /\ FileSlot(c) \in Slots \cup {NoSlot}
        /\ arg[c].want \in Slots \cup {NoSlot}
    BY DEF TypeOK, PoolType, CallType, Arg, RequestSlot, FileSlot
  <2>2. RequestSlot(c) # NoSlot => active[RequestSlot(c)]
    <3>1. RequestSlot(c) # NoSlot =>
            arg[c].req \in Requests /\ RequestSlot(c) = reqAssoc[arg[c].req]
      BY DEF RequestSlot, TypeOK, CallType, Arg
    <3>2. QED
      BY <2>1, <3>1 DEF RequestAssociation, SlotExclusion
  <2>3. CASE arg[c].want = NoSlot
    <3>1. \A s \in Slots : active[s]
      BY <2>3 DEF Waiting
    <3>2. QED
      BY <2>1, <2>2, <2>3, <3>1 DEF Chosen, FirstInactive
  <2>4. CASE arg[c].want # NoSlot
    <3>1. active[arg[c].want]
      BY <2>4 DEF Waiting
    <3>2. QED
      BY <2>2, <2>4, <3>1 DEF Chosen
  <2>5. QED
    BY <2>3, <2>4
<1>2. QED
  BY <1>1, Inductive, PTL

-----------------------------------------------------------------------------
(* Canceled checkers.  While a state is canceled, the call that canceled   *)
(* it is still in its callback, or has released the slot and is about to   *)
(* replace the state: it holds the guard either way.                       *)
CanceledHeld ==
  \A s \in Slots : canceled[s] =>
    \E c \in Calls : pc[c] \in {"callback", "released"} /\ slot[c] = s

(* No step leaves a canceled state unheld.                                 *)
LEMMA StepCanceled ==
  ASSUME MaxDepth = 1, ~PanicAfterCancel, IInv, CanceledHeld, Next
  PROVE  CanceledHeld'
<1> USE DEF IInv, TypeOK, CallType, StateType
<1>0. \A c \in Calls : c[2] = 1
  BY DEF Calls
<1>1. ASSUME NEW c \in Calls, CallStep(c) PROVE CanceledHeld'
  <2> DEFINE Keeps(d) == pc[d] \in {"callback", "released"}
  <2>1. CASE UNCHANGED canceled /\ \A d \in Calls : Keeps(d) => Keeps(d)' /\ slot'[d] = slot[d]
    BY <2>1 DEF CanceledHeld
  <2>2. CASE MarkCanceled(c)
    BY <2>2 DEF MarkCanceled, CanceledHeld, callVars
  <2>3. CASE CallbackPanic(c)
    <3>1. ~canceled[slot[c]] /\ slot[c] \in Slots
      BY <2>3 DEF CallbackPanic
    <3>2. \A d \in Calls : d # c => pc'[d] = pc[d]
      BY <2>3 DEF CallbackPanic
    <3>3. QED
      BY <2>3, <3>1, <3>2 DEF CallbackPanic, CanceledHeld, semVars
  <2>4. CASE Finish(c)
    <3>1. \A d \in Calls : d # c => pc'[d] = pc[d] /\ slot'[d] = slot[d]
      BY <2>4 DEF Finish, Forget
    <3>2. \A s \in Slots : canceled'[s] => canceled[s] /\ s # slot[c]
      BY <2>4 DEF Finish
    <3>3. QED
      BY <3>1, <3>2 DEF CanceledHeld
  <2>5. CASE AcquirePanic(c) \/ UnwindRelease(c) \/ UnwindLeaked(c)
    <3>1. \A d \in Calls : Unwound(c)[d] = IF d = c THEN "idle" ELSE pc[d]
      BY <1>0 DEF Unwound
    <3>2. \A d \in Calls : Keeps(d) => d # c /\ Keeps(d)'
      BY <2>5, <3>1 DEF AcquirePanic, UnwindRelease, UnwindLeaked, NotifyAll
    <3>3. \A d \in Calls : d # c => slot'[d] = slot[d]
      BY <2>5 DEF AcquirePanic, UnwindRelease, UnwindLeaked, Forget
    <3>4. QED
      BY <2>1, <2>5, <3>2, <3>3 DEF AcquirePanic, UnwindRelease, UnwindLeaked, semVars
  <2>6. CASE Release(c)
    <3>1. \A d \in Calls : Keeps(d) => Keeps(d)'
      BY <2>6 DEF Release, ReleaseGuard, NotifyAll
    <3>2. QED
      BY <2>1, <2>6, <3>1 DEF Release, semVars
  <2>7. CASE \/ \E a \in Arg : Begin(c, a)
             \/ TakeSlot(c) \/ Wait(c) \/ SpuriousWakeup(c) \/ LockState(c) \/ UnwindState(c)
    <3>1. \A d \in Calls : Keeps(d) => Keeps(d)' /\ slot'[d] = slot[d]
      BY <2>7 DEF Begin, TakeSlot, Wait, SpuriousWakeup, LockState, UnwindState
    <3>2. UNCHANGED canceled
      BY <2>7 DEF Begin, TakeSlot, Wait, SpuriousWakeup, LockState, UnwindState, semVars
    <3>3. QED
      BY <2>1, <3>1, <3>2
  <2>8. CASE \E d \in Diags : FindDiagnostic(c, d)
    BY <2>1, <2>8 DEF FindDiagnostic, callVars
  <2>9. CASE ReleasePanic(c)
    <3>1. ~canceled[slot[c]] /\ slot[c] \in Slots
      BY <2>9 DEF ReleasePanic, ReleaseGuard
    <3>2. \A d \in Calls : d # c => pc'[d] = pc[d]
      BY <2>9 DEF ReleasePanic
    <3>3. QED
      BY <2>9, <3>1, <3>2 DEF ReleasePanic, CanceledHeld, semVars
  <2>10. QED
    BY <1>1, <2>2, <2>3, <2>4, <2>5, <2>6, <2>7, <2>8, <2>9 DEF CallStep
<1>2. CASE TakeNewGlobalDiagnostics \/ PublishGlobalDiagnostics \/ PublishFails
  BY <1>2 DEF TakeNewGlobalDiagnostics, PublishGlobalDiagnostics, PublishFails, CanceledHeld,
     semVars, callVars
<1>3. QED
  BY <1>1, <1>2 DEF Next

(* When callbacks do not nest and do not panic once their checker is       *)
(* canceled, no callback starts on a canceled checker, although the slot   *)
(* is released before the state is replaced.                               *)
THEOREM CanceledNeverReused ==
  ASSUME MaxDepth = 1, ~PanicAfterCancel
  PROVE  Spec => CanceledNotReused
<1>1. Init => CanceledHeld
  BY DEF Init, CanceledHeld
<1>2. IInv /\ CanceledHeld /\ [Next]_vars => CanceledHeld'
  <2>1. IInv /\ CanceledHeld /\ Next => CanceledHeld'
    BY StepCanceled
  <2>2. CanceledHeld /\ UNCHANGED vars => CanceledHeld'
    BY DEF vars, semVars, callVars, CanceledHeld
  <2>3. QED
    BY <2>1, <2>2
<1>3. IInv /\ CanceledHeld /\ [Next]_vars =>
        [\A c \in Calls : pc[c] = "acquired" /\ pc'[c] = "callback" => ~canceled[slot[c]]]_vars
  <2> SUFFICES ASSUME IInv, CanceledHeld, Next, NEW c \in Calls,
                      pc[c] = "acquired", pc'[c] = "callback"
               PROVE  ~canceled[slot[c]]
    OBVIOUS
  <2>1. slot[c] \in Slots
    BY DEF IInv, TypeOK, CallType
  <2>2. LockState(c)
    <3> USE DEF IInv, TypeOK, CallType
    <3>1. ASSUME NEW d \in Calls, CallStep(d), pc'[c] # pc[c] PROVE d = c \/ pc'[c] # "callback"
      <4>1. \A e \in Calls : Unwound(d)[e] = IF e = d THEN "idle" ELSE pc[e]
        BY DEF Unwound, Calls
      <4>2. CASE AcquirePanic(d) \/ UnwindRelease(d) \/ UnwindLeaked(d)
        BY <4>1, <4>2, <3>1 DEF AcquirePanic, UnwindRelease, UnwindLeaked, NotifyAll
      <4>3. CASE Release(d)
        BY <4>3, <3>1 DEF Release, NotifyAll
      <4>4. QED
        BY <3>1, <4>2, <4>3 DEF CallStep, Begin, TakeSlot, Wait, SpuriousWakeup, LockState,
           FindDiagnostic, MarkCanceled, CallbackPanic, ReleasePanic, Finish, UnwindState, callVars
    <3>2. CallStep(c)
      BY <3>1 DEF Next, TakeNewGlobalDiagnostics, PublishGlobalDiagnostics, PublishFails, callVars
    <3>3. QED
      BY <3>2 DEF CallStep, Begin, TakeSlot, Wait, SpuriousWakeup, AcquirePanic,
         FindDiagnostic, MarkCanceled, CallbackPanic, Release, ReleasePanic, ReleaseGuard,
         Finish, UnwindState, UnwindRelease, UnwindLeaked, callVars
  <2>3. ~semLocked[slot[c]]
    BY <2>2 DEF LockState
  <2>4. \A d \in Calls : HoldsState(d) => slot[d] # slot[c]
    BY <2>1, <2>3 DEF IInv, StateExclusion
  <2>5. QED
    BY <2>1, <2>4 DEF CanceledHeld, HoldsState
<1>4. QED
  BY <1>1, <1>2, <1>3, Inductive, PTL DEF Spec, CanceledNotReused

-----------------------------------------------------------------------------
(* Global diagnostics.  The count of a slot is the number of some of its   *)
(* diagnostics that have been collected; a canceled checker whose slot is  *)
(* released is counted as empty, which is what it will be once replaced.   *)
Counted ==
  \A s \in Slots : \E G \in SUBSET diags[s] : G \subseteq accumulated /\ Cardinality(G) = count[s]
ReleasedCanceled ==
  \A c \in Calls : pc[c] = "released" /\ canceled[slot[c]] => count[slot[c]] = 0

(* What a step does to diagnostics, counts and released calls: nothing,    *)
(* or it is one of the four that do.                                       *)
LEMMA DiagnosticKinds ==
  ASSUME TypeOK, [Next]_vars
  PROVE  \/ /\ UNCHANGED <<diags, count, canceled, accumulated>>
            /\ \A c \in Calls : pc'[c] = "released" => pc[c] = "released" /\ slot'[c] = slot[c]
         \/ \E c \in Calls : Release(c) \/ MarkCanceled(c) \/ Finish(c)
                             \/ \E d \in Diags : FindDiagnostic(c, d)
<1> USE DEF TypeOK, CallType
<1>1. ASSUME NEW c \in Calls, CallStep(c),
             ~(Release(c) \/ MarkCanceled(c) \/ Finish(c) \/ \E d \in Diags : FindDiagnostic(c, d))
      PROVE  /\ UNCHANGED <<diags, count, canceled, accumulated>>
             /\ \A e \in Calls : pc'[e] = "released" => pc[e] = "released" /\ slot'[e] = slot[e]
  <2>1. CASE \E a \in Arg : Begin(c, a)
    BY <2>1 DEF Begin, poolVars, semVars
  <2>2. CASE TakeSlot(c)
    BY <2>2 DEF TakeSlot, semVars
  <2>3. CASE Wait(c) \/ SpuriousWakeup(c) \/ CallbackPanic(c)
    BY <2>3 DEF Wait, SpuriousWakeup, CallbackPanic, poolVars, semVars
  <2>4. CASE LockState(c) \/ UnwindState(c)
    BY <2>4 DEF LockState, UnwindState, poolVars
  <2>5. CASE AcquirePanic(c)
    BY <2>5 DEF AcquirePanic, Unwound, Forget, poolVars, semVars
  <2>6. CASE UnwindRelease(c)
    BY <2>6 DEF UnwindRelease, Unwound, NotifyAll, Forget, semVars
  <2>7. CASE ReleasePanic(c)
    BY <2>7 DEF ReleasePanic, semVars
  <2>8. CASE UnwindLeaked(c)
    BY <2>8 DEF UnwindLeaked, Unwound, Forget, poolVars
  <2>9. QED
    BY <1>1, <2>1, <2>2, <2>3, <2>4, <2>5, <2>6, <2>7, <2>8 DEF CallStep
<1>2. CASE TakeNewGlobalDiagnostics \/ PublishGlobalDiagnostics \/ PublishFails
  BY <1>2 DEF TakeNewGlobalDiagnostics, PublishGlobalDiagnostics, PublishFails, poolVars, semVars,
     callVars
<1>3. CASE UNCHANGED vars
  BY <1>3 DEF vars, poolVars, semVars, callVars
<1>4. QED
  BY <1>1, <1>2, <1>3 DEF Next

(* No step separates a count from collected diagnostics.                   *)
LEMMA StepCounted ==
  ASSUME IInv, Counted, ReleasedCanceled, [Next]_vars
  PROVE  Counted' /\ ReleasedCanceled'
<1>0. /\ TypeOK /\ diags \in [Slots -> SUBSET Diags] /\ count \in [Slots -> Nat]
      /\ canceled \in [Slots -> BOOLEAN]
      /\ \A c \in Calls : pc[c] \in {"callback", "released"} => slot[c] \in Slots
      /\ \A c, d \in Calls :
            pc[c] \in {"callback", "released"} /\ pc[d] = "released" /\ slot[c] = slot[d] => c = d
  <2>1. /\ TypeOK /\ diags \in [Slots -> SUBSET Diags] /\ count \in [Slots -> Nat]
        /\ canceled \in [Slots -> BOOLEAN]
        /\ \A c \in Calls : pc[c] \in {"callback", "released"} => slot[c] \in Slots
    BY DEF IInv, TypeOK, PoolType, StateType, CallType
  <2>2. \A c, d \in Calls : HoldsState(c) /\ HoldsState(d) /\ slot[c] = slot[d] => c = d
    BY DEF IInv, StateExclusion
  <2>3. \A c \in Calls : pc[c] \in {"callback", "released"} => HoldsState(c)
    BY DEF HoldsState
  <2>4. ASSUME NEW c \in Calls, NEW d \in Calls, pc[c] \in {"callback", "released"},
               pc[d] = "released", slot[c] = slot[d]
        PROVE  c = d
    <3>1. HoldsState(c) /\ HoldsState(d)
      BY <2>3, <2>4
    <3> QED
      BY <2>2, <2>4, <3>1
  <2>5. QED
    BY <2>1, <2>4
<1>1. CASE /\ UNCHANGED <<diags, count, canceled, accumulated>>
           /\ \A c \in Calls : pc'[c] = "released" => pc[c] = "released" /\ slot'[c] = slot[c]
  BY <1>1 DEF Counted, ReleasedCanceled
<1>2. ASSUME NEW c \in Calls, Release(c) PROVE Counted' /\ ReleasedCanceled'
  <2> DEFINE s == slot[c]
  <2>1. /\ pc[c] = "callback" /\ s \in Slots /\ CollectDiagnostics(s)
        /\ pc' = NotifyAll([pc EXCEPT ![c] = "released"]) /\ UNCHANGED <<slot, diags, canceled>>
    BY <1>0, <1>2 DEF Release, ReleaseGuard, semVars
  <2>2. \A d \in Calls : pc'[d] = "released" => pc[d] = "released" \/ d = c
    BY <2>1 DEF NotifyAll, IInv, TypeOK, CallType
  <2>3. Cardinality({}) = 0
    BY FS_EmptySet
  <2>4. /\ accumulated \subseteq accumulated' /\ \A q \in Slots : q # s => count'[q] = count[q]
        /\ canceled[s] => count'[s] = 0
        /\ ~canceled[s] => count'[s] = count[s] \/ (count'[s] = Cardinality(diags[s])
                                                    /\ diags[s] \subseteq accumulated')
    BY <1>0, <2>1 DEF CollectDiagnostics
  <2>5. Counted'
    <3> SUFFICES ASSUME NEW q \in Slots
                 PROVE  \E G \in SUBSET diags[q] : G \subseteq accumulated' /\ Cardinality(G) = count'[q]
      BY <2>1 DEF Counted
    <3>1. CASE count'[q] = count[q]
      BY <2>4, <3>1 DEF Counted
    <3>2. CASE count'[q] = 0
      BY <2>3, <3>2
    <3>3. CASE count'[q] = Cardinality(diags[q]) /\ diags[q] \subseteq accumulated'
      BY <3>3
    <3>4. QED
      BY <2>4, <3>1, <3>2, <3>3
  <2>6. ReleasedCanceled'
    <3> SUFFICES ASSUME NEW d \in Calls, pc'[d] = "released", canceled[slot[d]]
                 PROVE  count'[slot[d]] = 0
      BY <2>1 DEF ReleasedCanceled
    <3>1. CASE d = c
      BY <2>4, <3>1
    <3>2. CASE d # c
      <4>1. pc[d] = "released" /\ slot[d] \in Slots /\ slot[d] # s
        BY <1>0, <2>1, <2>2, <3>2
      <4>2. QED
        BY <2>4, <4>1 DEF ReleasedCanceled
    <3>3. QED
      BY <3>1, <3>2
  <2>7. QED
    BY <2>5, <2>6
<1>3. ASSUME NEW c \in Calls, MarkCanceled(c) PROVE Counted' /\ ReleasedCanceled'
  <2>1. /\ pc[c] = "callback" /\ UNCHANGED <<diags, count, accumulated, pc, slot>>
        /\ canceled' = [canceled EXCEPT ![slot[c]] = TRUE]
    BY <1>3 DEF MarkCanceled, callVars, poolVars
  <2>2. \A d \in Calls : pc[d] = "released" => canceled'[slot[d]] = canceled[slot[d]]
    BY <1>0, <2>1
  <2>3. QED
    BY <2>1, <2>2 DEF Counted, ReleasedCanceled
<1>4. ASSUME NEW c \in Calls, Finish(c) PROVE Counted' /\ ReleasedCanceled'
  <2> DEFINE s == slot[c]
  <2>1. /\ pc[c] = "released" /\ s \in Slots /\ UNCHANGED <<count, accumulated>>
        /\ canceled' = [canceled EXCEPT ![s] = FALSE]
        /\ diags' = [diags EXCEPT ![s] = IF canceled[s] THEN {} ELSE @]
        /\ pc' = [pc EXCEPT ![c] = "idle"] /\ slot' = [slot EXCEPT ![c] = NoSlot]
    BY <1>0, <1>4 DEF Finish, Forget, poolVars
  <2>2. Counted'
    <3> SUFFICES ASSUME NEW q \in Slots
                 PROVE  \E G \in SUBSET diags'[q] : G \subseteq accumulated /\ Cardinality(G) = count[q]
      BY <2>1 DEF Counted
    <3>1. CASE q = s /\ canceled[s]
      <4>1. count[q] = 0
        BY <2>1, <3>1 DEF ReleasedCanceled
      <4>2. QED
        BY <4>1, FS_EmptySet
    <3>2. CASE ~(q = s /\ canceled[s])
      BY <1>0, <2>1, <3>2 DEF Counted
    <3>3. QED
      BY <3>1, <3>2
  <2>3. ReleasedCanceled'
    <3>1. \A d \in Calls : pc'[d] = "released" => /\ pc[d] = "released" /\ d # c
                                                  /\ slot'[d] = slot[d]
      BY <2>1 DEF IInv, TypeOK, CallType
    <3>2. \A d \in Calls : pc'[d] = "released" => canceled'[slot[d]] = canceled[slot[d]]
      BY <1>0, <2>1, <3>1
    <3>3. QED
      BY <2>1, <3>1, <3>2 DEF ReleasedCanceled
  <2>4. QED
    BY <2>2, <2>3
<1>5. ASSUME NEW c \in Calls, NEW d \in Diags, FindDiagnostic(c, d)
      PROVE  Counted' /\ ReleasedCanceled'
  <2>1. /\ pc[c] = "callback" /\ UNCHANGED <<count, canceled, accumulated, pc, slot>>
        /\ diags' = [diags EXCEPT ![slot[c]] = @ \cup {d}]
    BY <1>5 DEF FindDiagnostic, callVars, poolVars
  <2>2. \A q \in Slots : diags[q] \subseteq diags'[q]
    BY <1>0, <2>1
  <2>3. QED
    BY <2>1, <2>2 DEF Counted, ReleasedCanceled
<1>6. QED
  BY <1>0, <1>1, <1>2, <1>3, <1>4, <1>5, DiagnosticKinds

(* When release_checker skips collecting because a slot's count equals the *)
(* number of its diagnostics, they are all collected, although checkers    *)
(* are canceled, replaced and counted anew: the diagnostics counted are    *)
(* some of the slot's, and as many, so they are all of them.               *)
THEOREM CountShortcutIsSound == Spec => []CountShortcutSound
<1>1. Init => Counted /\ ReleasedCanceled
  <2> SUFFICES ASSUME Init PROVE Counted /\ ReleasedCanceled
    OBVIOUS
  <2>1. Counted
    BY FS_EmptySet DEF Init, Counted
  <2>2. ReleasedCanceled
    BY DEF Init, ReleasedCanceled
  <2>3. QED
    BY <2>1, <2>2
<1>2. IInv /\ Counted => CountShortcutSound
  <2> SUFFICES ASSUME IInv, Counted, NEW s \in Slots, Cardinality(diags[s]) = count[s]
               PROVE  diags[s] \subseteq accumulated
    BY DEF CountShortcutSound
  <2>1. PICK G \in SUBSET diags[s] : G \subseteq accumulated /\ Cardinality(G) = count[s]
    BY DEF Counted
  <2>2. IsFiniteSet(diags[s])
    BY DiagsAssumption, FS_Subset DEF IInv, TypeOK, StateType
  <2>3. G = diags[s]
    BY <2>1, <2>2, FS_Subset
  <2>4. QED
    BY <2>1, <2>3
<1>3. IInv /\ Counted /\ ReleasedCanceled /\ [Next]_vars => Counted' /\ ReleasedCanceled'
  BY StepCounted
<1>4. QED
  BY <1>1, <1>2, <1>3, Inductive, PTL DEF Spec

(* publish_global_diagnostics loses no notification: what it has not sent  *)
(* is flagged, or the publisher that took the flag has still to read, or   *)
(* the client refused the last publication.                                *)
THEOREM PublishIsPending == Spec => []PublishPending
<1>1. Init => PublishPending
  BY DEF Init, PublishPending
<1>2. IInv /\ PublishPending /\ [Next]_vars => PublishPending'
  <2> SUFFICES ASSUME IInv, PublishPending, [Next]_vars PROVE PublishPending'
    OBVIOUS
  <2> USE DEF PublishPending
  <2>1. ASSUME NEW c \in Calls, Release(c) PROVE PublishPending'
    BY <2>1 DEF Release, CollectDiagnostics, pubVars
  <2>2. CASE UNCHANGED <<accumulated, changed, pubVars>>
    BY <2>2 DEF pubVars
  <2>3. CASE TakeNewGlobalDiagnostics \/ PublishGlobalDiagnostics \/ PublishFails
    BY <2>3 DEF TakeNewGlobalDiagnostics, PublishGlobalDiagnostics, PublishFails, poolVars
  <2>4. ASSUME NEW c \in Calls, CallStep(c)
        PROVE  Release(c) \/ UNCHANGED <<accumulated, changed, pubVars>>
    BY <2>4 DEF CallStep, Begin, TakeSlot, Wait, SpuriousWakeup, AcquirePanic, LockState,
       FindDiagnostic, MarkCanceled, CallbackPanic, ReleasePanic, Finish, UnwindState, UnwindRelease,
       UnwindLeaked, poolVars
  <2>5. CASE UNCHANGED vars
    BY <2>2, <2>5 DEF vars, poolVars
  <2>6. QED
    BY <2>1, <2>2, <2>3, <2>4, <2>5 DEF Next
<1>3. QED
  BY <1>1, <1>2, Inductive, PTL DEF Spec
=============================================================================
