------------------------- MODULE CleanupStackProofs -------------------------
(***************************************************************************)
(* Theorems about CleanupStack, for every initial size of at least two     *)
(* slots, every increment and every pattern of allocation failures.        *)
(***************************************************************************)
EXTENDS CleanupStack, TLAPS

(* The slots in use are 1..size, and there is room above them.             *)
Shape ==
  /\ size > 0 => top = size /\ size < reserved
  /\ phase = "new" => size = 0 /\ top = 0
  /\ phase = "filling" => top = size /\ (reserved = 0 => size = 0)
                                     /\ (reserved # 0 => size < reserved)
  /\ phase = "crashed" => reserved = 0
  /\ phase = "destroyed" => size = 0
  /\ \A j \in 1..size : store[j] \in Items

InUse == {store[j] : j \in 1..size}

(* Every accepted cleanup has run or is on the stack.                      *)
Accounted ==
  /\ accepted = Elements(ran) \cup InUse
  /\ lost \cap accepted = {}

Inv == TypeOK /\ Shape /\ Accounted

LEMMA InvInit == Init => Inv
<1> SUFFICES ASSUME Init PROVE Inv
  OBVIOUS
<1>1. TypeOK
  BY DEF Init, TypeOK, Slots
<1>2. Shape
  BY DEF Init, Shape
<1>3. InUse = {} /\ Elements(ran) = {}
  BY DEF Init, InUse, Elements
<1> QED
  BY <1>1, <1>2, <1>3 DEF Init, Inv, Accounted

LEMMA ElementsAppend ==
  ASSUME NEW s \in Seq(Items), NEW x \in Items
  PROVE  Elements(Append(s, x)) = Elements(s) \cup {x}
<1>1. DOMAIN s = 1..Len(s) /\ DOMAIN Append(s, x) = 1..(Len(s) + 1) /\ Len(s) \in Nat
  OBVIOUS
<1>2. /\ Append(s, x)[Len(s) + 1] = x
      /\ \A j \in 1..Len(s) : Append(s, x)[j] = s[j]
  OBVIOUS
<1>3. \A j \in 1..(Len(s) + 1) : j \in 1..Len(s) \/ j = Len(s) + 1
  BY <1>1
<1> QED
  BY <1>1, <1>2, <1>3 DEF Elements

LEMMA PopStep ==
  ASSUME Inv, Pop
  PROVE  /\ TypeOK'
         /\ Accounted'
         /\ size' = size - 1 /\ UNCHANGED <<phase, reserved, store>>
         /\ top = size /\ top' = IF size' > 0 THEN size' ELSE 1
         /\ \A j \in 1..size' : store[j] \in Items
<1> USE DEF Inv, TypeOK, Shape, Pop
<1>1. top = size /\ size < reserved /\ size \in 1..size /\ store[size] \in Items
  OBVIOUS
<1>2. ran' = Append(ran, store[size]) /\ store[size] \in Items
  BY <1>1
<1>3. TypeOK'
  BY <1>1, <1>2
<1>4. InUse = InUse' \cup {store[size]}
  BY <1>1 DEF InUse
<1>5. Accounted'
  BY <1>2, <1>4, ElementsAppend DEF Accounted
<1> QED
  BY <1>1, <1>3, <1>5

LEMMA InvStep == Inv /\ [Next]_vars => Inv'
<1> SUFFICES ASSUME Inv, [Next]_vars PROVE Inv'
  OBVIOUS
<1> USE CleanupStackAssumption
<1>1. CASE Create
  BY <1>1 DEF Inv, TypeOK, Shape, Accounted, InUse, Create, Slots
<1>2. CASE TakeBack
  BY <1>2, PopStep DEF Inv, Shape, TakeBack, TypeOK
<1>3. CASE StartDraining
  BY <1>3 DEF Inv, TypeOK, Shape, Accounted, InUse, StartDraining
<1>4. CASE Drain
  BY <1>4, PopStep DEF Inv, Shape, Drain, TypeOK
<1>5. CASE Destroy
  <2>1. size = 0 /\ lost' = lost
    BY <1>5 DEF Destroy, Drained, Inv, TypeOK
  <2> QED
    BY <1>5, <2>1 DEF Inv, TypeOK, Shape, Accounted, InUse, Destroy, Slots
<1>6. ASSUME NEW i \in Items, PushNoItem(i) \/ PushNoGrowth(i) PROVE Inv'
  BY <1>6 DEF Inv, TypeOK, Shape, Accounted, InUse, PushNoItem, PushNoGrowth, Pushable
<1>7. ASSUME NEW i \in Items, PushInPlace(i) PROVE Inv'
  <2>1. size' = size + 1 /\ top' = top + 1 /\ top = size /\ size + 1 < reserved
    BY <1>7 DEF PushInPlace, Pushable, Inv, Shape, TypeOK, Slots, NeedsGrowth
  <2>2. store' = [store EXCEPT ![size + 1] = i] /\ reserved' = reserved
    BY <1>7, <2>1 DEF PushInPlace
  <2>3. TypeOK'
    BY <1>7, <2>1, <2>2 DEF PushInPlace, Inv, TypeOK, Slots
  <2>4. store'[size + 1] = i /\ \A j \in 1..size : store'[j] = store[j]
    BY <2>1, <2>2 DEF Inv, TypeOK, Slots
  <2>5. Shape'
    BY <1>7, <2>1, <2>4 DEF PushInPlace, Pushable, Inv, TypeOK, Shape
  <2>6. InUse' = InUse \cup {i}
    BY <2>1, <2>4 DEF InUse, Inv, TypeOK
  <2> QED
    BY <1>7, <2>3, <2>5, <2>6 DEF Inv, Accounted, PushInPlace, Pushable
<1>8. ASSUME NEW i \in Items, PushOutside(i) PROVE Inv'
  BY <1>8 DEF Inv, TypeOK, Shape, Accounted, InUse, PushOutside, Pushable, Slots, NeedsGrowth
<1>9. ASSUME NEW i \in Items, PushGrowing(i) PROVE Inv'
  <2>1. /\ size' = size + 1 /\ top' = size + 1 /\ top = size
        /\ size + 1 = reserved /\ reserved' = reserved + Increment
    BY <1>9 DEF PushGrowing, Pushable, NeedsGrowth, TopAfterGrowth, Inv, Shape, TypeOK
  <2>2. store' = [[j \in Slots(reserved') |-> IF j < reserved THEN store[j] ELSE NULL]
                    EXCEPT ![size + 1] = i]
    BY <1>9, <2>1 DEF PushGrowing, Grown
  <2>3. TypeOK'
    <3>1. /\ store \in [Slots(reserved) -> Items \cup {NULL}]
          /\ reserved \in Nat /\ size \in Nat /\ Increment \in Nat
      BY DEF Inv, TypeOK
    <3>2. \A j \in Slots(reserved') :
            (IF j < reserved THEN store[j] ELSE NULL) \in Items \cup {NULL}
      BY <3>1 DEF Slots
    <3>3. store' \in [Slots(reserved') -> Items \cup {NULL}]
      BY <2>2, <3>2
    <3>4. reserved' \in Nat /\ size' \in Nat /\ top' \in Nat
      BY <2>1, <3>1
    <3> QED
      BY <1>9, <3>3, <3>4 DEF PushGrowing, Pushable, Inv, TypeOK
  <2>4. store'[size + 1] = i /\ \A j \in 1..size : store'[j] = store[j]
    BY <2>1, <2>2 DEF Inv, TypeOK, Slots
  <2>5. Shape'
    BY <1>9, <2>1, <2>4 DEF PushGrowing, Pushable, Inv, TypeOK, Shape
  <2>6. InUse' = InUse \cup {i}
    BY <2>1, <2>4 DEF InUse, Inv, TypeOK
  <2> QED
    BY <1>9, <2>3, <2>5, <2>6 DEF Inv, Accounted, PushGrowing, Pushable
<1>10. CASE UNCHANGED vars
  BY <1>10 DEF vars, Inv, TypeOK, Shape, Accounted, InUse
<1> QED
  BY <1>1, <1>2, <1>3, <1>4, <1>5, <1>6, <1>7, <1>8, <1>9, <1>10 DEF Next, Stopped

(* Every variable always has its type; the slots are those reserved.       *)
THEOREM StackTypeCorrect == Spec => []TypeOK
<1>1. Inv => TypeOK
  BY DEF Inv
<1> QED
  BY <1>1, InvInit, InvStep, PTL DEF Spec

(* stack_push writes inside the array unless its creation had failed, for  *)
(* any sizes the array grows through.                                      *)
THEOREM StackNeverOverruns == Spec => []NeverOverruns
<1>1. Inv => NeverOverruns
  BY DEF Inv, Shape, NeverOverruns
<1> QED
  BY <1>1, InvInit, InvStep, PTL DEF Spec

(* No accepted cleanup is forgotten and no refused one runs.               *)
THEOREM StackForgetsNothing == Spec => []NothingForgotten
<1>1. Inv => NothingForgotten
  BY DEF Inv, TypeOK, Shape, Accounted, InUse, NothingForgotten
<1> QED
  BY <1>1, InvInit, InvStep, PTL DEF Spec
-----------------------------------------------------------------------------
(* The array implements the abstract stack                                 *)

Held == [j \in 1..size |-> store[top - size + j]]

LEMMA HeldSlots ==
  Inv => /\ Held = [j \in 1..size |-> store[j]]
         /\ Held \in Seq(Items) /\ Len(Held) = size
<1> SUFFICES ASSUME Inv
    PROVE  /\ Held = [j \in 1..size |-> store[j]]
           /\ Held \in Seq(Items) /\ Len(Held) = size
  OBVIOUS
<1> USE DEF Inv, TypeOK, Shape, Held
<1>1. CASE size = 0
  BY <1>1
<1>2. CASE size > 0
  <2>1. top = size /\ \A j \in 1..size : top - size + j = j
    BY <1>2
  <2> QED
    BY <2>1
<1> QED
  BY <1>1, <1>2

LEMMA PushMaps ==
  ASSUME Inv, Inv', NEW i \in Items,
         size' = size + 1, store'[size + 1] = i, ran' = ran,
         \A j \in 1..size : store'[j] = store[j]
  PROVE  Promise!Next
<1>1. Held' = [j \in 1..(size + 1) |-> store'[j]] /\ Held = [j \in 1..size |-> store[j]]
  <2>1. (Held = [j \in 1..size |-> store[j]])'
    BY HeldSlots, PTL
  <2> QED
    BY <2>1, HeldSlots
<1>2. size \in Nat
  BY DEF Inv, TypeOK
<1>3. Held' = Append(Held, i)
  BY <1>1, <1>2, HeldSlots
<1> QED
  BY <1>3 DEF Promise!Next, Promise!Register, Held

LEMMA PopMaps ==
  ASSUME Inv, Inv', Pop
  PROVE  Promise!Next
<1>1. Held = [j \in 1..size |-> store[j]] /\ size \in Nat /\ size > 0 /\ top = size
  BY HeldSlots DEF Inv, TypeOK, Shape, Pop
<1>2. Held' = [j \in 1..(size - 1) |-> store[j]]
  <2>1. (Held = [j \in 1..size |-> store[j]])'
    BY HeldSlots, PTL
  <2> QED
    BY <2>1 DEF Pop
<1>3. Held \in Seq(Items) /\ Len(Held) = size /\ Held # <<>>
  BY <1>1, HeldSlots
<1>4. Held' = SubSeq(Held, 1, Len(Held) - 1)
  BY <1>1, <1>2, <1>3
<1>5. ran' = Append(ran, Held[Len(Held)])
  BY <1>1, <1>3 DEF Pop
<1> QED
  BY <1>3, <1>4, <1>5 DEF Promise!Next, Promise!Run, Held

LEMMA StepMaps ==
  ASSUME Inv, Inv', [Next]_vars
  PROVE  [Promise!Next]_<<Held, ran>>
<1>1. CASE Create
  BY <1>1 DEF Create, Held, Inv, Shape
<1>2. CASE TakeBack \/ Drain
  BY <1>2, PopMaps DEF TakeBack, Drain
<1>3. CASE StartDraining
  BY <1>3 DEF StartDraining, Held
<1>4. CASE Destroy
  BY <1>4 DEF Destroy, Drained, Held
<1>5. ASSUME NEW i \in Items, PushNoItem(i) \/ PushOutside(i) \/ PushNoGrowth(i)
      PROVE  UNCHANGED <<Held, ran>>
  BY <1>5 DEF PushNoItem, PushOutside, PushNoGrowth, Held
<1>6. ASSUME NEW i \in Items, PushInPlace(i) PROVE Promise!Next
  <2>1. top = size /\ size \in Nat
    BY <1>6 DEF PushInPlace, Pushable, Inv, Shape, TypeOK
  <2>2. store'[size + 1] = i /\ \A j \in 1..size : store'[j] = store[j]
    BY <1>6, <2>1 DEF PushInPlace, Inv, TypeOK, Shape, Slots
  <2> QED
    BY <1>6, <2>2, PushMaps DEF PushInPlace
<1>7. ASSUME NEW i \in Items, PushGrowing(i) PROVE Promise!Next
  <2>1. /\ size \in Nat /\ size + 1 = reserved /\ top' = size + 1
        /\ reserved + Increment > size + 1 /\ reserved + Increment \in Nat
    BY <1>7, CleanupStackAssumption
    DEF PushGrowing, NeedsGrowth, TopAfterGrowth, Inv, TypeOK
  <2>2. store'[size + 1] = i /\ \A j \in 1..size : store'[j] = store[j]
    BY <1>7, <2>1 DEF PushGrowing, Grown, Slots
  <2> QED
    BY <1>7, <2>2, PushMaps DEF PushGrowing
<1>8. CASE UNCHANGED vars
  BY <1>8 DEF vars, Held
<1> QED
  BY <1>1, <1>2, <1>3, <1>4, <1>5, <1>6, <1>7, <1>8 DEF Next, Stopped

(* The growing array runs the cleanups as the abstract stack does: last    *)
(* registered first, whatever the sizes and whichever allocations fail.    *)
THEOREM StackIsLifo == Spec => ImplementsLifo
<1>1. Init => Promise!Init
  BY DEF Init, Promise!Init
<1>2. Inv /\ Inv' /\ [Next]_vars => [Promise!Next]_<<Held, ran>>
  BY StepMaps
<1> QED
  BY <1>1, <1>2, InvInit, InvStep, PTL DEF Spec, ImplementsLifo, Promise!Spec, Held
=============================================================================
