---------------------------- MODULE CleanupStack ----------------------------
(***************************************************************************)
(* stack.c and functional_stack.c: the growing array on which gdi_init and *)
(* ci_init register how to release what they acquire.                      *)
(*                                                                         *)
(* The owner registers cleanups, may take back the one it just registered  *)
(* (create_oauth_header), and in the end pops everything and destroys the  *)
(* stack (gdi_destroy, ci_destroy, the two ends of gdi_init).  Every       *)
(* malloc may fail; nobody looks at the result of a push.                  *)
(***************************************************************************)
EXTENDS Integers, Sequences

CONSTANTS
  Items,     \* the cleanups, each one registered at most once
  NULL,
  InitSize,  \* slots the stack is created with: 20 or 10 in the code
  Increment, \* slots a growth adds: 10 in the code
  NoMemory   \* which allocations may fail: "create", "item", "grow"

ASSUME CleanupStackAssumption ==
  /\ NULL \notin Items
  /\ InitSize \in Nat /\ InitSize >= 2
  /\ Increment \in Nat \ {0}
  /\ NoMemory \subseteq {"create", "item", "grow"}

VARIABLES
  phase,     \* "new", "filling", "draining", "destroyed", "refused", "crashed"
  reserved,  \* stack->reserved
  size,      \* stack->size
  top,       \* stack->top - stack->store
  store,     \* the slots
  ran,       \* cleanups that ran, in order
  accepted,  \* history: cleanups whose push returned 0
  lost       \* history: cleanups whose push failed, or that were dropped

vars == <<phase, reserved, size, top, store, ran, accepted, lost>>

Slots(n) == 0..(n - 1)
Elements(s) == {s[j] : j \in DOMAIN s}

TypeOK ==
  /\ phase \in {"new", "filling", "draining", "destroyed", "refused", "crashed"}
  /\ reserved \in Nat
  /\ size \in Nat
  /\ top \in Nat
  /\ store \in [Slots(reserved) -> Items \cup {NULL}]
  /\ ran \in Seq(Items)
  /\ accepted \subseteq Items
  /\ lost \subseteq Items

Init ==
  /\ phase = "new"
  /\ reserved = 0 /\ size = 0 /\ top = 0
  /\ store = [j \in Slots(0) |-> NULL]
  /\ ran = <<>>
  /\ accepted = {} /\ lost = {}

(* fstack_init returns no value: ci_init does not look, gdi_init may find  *)
(* either outcome, whether the slots were allocated or not.                *)
Create ==
  /\ phase = "new"
  /\ phase' \in {"filling", "refused"}
  /\ \/ reserved' = InitSize
     \/ "create" \in NoMemory /\ reserved' = 0
  /\ store' = [j \in Slots(reserved') |-> NULL]
  /\ UNCHANGED <<size, top, ran, accepted, lost>>

-----------------------------------------------------------------------------
(* fstack_push                                                             *)

Pushable(i) == phase = "filling" /\ i \notin accepted \cup lost

(* No memory for the item or for its function: the cleanup is forgotten.   *)
PushNoItem(i) ==
  /\ "item" \in NoMemory
  /\ Pushable(i)
  /\ lost' = lost \cup {i}
  /\ UNCHANGED <<phase, reserved, size, top, store, ran, accepted>>

(* Faulty: the array grows one push too late.                              *)
NeedsGrowthLate(s) == s = reserved + 1

(* !(stack->reserved - ++stack->size)                                      *)
NeedsGrowth(s) == s = reserved

(* The slot after top, which a push with room left writes to.              *)
PushInPlace(i) ==
  /\ Pushable(i) /\ ~NeedsGrowth(size + 1)
  /\ top + 1 \in DOMAIN store
  /\ size' = size + 1
  /\ top' = top + 1
  /\ store' = [store EXCEPT ![top + 1] = i]
  /\ accepted' = accepted \cup {i}
  /\ UNCHANGED <<phase, reserved, ran, lost>>

(* The same push on a stack whose creation failed unnoticed.               *)
PushOutside(i) ==
  /\ Pushable(i) /\ ~NeedsGrowth(size + 1)
  /\ top + 1 \notin DOMAIN store
  /\ phase' = "crashed"
  /\ UNCHANGED <<reserved, size, top, store, ran, accepted, lost>>

(* Faulty: realloc's result is not stored.                                 *)
GrownNot(r) == store

(* realloc and memset in stack_resize.                                     *)
Grown(r) == [j \in Slots(r) |-> IF j < reserved THEN store[j] ELSE NULL]

(* Faulty: top is left at the start of the new array.                      *)
TopAtStart(s) == 0

(* stack_resize sets top from the size that push has already incremented.  *)
TopAfterGrowth(s) == s - 1

PushGrowing(i) ==
  /\ Pushable(i) /\ NeedsGrowth(size + 1)
  /\ size' = size + 1
  /\ reserved' = reserved + Increment
  /\ top' = TopAfterGrowth(size + 1) + 1
  /\ store' = [Grown(reserved + Increment) EXCEPT ![top'] = i]
  /\ accepted' = accepted \cup {i}
  /\ UNCHANGED <<phase, ran, lost>>

(* realloc failed: the push returns the old size, which is not 0.          *)
PushNoGrowth(i) ==
  /\ "grow" \in NoMemory
  /\ Pushable(i) /\ NeedsGrowth(size + 1)
  /\ lost' = lost \cup {i}
  /\ UNCHANGED <<phase, reserved, size, top, store, ran, accepted>>

-----------------------------------------------------------------------------
(* fstack_pop and fstack_destroy                                           *)

(* stack_pop leaves top where it is when it takes the last item.           *)
Pop ==
  /\ size > 0
  /\ size' = size - 1
  /\ top' = IF size - 1 > 0 THEN top - 1 ELSE top
  /\ ran' = Append(ran, store[top])
  /\ UNCHANGED <<phase, reserved, store, accepted, lost>>

(* create_oauth_header takes its cleanup back; older ones are below it.    *)
TakeBack == phase = "filling" /\ size > 1 /\ Pop

StartDraining ==
  /\ phase = "filling"
  /\ phase' = "draining"
  /\ UNCHANGED <<reserved, size, top, store, ran, accepted, lost>>

Drain == phase = "draining" /\ Pop

(* Faulty: the loop of the owner ends one item early.                      *)
DrainedAlmost == size <= 1

(* while(stack->size) fstack_pop(stack);                                   *)
Drained == size = 0

(* What is still on the stack would be freed without being run.            *)
Destroy ==
  /\ phase = "draining" /\ Drained
  /\ phase' = "destroyed"
  /\ lost' = lost \cup {store[j] : j \in {k \in DOMAIN store : top - size < k /\ k <= top}}
  /\ reserved' = 0 /\ size' = 0 /\ top' = 0
  /\ store' = [j \in Slots(0) |-> NULL]
  /\ UNCHANGED <<ran, accepted>>

Stopped == phase \in {"destroyed", "refused", "crashed"} /\ UNCHANGED vars

Next ==
  \/ Create \/ TakeBack \/ StartDraining \/ Drain \/ Destroy \/ Stopped
  \/ \E i \in Items :
       PushNoItem(i) \/ PushInPlace(i) \/ PushOutside(i) \/ PushGrowing(i) \/ PushNoGrowth(i)

Spec == Init /\ [][Next]_vars

-----------------------------------------------------------------------------
(* Properties                                                              *)

(* A push writes outside the array only if creating the stack had failed   *)
(* and its owner did not notice.                                           *)
NeverOverruns == phase = "crashed" => reserved = 0

(* When the stack is gone, every cleanup that was accepted has run, and    *)
(* none that was refused.                                                  *)
NothingForgotten ==
  /\ phase = "destroyed" => accepted = Elements(ran)
  /\ lost \cap Elements(ran) = {}

(* The array of slots implements the stack of cleanups.                    *)
Promise == INSTANCE LifoStack WITH held <- [j \in 1..size |-> store[top - size + j]]
ImplementsLifo == Promise!Spec
=============================================================================
