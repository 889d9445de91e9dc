----------------------------- MODULE LifoStack -----------------------------
(***************************************************************************)
(* What a cleanup stack promises: cleanups run in the reverse order of     *)
(* their registration, each one at most once, and only registered ones.    *)
(***************************************************************************)
EXTENDS Sequences, Naturals

CONSTANT Items

VARIABLES
  held,  \* cleanups registered and not run yet, oldest first
  ran    \* cleanups run, in that order

Init == held = <<>> /\ ran = <<>>

Register(i) ==
  /\ held' = Append(held, i)
  /\ UNCHANGED ran

Run ==
  /\ held # <<>>
  /\ held' = SubSeq(held, 1, Len(held) - 1)
  /\ ran' = Append(ran, held[Len(held)])

Next == Run \/ \E i \in Items : Register(i)

Spec == Init /\ [][Next]_<<held, ran>>
=============================================================================
