----------------------------- MODULE MCConsumer -----------------------------
(***************************************************************************)
(* Instances of Consumer for TLC.                                          *)
(***************************************************************************)
EXTENDS ConsumerProperties, TLC

\* Sound where Batch is empty or all of Jobs, and for safety only.
Symmetry ==
    Permutations(Workers) \cup Permutations(Slots) \cup Permutations(Jobs)
=============================================================================
