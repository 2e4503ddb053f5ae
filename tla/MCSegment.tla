----------------------------- MODULE MCSegment -----------------------------
(* Two runs, two builds, two months.  Runs and builds are interchangeable. *)
EXTENDS SegmentChain, TLC

Symmetry == Permutations(Runs) \cup Permutations(Builds)
=============================================================================
