----------------------------- MODULE MCPrintRun -----------------------------
(* PrintRun on a small instance: two supported widths, and in a job as many *)
(* labels as the configuration says.  Jobs, cuts, polls, swaps and         *)
(* restarts are unbounded.                                                 *)
EXTENDS PrintRun, TLC

CONSTANTS t12, t24, t0

MCTapes == {t12, t24}
TapeSymmetry == Permutations(MCTapes)
=============================================================================
