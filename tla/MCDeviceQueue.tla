--------------------------- MODULE MCDeviceQueue ---------------------------
(* DeviceQueue on a small instance.  Polls, pauses and resumes are         *)
(* unbounded; jobs and cuts are bounded by the constants.                  *)
EXTENDS DeviceQueue, TLC

CONSTANTS c1, c2

TwoCuts == {c1, c2}
OneCut  == {c1}
CutSymmetry == Permutations(TwoCuts)
=============================================================================
