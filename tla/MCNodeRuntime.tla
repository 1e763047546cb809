--------------------------- MODULE MCNodeRuntime ---------------------------
(* Values of the constants for the runs of NodeRuntime.  *)
EXTENDS NodeRuntime, TLC
CONSTANTS a, b, d, e

AnyStart == Names \X Devices
OneEach == {<<a, d>>, <<b, e>>}
Symmetry == Permutations(Names) \cup Permutations(Commands)
=============================================================================
