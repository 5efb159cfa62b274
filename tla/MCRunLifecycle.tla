--------------------------- MODULE MCRunLifecycle ---------------------------
EXTENDS RunLifecycle, TLC

(* Processes are compared, never chosen among: any two may be swapped.  So  *)
(* may the names that servers offer.                                        *)
Interchangeable == Permutations(Procs) \cup Permutations(Tools \ Builtins)
=============================================================================
