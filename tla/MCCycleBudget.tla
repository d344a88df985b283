--------------------------- MODULE MCCycleBudget ---------------------------
(* CycleBudget with the constants of precheck.py. *)
EXTENDS CycleBudget
\* Quick, one slow call each, and every combination of extra calls at its limit.
MCSeconds == {0, 6, 11, 14, 15, 19, 20, 25, 30}
\* A poll fails at once or after byAir's whole timeout.
MCFailing == {0, 6}
=============================================================================
