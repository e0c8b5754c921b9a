-------------------------------- MODULE ApiCall --------------------------------
(* What the calls of the API's services have in common: each runs statement by *)
(* statement, none of them in a transaction, and any statement may fail (the    *)
(* database or a provider throws, or the process goes down).  What was written  *)
(* before stays.                                                                *)
EXTENDS CoreTime

CONSTANT MaxFailures  \* bound: statements that fail

ASSUME FailureAssumption == MaxFailures \in Nat

VARIABLE failures     \* how many have failed so far

\* A statement that fails, and one that does not.
Fails == failures < MaxFailures /\ failures' = failures + 1
Works == UNCHANGED failures
=============================================================================
