------------------------ MODULE MCTestCentrePoller -------------------------
(* TestCentrePoller on small sets of keys and interchangeable details.     *)
EXTENDS TestCentrePoller, TLC

InterchangeableDetails == Permutations(Details)

=============================================================================
