-------------------------- MODULE MCJournalPoller --------------------------
(***************************************************************************)
(* JournalPoller on small sets.  Staff numbers, contents and containers    *)
(* are interchangeable; the runs without a temporal property use that.     *)
(***************************************************************************)
EXTENDS JournalPoller, TLC

InterchangeableJournals == Permutations(Staff) \cup Permutations(Contents)
InterchangeableContainers == Permutations(Contents) \cup Permutations(Containers)

=============================================================================
