-------------------------- MODULE MCJournalSystem --------------------------
(***************************************************************************)
(* JournalSystem on small sets of interchangeable contents.                *)
(***************************************************************************)
EXTENDS JournalSystem, TLC

InterchangeableContents == Permutations(Contents)

=============================================================================
