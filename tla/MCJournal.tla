----------------------------- MODULE MCJournal -----------------------------
(* Model-checking instance of JournalService: callers, shards and        *)
(* segments are model values.                                             *)
EXTENDS JournalService, TLC

CallerSymmetry == Permutations(Callers)
=============================================================================
