----------------------------- MODULE MCAgent -----------------------------
(***************************************************************************)
(* A small instance of Agent for TLC.                                      *)
(***************************************************************************)
EXTENDS Agent

\* Bound: backups in backup/ at a time, finished or not.
CONSTANT MaxSets

\* What a backup contains plays no part in the properties of the run: a
\* behaviour has backups or writes, not both.
FewSets == Cardinality(sets) <= MaxSets /\ (sets # {} => writes = 0)

=============================================================================
