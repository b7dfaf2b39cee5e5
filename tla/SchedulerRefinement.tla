------------------------- MODULE SchedulerRefinement ------------------------
(***************************************************************************)
(* The parallel scheduler as an implementation of the block in order: the  *)
(* outcomes of SequentialBlock are those handed over and those in progress.*)
(***************************************************************************)
EXTENDS SchedulerProperties

SB == INSTANCE SequentialBlock WITH outcomes <- results \o output

\* Whatever the interleaving of workers, finality, commit and recovery, the
\* state, the outcomes and the returned error evolve as if the transactions
\* ran one after the other in block order (scheduler.rs, ordered_commit.rs
\* and fallback.rs together).
BlockOrder == SB!BlockSpec

\* The state and the outcomes alone, whatever error is returned.
StateInBlockOrder == SB!BlockInit /\ [][SB!BlockNext]_<<store, results \o output>>

=============================================================================
