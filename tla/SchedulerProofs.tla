--------------------------- MODULE SchedulerProofs --------------------------
(***************************************************************************)
(* The safety theorems of the scheduler, for every block, any number of    *)
(* workers and every EVM: its invariants from the steps the other modules  *)
(* go through, and the refinement of SequentialBlock.                      *)
(***************************************************************************)
EXTENDS SchedulerTypeProofs, SchedulerOwnershipProofs, SchedulerReadsProofs,
        SchedulerValueProofs, SchedulerRefinement

USE DEF ctxVars, depVars, specVars, txVars, blockVars, workerVars, finalityVars

-----------------------------------------------------------------------------
(* The block in order                                                      *)

\* Every step keeps what has been read, published and committed in agreement.
LEMMA ValueStep ==
  ASSUME TypeInv, TypeInv', OwnInv, OutcomeInv, MemoryInv, FinalReadsCurrent, ValueInv, [Next]_vars
  PROVE  ValueInv'
<1>1. /\ \A x \in Tx : TxValue(x) /\ TxTrace(x)
      /\ \A v \in Workers : WorkerValue(v) /\ WorkerTrace(v)
      /\ StoreInv
  BY ZenonT(60) DEF ValueInv
<1>2. (\A x \in Tx : TxValue(x)') /\ (\A v \in Workers : WorkerValue(v)')
  BY ZenonT(60), <1>1, ValuesKept
<1>3. (\A x \in Tx : TxTrace(x)') /\ (\A v \in Workers : WorkerTrace(v)')
  BY ZenonT(60), <1>1, TracesKept
<1>4. StoreInv'
  BY ZenonT(60), <1>1, StoreKept
<1> QED
  BY ZenonT(60), <1>2, <1>3, <1>4 DEF ValueInv

\* The block's own notions of an execution are those of the scheduler.
LEMMA SameBlock ==
  ASSUME NEW t, NEW st, NEW vals
  PROVE  /\ SB!Run(t, st, vals) <=> Run(t, st, vals)
         /\ SB!Changes(t, vals) = Changes(t, vals)
         /\ SB!DeferredReward(t, vals) = DeferredReward(t, vals)
         /\ SB!Executed(vals) = Executed(vals) /\ SB!Skipped = Skipped
         /\ SB!Readings = Readings
<1>1. SB!Run(t, st, vals) <=> Run(t, st, vals)
  BY ZenonT(60) DEF SB!Run, Run, SB!Asked, Asked, SB!Asks, Asks, SB!Restricted, Restricted
<1>2. SB!Changes(t, vals) = Changes(t, vals)
  BY ZenonT(60) DEF SB!Changes, Changes, SB!With, With, SB!Credit, Credit
<1>3. SB!DeferredReward(t, vals) = DeferredReward(t, vals)
  BY ZenonT(60) DEF SB!DeferredReward, DeferredReward
<1>4. /\ SB!Executed(vals) = Executed(vals) /\ SB!Skipped = Skipped
      /\ SB!Readings = Readings
  BY ZenonT(60) DEF SB!Executed, Executed, SB!Skipped, Skipped, SB!Nothing, Nothing,
     SB!Readings, Readings
<1> QED
  BY ZenonT(60), <1>1, <1>2, <1>3, <1>4

\* Both specifications apply a result to the state in the same way.
LEMMA SameApply ==
  ASSUME NEW st, NEW changes, NEW reward
  PROVE  SB!Apply(st, changes, reward) = Apply(st, changes, reward)
BY ZenonT(60) DEF SB!Apply, Apply, SB!Credit, Credit

\* The next transaction of the block takes effect: an outcome more, with what it says.
LEMMA ExecutesNext ==
  ASSUME TypeInv, NEW t \in Tx, t = Len(results \o output), error = NoTx, NEW vals \in Readings,
         Executes(t, vals)
  PROVE  SB!BlockNext
<1>1. results \in Seq(Outcomes) /\ output \in Seq(Outcomes) /\ t < N
  <2>1. t < N
    BY ZenonT(60), PositionOrder
  <2> QED
    BY ZenonT(60), <2>1 DEF TypeInv, TypeOK, BlockTypeOK
<1>2. Executed(vals) \in Outcomes /\ Executed(vals).vals = vals
  BY ZenonT(60) DEF Executed, Outcomes
<1>3. PICK more : more = (results \o output)'
  BY ZenonT(60)
<1>4. more = results \o Append(output, Executed(vals))
  BY ZenonT(60), <1>3 DEF Executes
<1>5. /\ more = Append(results \o output, Executed(vals)) /\ Len(more) = t + 1
      /\ more[t + 1] = Executed(vals)
  <2>1. PICK o \in Outcomes : o = Executed(vals)
    BY ZenonT(60), <1>2
  <2>2. /\ results \o Append(output, o) = Append(results \o output, o)
        /\ Len(Append(results \o output, o)) = Len(results \o output) + 1
        /\ Append(results \o output, o)[Len(results \o output) + 1] = o
    BY ZenonT(60), <1>1, OutcomeAdded
  <2> QED
    BY ZenonT(60), <1>4, <2>1, <2>2
<1>6. /\ SB!Run(t, store, vals) /\ SB!Executed(vals) = Executed(vals)
      /\ store' = SB!Apply(store, SB!Changes(t, vals), SB!DeferredReward(t, vals))
  BY ZenonT(60), SameBlock, SameApply DEF Executes
<1>7. more[t + 1].vals = vals
  BY ZenonT(60), <1>2, <1>5
<1>8. SB!ExecuteNext(t)
  BY ZenonT(60), <1>3, <1>5, <1>6, <1>7 DEF Executes, SB!ExecuteNext, SB!RunsOk
<1> QED
  BY ZenonT(60), <1>1, <1>8 DEF SB!BlockNext

\* ... is skipped ...
LEMMA SkipsNext ==
  ASSUME TypeInv, NEW t \in Tx, t = Len(results \o output), error = NoTx, NEW vals \in Readings,
         Skips(t, vals)
  PROVE  SB!BlockNext
<1>1. results \in Seq(Outcomes) /\ output \in Seq(Outcomes) /\ t < N
  <2>1. t < N
    BY ZenonT(60), PositionOrder
  <2> QED
    BY ZenonT(60), <2>1 DEF TypeInv, TypeOK, BlockTypeOK
<1>2. Skipped \in Outcomes
  <2>1. Nothing \in [{} -> Val] /\ {} \in SUBSET Loc
    BY ZenonT(60) DEF Nothing
  <2>2. Nothing \in Readings
    BY ZenonT(60), <2>1 DEF Readings
  <2> QED
    BY ZenonT(60), <2>2 DEF Skipped, Outcomes
<1>3. PICK more : more = (results \o output)'
  BY ZenonT(60)
<1>4. more = results \o Append(output, Skipped)
  BY ZenonT(60), <1>3 DEF Skips
<1>5. more = Append(results \o output, Skipped)
  BY ZenonT(60), <1>1, <1>2, <1>4, OutcomeAdded
<1>6. SB!Run(t, store, vals) /\ SB!Skipped = Skipped /\ SB!Readings = Readings
  BY ZenonT(60), SameBlock DEF Skips
<1>7. SB!SkipNext(t)
  BY ZenonT(60), <1>3, <1>5, <1>6 DEF Skips, SB!SkipNext, SB!IsInvalid
<1> QED
  BY ZenonT(60), <1>1, <1>7 DEF SB!BlockNext

\* ... or ends the block with an error.
LEMMA FailsNext ==
  ASSUME NEW t \in Tx, t = Len(results \o output), error = NoTx, Fails(t)
  PROVE  SB!BlockNext
<1>1. t < N
  BY ZenonT(60), PositionOrder
<1>2. t \in DbFail \/ SB!IsFatal(t)
  BY ZenonT(60), SameBlock DEF Fails, SB!IsFatal
<1>3. SB!FailNext(t)
  BY ZenonT(60), <1>2 DEF Fails, SB!FailNext
<1> QED
  BY ZenonT(60), <1>1, <1>3 DEF SB!BlockNext

\* A step of the block in order is one of SequentialBlock.
LEMMA OrderRefines ==
  ASSUME TypeInv, InOrder \/ BlockUnchanged
  PROVE  [SB!BlockNext]_(SB!blockVars)
<1>1. CASE InOrder
  BY ZenonT(60), <1>1, ExecutesNext, SkipsNext, FailsNext DEF InOrder
<1>2. CASE BlockUnchanged
  BY ZenonT(60), <1>2 DEF BlockUnchanged, SB!blockVars
<1> QED
  BY ZenonT(60), <1>1, <1>2

\* The block has not begun.
LEMMA BlockInitially == Init => SB!BlockInit
<1> SUFFICES ASSUME Init PROVE SB!BlockInit
  BY ZenonT(60)
<1>1. store = InitStore /\ error = NoTx
  BY ZenonT(60) DEF Init
<1> QED
  BY ZenonT(60), <1>1, NoOutcomes DEF SB!BlockInit

-----------------------------------------------------------------------------
(* The invariants                                                          *)

LOCAL INSTANCE WellFoundedInduction

\* A set of natural numbers has a least element.
LEMMA LeastExists ==
  ASSUME NEW S, S \subseteq Nat, S # {}
  PROVE  \E m \in S : \A x \in S : m <= x
<1>1. PICK m \in S : \A y \in S : ~(<<y, m>> \in OpToRel(<, Nat))
  BY ZenonT(60), NatLessThanWellFounded, WFMin
<1>2. \A y \in S : ~(y < m)
  BY ZenonT(60), <1>1 DEF OpToRel
<1> QED
  BY ZenonT(60), <1>2, PositionOrder

\* A set of positions in the block has a last one.
LEMMA PositionsAreOrdered == PositionsOrdered
<1> SUFFICES ASSUME NEW S \in SUBSET (0 .. N), S # {}
             PROVE  \E m \in S : \A x \in S : x <= m
  BY ZenonT(60) DEF PositionsOrdered
<1> DEFINE R == {N - x : x \in S}
<1>2. R \subseteq Nat /\ R # {}
  <2>1. \A x \in S : N - x \in Nat
    BY ZenonT(60), PositionOrder
  <2>2. PICK x \in S : TRUE
    BY ZenonT(60)
  <2> QED
    BY ZenonT(60), <2>1, <2>2
<1>3. PICK r \in R : \A x \in R : r <= x
  BY ZenonT(60), <1>2, LeastExists
<1>4. PICK m \in S : r = N - m
  BY ZenonT(60), <1>3
<1>5. \A x \in S : N - m <= N - x
  BY ZenonT(60), <1>3, <1>4
<1> QED
  BY ZenonT(60), <1>5, PositionOrder

\* The variables keep their types: the cursors stay within the block, and
\* every value committed, published or credited is a balance (whole scheduler).
THEOREM TypeCorrect == Spec => []TypeOK
<1>1. Init => TypeInv
  BY ZenonT(60), TypeInitially, PositionsAreOrdered
<1>2. TypeInv => TypeOK
  BY ZenonT(60) DEF TypeInv
<1> QED
  BY <1>1, <1>2, TypeStep, PTL DEF Spec

\* The ownership of transactions holds in every reachable state, for every
\* block, every EVM and any number of workers: the lock and the status of a
\* TxState keep two threads from driving one transaction.
THEOREM OwnershipHolds == Spec => []Ownership
<1>1. Init => Ownership
  BY ZenonT(60), TypeInitially, PositionsAreOrdered, OwnershipInitially
<1>2. Ownership /\ [Next]_vars => Ownership'
  BY ZenonT(60), TypeStep, OwnershipStep DEF Ownership
<1> QED
  BY <1>1, <1>2, PTL DEF Spec

\* No thread meets a state that execute_task, validate or run_commit_loop
\* reports as a parallel error: those branches are unreachable.
THEOREM Consistent == Spec => []NoParallelError
<1>1. Ownership => NoParallelError
  BY ZenonT(60) DEF Ownership
<1> QED
  BY <1>1, OwnershipHolds, PTL

\* A final transaction is never executed, validated or invalidated again,
\* and what it published stays: the commit thread and the readers after it
\* need no lock to rely on it (execution_task, execute_task, validate).
THEOREM FinalFrozen == Spec => FinalIsFrozen
<1> DEFINE A == \A t \in Tx : status[t] = "Finality" =>
                  /\ status'[t] = "Finality"
                  /\ incarnation'[t] = incarnation[t]
                  /\ history'[t] = history[t]
                  /\ \A l \in Loc : mv_memory'[l][t] = mv_memory[l][t]
<1>1. Ownership /\ [Next]_vars => A
  BY ZenonT(60), StepKeeps DEF Kept
<1>2. Ownership /\ [Next]_vars => [A]_vars
  BY ZenonT(60), <1>1
<1>3. FinalIsFrozen <=> [][A]_vars
  BY ZenonT(60) DEF FinalIsFrozen
<1> HIDE DEF A
<1> QED
  BY <1>2, <1>3, OwnershipHolds, PTL DEF Spec

\* When the call returns, every transaction has an outcome or the error is that of
\* the first one without, whatever aborted the block and wherever the replay of the
\* uncommitted suffix ended (post_execute, replay_uncommitted_suffix).
THEOREM CallCompletesOrFails == Spec => []CompleteOrFailed
<1>1. OutcomeInv => CompleteOrFailed
  BY ZenonT(60) DEF OutcomeInv
<1>2. Ownership /\ OutcomeInv /\ [Next]_vars => OutcomeInv'
  BY ZenonT(60), OutcomeStep
<1> QED
  BY <1>1, <1>2, OutcomeInitially, OwnershipHolds, PTL DEF Spec

\* Until the next incarnation publishes, whatever an invalidated one left in the memory
\* and in the beneficiary history is an estimate (mark_mv_estimate, record_estimate and
\* invalidate in execute_task and validate).
THEOREM InvalidatedLeavesEstimates == Spec => []InvalidatedIsEstimate
<1>1. Ownership /\ MemoryInv /\ [Next]_vars => MemoryInv'
  BY ZenonT(60), MemoryStep
<1> QED
  BY <1>1, MemoryEstimates, MemoryInitially, OwnershipHolds, PTL DEF Spec

\* Every read of a finalized transaction still resolves to the version it saw, and stays
\* so until the commit uses it: no rewind was missed between its validation and its
\* finality (validate, lock_finality_candidate).
THEOREM FinalReadsStayCurrent == Spec => []FinalReadsCurrent
<1>1. Ownership /\ MemoryInv /\ [Next]_vars => MemoryInv'
  BY ZenonT(60), MemoryStep
<1>2. Ownership /\ MemoryInv /\ ReadsInv /\ [Next]_vars => ReadsInv'
  BY ZenonT(60), ReadsStep
<1>3. ReadsInv => FinalReadsCurrent
  BY ZenonT(60) DEF ReadsInv
<1> QED
  BY <1>1, <1>2, <1>3, MemoryInitially, ReadsInitially, OwnershipHolds, PTL DEF Spec

-----------------------------------------------------------------------------
(* The refinement                                                          *)

\* What holds between the steps, all together.
BlockInv ==
  /\ Ownership /\ OutcomeInv /\ MemoryInv /\ FinalReadsCurrent
  /\ ValueInv /\ FatalInv

\* All that has been read, published and committed agrees, in every reachable state.
LEMMA BlockInvHolds == Spec => []BlockInv
<1>1. Ownership /\ OutcomeInv /\ [Next]_vars => OutcomeInv'
  BY ZenonT(60), OutcomeStep
<1>2. Ownership /\ MemoryInv /\ [Next]_vars => MemoryInv'
  BY ZenonT(60), MemoryStep
<1>3. /\ Ownership /\ Ownership' /\ OutcomeInv /\ MemoryInv /\ FinalReadsCurrent
      /\ ValueInv /\ [Next]_vars
      => ValueInv'
  BY ZenonT(60), ValueStep DEF Ownership
<1>4. Ownership /\ FatalInv /\ [Next]_vars => FatalInv'
  BY ZenonT(60), FatalStep DEF Ownership
<1>5. Init => FatalInv
  BY DEF Init, FatalInv, NoAbort
<1> QED
  BY <1>1, <1>2, <1>3, <1>4, <1>5, OutcomeInitially, MemoryInitially, ValueInitially,
     OwnershipHolds, FinalReadsStayCurrent, PTL DEF Spec, BlockInv

\* Whatever the interleaving of workers, finality, commit and recovery, and whatever the
\* EVM does, the state and the outcomes change only as if the transactions ran one
\* after the other, each alone on the state its predecessors left (run_commit_loop,
\* execute_sequential_suffix).
THEOREM StateFollowsBlockOrder == Spec => StateInBlockOrder
<1>1. BlockInv /\ BlockInv' /\ [Next]_vars => [SB!BlockNext]_<<store, results \o output>>
  <2> SUFFICES ASSUME BlockInv, BlockInv', [Next]_vars
               PROVE  [SB!BlockNext]_<<store, results \o output>>
    BY ZenonT(60)
  <2>1. InOrder \/ BlockUnchanged \/ FatalReturned
    BY ZenonT(60), BlockStep DEF BlockInv, Ownership
  <2>2. InOrder \/ BlockUnchanged => [SB!BlockNext]_(SB!blockVars)
    BY ZenonT(60), OrderRefines DEF BlockInv, Ownership
  <2> QED
    BY ZenonT(60), <2>1, <2>2 DEF SB!blockVars, FatalReturned
<1> QED
  BY <1>1, BlockInvHolds, BlockInitially, PTL DEF Spec, StateInBlockOrder

\* The returned error is that of the block too, as long as an execution fails on no
\* values it could not have in block order: post_execute returns what an execution at
\* the commit head met, on values that may have been stale.
THEOREM BlockOrderHolds == Spec /\ []ErrorsAreReal => BlockOrder
<1>1. BlockInv /\ BlockInv' /\ ErrorsAreReal /\ [Next]_vars => [SB!BlockNext]_(SB!blockVars)
  BY ZenonT(60), ErrorInOrder, OrderRefines DEF BlockInv, Ownership
<1> QED
  BY <1>1, BlockInvHolds, BlockInitially, PTL DEF Spec, BlockOrder, SB!BlockSpec

-----------------------------------------------------------------------------
(* The error of the call                                                   *)

LOCAL FST == INSTANCE FiniteSetTheorems

\* Of any sets of locations, one contains none of the others: the locations of the
\* state are finitely many.
LEMMA LocsAreOrdered == LocsOrdered
<1> SUFFICES ASSUME NEW P \in SUBSET SUBSET Loc, P # {}
             PROVE  \E D \in P : \A E \in P : E \subseteq D => E = D
  BY ZenonT(60) DEF LocsOrdered
<1> DEFINE Size(D) == FST!Cardinality(D)
           Sizes == {n \in Nat : \E D \in P : n = Size(D)}
<1>1. \A D \in P : FST!IsFiniteSet(D) /\ Size(D) \in Nat
  <2>1. FST!IsFiniteSet(Loc)
    BY ZenonT(60), BlockAssumption DEF IsFiniteSet, FST!IsFiniteSet
  <2>2. \A D \in P : FST!IsFiniteSet(D)
    BY ZenonT(60), <2>1, FST!FS_Subset
  <2> QED
    BY ZenonT(60), <2>2, FST!FS_CardinalityType
<1>2. \A D \in P : \A E \in SUBSET D : Size(E) <= Size(D) /\ (Size(D) = Size(E) => D = E)
  BY ZenonT(60), <1>1, FST!FS_Subset
<1> HIDE DEF Size
<1>3. Sizes \subseteq Nat /\ Sizes # {}
  BY ZenonT(60), <1>1
<1>4. PICK m \in Sizes : \A n \in Sizes : m <= n
  <2> HIDE DEF Sizes
  <2> QED
    BY ZenonT(60), <1>3, LeastExists
<1>d. PICK D \in P : m = Size(D)
  BY ZenonT(60), <1>4
<1>5. ASSUME NEW E \in P, E \subseteq D PROVE E = D
  <2>1. Size(D) <= Size(E) /\ Size(E) <= Size(D) /\ (Size(D) = Size(E) => D = E)
    BY ZenonT(60), <1>1, <1>2, <1>4, <1>5, <1>d
  <2>2. Size(D) \in Nat /\ Size(E) \in Nat
    BY ZenonT(60), <1>1
  <2>3. Size(D) = Size(E)
    BY ZenonT(60), <2>1, <2>2, PositionOrder
  <2> QED
    BY ZenonT(60), <2>1, <2>3
<1> QED
  BY ZenonT(60), <1>5

\* The first abort reason stays (abort: set once).
LEMMA ReasonStays ==
  ASSUME TypeInv, OwnInv, [Next]_vars, IsAborted
  PROVE  UNCHANGED abort_reason
<1>1. ASSUME NEW w \in Workers, WorkerStep(w) PROVE UNCHANGED abort_reason
  BY ZenonT(60), <1>1, WorkerOutcome
<1>2. CASE CommitTx
  BY ZenonT(60), <1>2 DEF CommitTx, StopCommit, Abort
<1>3. CASE FinalityStep \/ CallerStep \/ UNCHANGED vars \/ (CommitStep /\ ~CommitTx)
  BY ZenonT(60), <1>3 DEF FinalityStep, FinalityCheck, FinalityLock, FinalityPublish,
     CommitStep, CommitCheck, PublishCommit, ReleaseSuccessor, CallerStep, PostExecute,
     ReplayTx, ReplayEnd, vars
<1> QED
  BY ZenonT(60), <1>1, <1>2, <1>3 DEF Next, Finished

\* The block stops at its error, and the reason it gave up for is kept.
LEMMA CauseStep ==
  ASSUME TypeInv, OwnInv, [Next]_vars, InOrder \/ BlockUnchanged \/ FatalReturned, CauseInv
  PROVE  CauseInv'
<1>1. abort_reason.kind = "FatalEvmError" => UNCHANGED abort_reason
  <2>1. NoAbort.kind # "FatalEvmError"
    BY ZenonT(60) DEF NoAbort
  <2>2. abort_reason.kind = "FatalEvmError" => IsAborted
    BY ZenonT(60), <2>1 DEF IsAborted
  <2> QED
    BY ZenonT(60), <2>2, ReasonStays
<1>2. CASE InOrder
  BY ZenonT(60), <1>2 DEF CauseInv, InOrder, Fails, Executes, Skips
<1>3. CASE BlockUnchanged
  BY ZenonT(60), <1>1, <1>3 DEF CauseInv, BlockUnchanged
<1>4. CASE FatalReturned
  BY ZenonT(60), <1>1, <1>4 DEF CauseInv, FatalReturned
<1> QED
  BY ZenonT(60), <1>2, <1>3, <1>4

\* For every block and every EVM, without further hypotheses: the transaction of a
\* returned error fails on the committed prefix and has no other result there, since
\* an execution alone on a state has one result; only the error of a parallel
\* execution at the commit head, which is then the abort reason, need not
\* (post_execute, execute_sequential_suffix).
THEOREM EveryErrorHasCause == Spec => []ErrorHasCause
<1>1. Init => CauseInv
  BY ZenonT(60) DEF Init, CauseInv
<1>2. BlockInv /\ BlockInv' /\ CauseInv /\ [Next]_vars => CauseInv'
  <2> SUFFICES ASSUME BlockInv, BlockInv', CauseInv, [Next]_vars PROVE CauseInv'
    BY ZenonT(60)
  <2>1. InOrder \/ BlockUnchanged \/ FatalReturned
    BY ZenonT(60), BlockStep DEF BlockInv, Ownership
  <2> QED
    BY ZenonT(60), <2>1, CauseStep DEF BlockInv, Ownership
<1>3. BlockInv /\ CauseInv => ErrorHasCause
  <2>1. ASSUME NEW vals \in Readings, NEW other \in Readings, Run(error, store, vals),
               Run(error, store, other)
        PROVE  other = vals
    BY ZenonT(60), <2>1, LocsAreOrdered, RunUnique
  <2> QED
    BY ZenonT(60), <2>1 DEF BlockInv, FatalInv, CauseInv, ErrorHasCause, FailsAlone
<1> QED
  BY <1>1, <1>2, <1>3, BlockInvHolds, PTL DEF Spec
=============================================================================
