------------------------ MODULE SchedulerProperties -------------------------
(***************************************************************************)
(* What the parallel scheduler guarantees, as properties of Scheduler.     *)
(***************************************************************************)
EXTENDS Scheduler

Origin == Tx \X Nat
ReadSets == [Loc -> [read : BOOLEAN, val : Val, origins : Seq(Origin)]]
Links == [tx : Tx, incarnation : Nat, value : Effects]
MaybeTx == Tx \cup {NoTx}
TxResults == [kind : {"None", "Ok", "Err"}, reads : ReadSets, write_set : SUBSET Loc]
Jobs == [tx : MaybeTx, incarnation : Nat, reads : ReadSets, blocking : SUBSET Tx,
         done : SUBSET Loc, chain : Seq(Links), ts : Nat, conflict : BOOLEAN,
         fresh : BOOLEAN, dep : MaybeTx, next : MaybeTx]
Reasons == [kind : {"None", "FatalEvmError", "CommitError", "ParallelError",
                    "FallbackSequential"}, tx : MaybeTx]
Outcomes == [kind : {"Executed", "Skipped"}, vals : Readings]

TxTypeOK ==
  /\ status \in [Tx -> Statuses]
  /\ incarnation \in [Tx -> Nat]
  /\ holder \in [Tx -> Workers \cup {NoOne}]
  /\ tx_results \in [Tx -> TxResults]

BlockTypeOK ==
  /\ abort_reason \in Reasons
  /\ store \in [Loc -> Val]
  /\ output \in Seq(Outcomes)
  /\ results \in Seq(Outcomes)
  /\ error \in MaybeTx

ThreadTypeOK ==
  /\ pc \in [Workers -> WorkerLabels]
  /\ job \in [Workers -> Jobs]
  /\ finality_pc \in {"outer", "inner", "lock", "publish", "done"}
  /\ lower_ts \in Nat
  /\ commit_pc \in {"outer", "inner", "publish", "release", "done"}
  /\ phase \in {"parallel", "replay", "done"}

\* Every variable holds what its declaration in the code allows; the cursors
\* stay within the block and the values within the range of a balance.
TypeOK ==
  /\ CtxTypeOK /\ DepTypeOK /\ HistoryTypeOK /\ MemoryTypeOK
  /\ TxTypeOK /\ BlockTypeOK /\ ThreadTypeOK

-----------------------------------------------------------------------------
(* Block order                                                             *)

\* When the call returns, either every transaction has an outcome or the
\* error is that of the first transaction without one (post_execute,
\* replay_uncommitted_suffix: state and outcomes describe one prefix).
CompleteOrFailed ==
  phase = "done" => Len(results) = IF error = NoTx THEN N ELSE error

\* A returned error is the one block order meets: executed alone on the
\* committed prefix, the transaction fails (README: "preserving block-order
\* outcomes and state"; post_execute and execute_sequential_suffix).
ErrorInBlockOrder ==
  phase = "done" /\ error # NoTx =>
    \/ error \in DbFail
    \/ \A vals \in Readings : Run(error, store, vals) => Evm(error, vals).op = "fatal"

\* Executed alone on the committed prefix, the transaction fails and can do
\* nothing else.
FailsAlone(t) ==
  \/ t \in DbFail
  \/ /\ NonceOk(t, store)
     /\ \E vals \in Readings : Run(t, store, vals)
     /\ \A vals \in Readings : Run(t, store, vals) => Evm(t, vals).op = "fatal"

\* Whatever made the block give up, and wherever its replay began, a returned
\* error is the one block order meets, unless a parallel execution met it at the
\* commit head on values that need not be those of the committed prefix: an
\* error of that kind has the abort reason FatalEvmError and no other does
\* (execute_task, post_execute, execute_sequential_suffix).
ErrorHasCause ==
  phase = "done" /\ error # NoTx =>
    \/ FailsAlone(error)
    \/ /\ abort_reason.kind = "FatalEvmError" /\ abort_reason.tx = error
       /\ \E vals \in Readings : Evm(error, vals).op = "fatal"

\* No thread ever meets a state the scheduler calls an inconsistency: a
\* foreign incarnation, a missing or failed result at validation or commit,
\* or a stale publication of the beneficiary history (execute_task,
\* validate, run_commit_loop).
NoParallelError == abort_reason.kind # "ParallelError"

-----------------------------------------------------------------------------
(* Validation and finality                                                 *)

\* The origins of a beneficiary read are still those a scan would meet.
BeneficiaryCurrent(t, origins) ==
  LET n == Len(origins)
  IN  /\ n = t \/ (n > 0 /\ history[t - n].value.kind = "Snapshot")
      /\ \A i \in 1 .. n :
           /\ origins[i] = <<t - i, history[t - i].incarnation>>
           /\ history[t - i].value # Estimate
           /\ i < n => history[t - i].value.kind # "Snapshot"

MemoryCurrent(l, t, origins) ==
  LET p == LatestWriter(l, t)
  IN  IF p = NoTx THEN origins = <<>>
      ELSE /\ ~mv_memory[l][p].estimate
           /\ origins = <<<<p, mv_memory[l][p].incarnation>>>>

\* Every read of a finalized transaction still resolves to the version it
\* saw, and stays so until the commit uses it: no rewind was missed between
\* its validation and its finality (validate, lock_finality_candidate).
FinalReadsCurrent ==
  \A t \in Tx : status[t] = "Finality" =>
    \A l \in ReadLocs(tx_results[t].reads) :
      LET origins == tx_results[t].reads[l].origins
      IN  IF l = Ben THEN BeneficiaryCurrent(t, origins)
                     ELSE MemoryCurrent(l, t, origins)

\* t needs another execution, which has not started to publish.
Invalidated(t) ==
  \/ status[t] \in {"Initial", "Conflict"}
  \/ /\ status[t] = "Executing"
     /\ \A w \in Workers :
          holder[t] = w => pc[w] \in {"run", "backing"} /\ job[w].done = {}

\* Until the next incarnation publishes, whatever an invalidated one left in
\* the memory and in the beneficiary history is an estimate, so that no
\* reader validates against it (mark_mv_estimate, record_estimate and
\* invalidate in execute_task and validate).
InvalidatedIsEstimate ==
  \A t \in Tx : Invalidated(t) =>
    /\ history[t].value = Estimate
    /\ \A l \in Loc : mv_memory[l][t].incarnation > 0 => mv_memory[l][t].estimate

\* A step never touches what a finalized transaction published, nor starts
\* it again: late tasks and duplicate claims are refused by the status under
\* the lock (execute_task, validate, execution_task, next).
FinalIsFrozen ==
  [][\A t \in Tx : status[t] = "Finality" =>
       /\ status'[t] = "Finality"
       /\ incarnation'[t] = incarnation[t]
       /\ history'[t] = history[t]
       /\ \A l \in Loc : mv_memory'[l][t] = mv_memory[l][t]]_vars

-----------------------------------------------------------------------------
(* Progress                                                                *)

\* A transaction that may run is still ahead of the claim cursor, or being
\* claimed (next, remove, commit, key_tx and add of TxDependency).
RunnableIsOffered ==
  \A t \in Tx : Claimable(t) =>
    index <= t \/ \E w \in Workers : pc[w] = "claim" /\ job[w].tx = t

\* Every wait has someone to end it: a predecessor that keeps the reverse
\* edge, or the commit of the transaction before (add, remove, key_tx and
\* commit, in any order with the published commit cursor).
WaitIsReleasable ==
  \A t \in Tx : blocker[t] # NoTx =>
    IF blocker[t] = t
    THEN committed < t \/ (committed = t /\ commit_pc = "release")
    ELSE blocker[t] < t /\ t \in affect_txs[blocker[t]]

WorkerIdle(w) ==
  pc[w] = "next" /\ ~Stop /\ index = N /\ ~ValidationClaimable(index)

FinalityReady ==
  /\ finality < validation
  /\ status[finality] = "Unconfirmed"
  /\ unconfirmed_timestamps[finality] > Max(lower_ts, lower_timestamps[finality])

\* With nothing left to claim, the next transaction is ready for finality.
IdleMeansReady ==
  (/\ \A w \in Workers : WorkerIdle(w)
   /\ finality_pc # "publish"
   /\ commit_pc \in {"outer", "inner"}
   /\ committed = finality) => FinalityReady

\* No execution, validation or retry is lost, however claims, edges, barriers
\* and commits interleave: what may run is offered, every wait has someone to
\* end it, and when no worker has anything left to claim the next transaction
\* is ready for finality (TxDependency, next, execute_task, validate,
\* run_finality_loop).
NoLostWork == RunnableIsOffered /\ WaitIsReleasable /\ IdleMeansReady

\* The call returns (execute): with every thread scheduled, every block ends.
Termination == <>(phase = "done")

=============================================================================
