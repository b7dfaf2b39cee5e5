------------------------------ MODULE Scheduler -----------------------------
(***************************************************************************)
(* The parallel scheduler (src/scheduler.rs): speculative workers, one     *)
(* finality thread and one ordered-commit thread over shared state, then   *)
(* the recovery of an aborted block (src/scheduler/control.rs and          *)
(* src/scheduler/fallback.rs).                                             *)
(*                                                                         *)
(* A step is one access to state that another thread may touch at that     *)
(* moment.  What a thread does under a transaction's lock to state that    *)
(* only the lock's holder uses is part of the neighbouring step.           *)
(***************************************************************************)
EXTENDS SchedulerContext, TxDependency, BeneficiaryHistory, MVMemory

CONSTANTS
  Workers,  \* the speculative worker threads
  NoOne,    \* no thread holds the lock
  DbFail    \* transactions whose nonce lookup the database may fail

ASSUME ThreadAssumption == NoOne \notin Workers

VARIABLES
  status,        \* TxState::status
  incarnation,   \* TxState::incarnation
  holder,        \* holder[t]: the worker that holds the mutex of tx_states[t]
  tx_results,    \* the last execution of each transaction
  abort_reason,  \* the first abort, NoAbort while none
  store,         \* the committed state
  output,        \* outcomes of this phase, in block order
  results,       \* outcomes installed in the scheduler
  error,         \* the transaction of the returned error, NoTx when none
  pc, job,       \* each worker's position and local variables
  finality_pc, lower_ts,   \* the finality thread
  commit_pc,               \* the commit thread
  phase                    \* "parallel", "replay" or "done"

txVars == <<status, incarnation, holder, tx_results>>
workerVars == <<pc, job>>
finalityVars == <<finality_pc, lower_ts>>
blockVars == <<store, output, results, error>>
specVars == <<mv_memory, history>>
vars == <<ctxVars, depVars, specVars, txVars, abort_reason, blockVars,
          workerVars, finalityVars, commit_pc, phase>>

Statuses == {"Initial", "Executing", "Executed", "Validating", "Unconfirmed",
             "Conflict", "Finality"}
WorkerLabels == {"next", "claimed", "pick", "claim", "task", "release", "execute",
                 "run", "backing", "depend", "key", "executed", "stamp", "rewind",
                 "validate", "scan", "confirm", "estimate", "restamp", "recursor",
                 "readd", "done"}

NoAbort == [kind |-> "None", tx |-> NoTx]
FatalEvmError(t) == [kind |-> "FatalEvmError", tx |-> t]
CommitError(t) == [kind |-> "CommitError", tx |-> t]
ParallelError(t) == [kind |-> "ParallelError", tx |-> t]
FallbackSequential == [kind |-> "FallbackSequential", tx |-> NoTx]

\* The read set: what a location read as, and the versions it came from.
NotRead == [read |-> FALSE, val |-> 0, origins |-> <<>>]
ReadAs(val, origins) == [read |-> TRUE, val |-> val, origins |-> origins]
NoReads == [l \in Loc |-> NotRead]
ReadLocs(reads) == {l \in Loc : reads[l].read}

NoResult == [kind |-> "None", reads |-> NoReads, write_set |-> {}]

\* A worker between two tasks.
Idle == [tx |-> NoTx, incarnation |-> 0, reads |-> NoReads, blocking |-> {},
         done |-> {}, chain |-> <<>>, ts |-> 0, conflict |-> FALSE,
         fresh |-> FALSE, dep |-> NoTx, next |-> NoTx]

Executed(vals) == [kind |-> "Executed", vals |-> vals]
Skipped == [kind |-> "Skipped", vals |-> Nothing]

Init ==
  /\ CtxInit /\ DepInit /\ HistoryInit /\ MemoryInit
  /\ status = [t \in Tx |-> "Initial"]
  /\ incarnation = [t \in Tx |-> 0]
  /\ holder = [t \in Tx |-> NoOne]
  /\ tx_results = [t \in Tx |-> NoResult]
  /\ abort_reason = NoAbort
  /\ store = InitStore
  /\ output = <<>>
  /\ results = <<>>
  /\ error = NoTx
  /\ pc = [w \in Workers |-> "next"]
  /\ job = [w \in Workers |-> Idle]
  /\ finality_pc = "outer"
  /\ lower_ts = 0
  /\ commit_pc = "outer"
  /\ phase = "parallel"

-----------------------------------------------------------------------------
(* Shared helpers                                                          *)

IsAborted == abort_reason # NoAbort

\* abort(reason) keeps the first reason.
Abort(reason) == abort_reason' = IF IsAborted THEN abort_reason ELSE reason

Free(t) == holder[t] = NoOne

Goto(w, label, j) == pc' = [pc EXCEPT ![w] = label] /\ job' = [job EXCEPT ![w] = j]

Lock(t, w) == holder' = [holder EXCEPT ![t] = w]
Unlock(t) == holder' = [holder EXCEPT ![t] = NoOne]

SetStatus(t, s) == status' = [status EXCEPT ![t] = s]

Vals(reads) == [l \in ReadLocs(reads) |-> reads[l].val]

\* The EVM's next step in the execution worker w is driving.
Step(w) == Evm(job[w].tx, Vals(job[w].reads))

MaxTx(d, t) == IF d = NoTx THEN t ELSE Max(d, t)

\* latest_unfinalized_blocker
LatestUnfinalized(txs) ==
  LET open == {t \in txs : t >= finality}
  IN  IF open = {} THEN NoTx ELSE CHOOSE t \in open : \A u \in open : u <= t

-----------------------------------------------------------------------------
(* Scheduler::next and execution_task                                      *)

Stop == finality >= N \/ IsAborted

WorkerExit(w) ==
  /\ pc[w] = "next"
  /\ Stop
  /\ Goto(w, "done", Idle)
  /\ UNCHANGED <<ctxVars, depVars, specVars, txVars, abort_reason, blockVars,
                 finalityVars, commit_pc, phase>>

\* next_validation_idx: the cursor claim is only a hint, the status is
\* looked at later under the transaction's lock.
ClaimValidation(w) ==
  /\ pc[w] = "next"
  /\ ~Stop
  /\ ValidationClaimable(index)
  /\ validation' = validation + 1
  /\ Goto(w, "claimed", [Idle EXCEPT !.tx = validation])
  /\ UNCHANGED <<finality, committed, executed, logical_clock, lower_timestamps,
                 unconfirmed_timestamps, depVars, specVars, txVars, abort_reason,
                 blockVars, finalityVars, commit_pc, phase>>

\* Faulty variant: a final transaction is validated again.
TakeValidationOfFinal(w) ==
  LET t == job[w].tx
  IN  /\ pc[w] = "claimed"
      /\ Free(t)
      /\ IF status[t] \in {"Executed", "Unconfirmed", "Finality"}
         THEN /\ SetStatus(t, "Validating")
              /\ Goto(w, "validate", [job[w] EXCEPT !.incarnation = incarnation[t]])
         ELSE /\ Goto(w, "pick", Idle)
              /\ UNCHANGED status
      /\ UNCHANGED <<ctxVars, depVars, specVars, incarnation, holder, tx_results,
                     abort_reason, blockVars, finalityVars, commit_pc, phase>>

TakeValidation(w) ==
  LET t == job[w].tx
  IN  /\ pc[w] = "claimed"
      /\ Free(t)
      /\ IF status[t] \in {"Executed", "Unconfirmed"}
         THEN /\ SetStatus(t, "Validating")
              /\ Goto(w, "validate", [job[w] EXCEPT !.incarnation = incarnation[t]])
         ELSE /\ Goto(w, "pick", Idle)
              /\ UNCHANGED status
      /\ UNCHANGED <<ctxVars, depVars, specVars, incarnation, holder, tx_results,
                     abort_reason, blockVars, finalityVars, commit_pc, phase>>

\* tx_dependency.next, when there was nothing to validate.
AdvanceExecution(w) ==
  /\ \/ pc[w] = "pick"
     \/ pc[w] = "next" /\ ~Stop /\ ~ValidationClaimable(index)
  /\ AdvanceIndex
  /\ IF index < N THEN Goto(w, "claim", [Idle EXCEPT !.tx = index])
                  ELSE Goto(w, "next", Idle)
  /\ UNCHANGED <<ctxVars, specVars, txVars, abort_reason, blockVars,
                 finalityVars, commit_pc, phase>>

ClaimExecution(w) ==
  LET t == job[w].tx
  IN  /\ pc[w] = "claim"
      /\ Claim(t)
      /\ IF Claimable(t) THEN Goto(w, "task", job[w]) ELSE Goto(w, "next", Idle)
      /\ UNCHANGED <<ctxVars, specVars, txVars, abort_reason, blockVars,
                     finalityVars, commit_pc, phase>>

\* Faulty variant: a duplicate claim restarts a transaction being executed.
TakeExecutionTwice(w) ==
  LET t == job[w].tx
  IN  /\ pc[w] = "task"
      /\ Free(t)
      /\ IF status[t] \in {"Initial", "Conflict", "Executing"}
         THEN /\ SetStatus(t, "Executing")
              /\ incarnation' = [incarnation EXCEPT ![t] = @ + 1]
              /\ Goto(w, "execute", [job[w] EXCEPT !.incarnation = incarnation[t] + 1])
         ELSE Goto(w, "release", job[w]) /\ UNCHANGED <<status, incarnation>>
      /\ UNCHANGED <<ctxVars, depVars, specVars, holder, tx_results, abort_reason,
                     blockVars, finalityVars, commit_pc, phase>>

\* execution_task: a claim of a transaction that needs no execution clears
\* its reverse edges, unless its owner is still executing it.
TakeExecution(w) ==
  LET t == job[w].tx
  IN  /\ pc[w] = "task"
      /\ Free(t)
      /\ IF status[t] \in {"Initial", "Conflict"}
         THEN /\ SetStatus(t, "Executing")
              /\ incarnation' = [incarnation EXCEPT ![t] = @ + 1]
              /\ Goto(w, "execute", [job[w] EXCEPT !.incarnation = incarnation[t] + 1])
         ELSE /\ IF status[t] = "Executing" THEN Goto(w, "next", Idle)
                                            ELSE Goto(w, "release", job[w])
              /\ UNCHANGED <<status, incarnation>>
      /\ UNCHANGED <<ctxVars, depVars, specVars, holder, tx_results, abort_reason,
                     blockVars, finalityVars, commit_pc, phase>>

ReleaseDependents(w) ==
  /\ pc[w] = "release"
  /\ Remove(job[w].tx, FALSE)
  /\ Goto(w, "next", Idle)
  /\ UNCHANGED <<ctxVars, specVars, txVars, abort_reason, blockVars,
                 finalityVars, commit_pc, phase>>

-----------------------------------------------------------------------------
(* execute_task: the transaction's lock is held from here to the end       *)

\* Ending a task on a broken scheduler invariant.
GiveUp(w) ==
  /\ Abort(ParallelError(job[w].tx))
  /\ Goto(w, "next", Idle)

BeginExecution(w) ==
  LET t == job[w].tx
  IN  /\ pc[w] = "execute"
      /\ Free(t)
      /\ IF status[t] # "Executing"
         THEN Goto(w, "next", Idle) /\ UNCHANGED <<holder, abort_reason>>
         ELSE IF incarnation[t] # job[w].incarnation
         THEN GiveUp(w) /\ UNCHANGED holder
         ELSE Lock(t, w) /\ Goto(w, "run", job[w]) /\ UNCHANGED abort_reason
      /\ UNCHANGED <<ctxVars, depVars, specVars, status, incarnation, tx_results,
                     blockVars, finalityVars, commit_pc, phase>>

\* One location read by the EVM is bound in the worker's read set.
GotRead(w, l, val, origins) ==
  [job[w] EXCEPT !.reads[l] = ReadAs(val, origins), !.chain = <<>>]

\* IncarnationDb::basic and storage: the latest preceding version, whose
\* value is used even when it is an estimate that blocks this execution.
ReadMemory(w) ==
  LET t == job[w].tx
      l == Step(w).loc
      p == LatestWriter(l, t)
      entry == mv_memory[l][p]
      read == GotRead(w, l, entry.data, <<<<p, entry.incarnation>>>>)
  IN  /\ pc[w] = "run"
      /\ Step(w).op = "read"
      /\ l # Ben
      /\ IF p = NoTx
         THEN Goto(w, "backing", job[w])
         ELSE Goto(w, "run",
                [read EXCEPT !.blocking = IF entry.estimate THEN @ \cup {p} ELSE @])
      /\ UNCHANGED <<ctxVars, depVars, specVars, txVars, abort_reason, blockVars,
                     finalityVars, commit_pc, phase>>

\* ... and otherwise the shared view of the committed state, which commits
\* may have moved since the memory was looked at.
ReadBacking(w) ==
  LET l == Step(w).loc
  IN  /\ pc[w] = "backing"
      /\ Goto(w, "run", GotRead(w, l, store[l], <<>>))
      /\ UNCHANGED <<ctxVars, depVars, specVars, txVars, abort_reason, blockVars,
                     finalityVars, commit_pc, phase>>

\* Beneficiary::resolve_before, one history entry at a time.  An estimate
\* blocks the execution, which goes on with an absent account.
ReadBeneficiary(w) ==
  LET t == job[w].tx
      writer == (t - Len(job[w].chain)) - 1
      chain == Append(job[w].chain, Link(writer))
  IN  /\ pc[w] = "run"
      /\ Step(w).op = "read"
      /\ Step(w).loc = Ben
      /\ IF t = 0 THEN Goto(w, "run", GotRead(w, Ben, InitStore[Ben], <<>>))
         ELSE IF history[writer].value = Estimate
         THEN Goto(w, "run",
                [GotRead(w, Ben, 0, <<>>) EXCEPT !.blocking = @ \cup {writer}])
         ELSE IF ScanEndsAt(writer)
         THEN \E balances \in [0 .. Len(chain) -> Val] :
                /\ Resolves(chain, balances)
                /\ Goto(w, "run",
                     GotRead(w, Ben, balances[Len(chain)], Origins(chain)))
         ELSE Goto(w, "run", [job[w] EXCEPT !.chain = chain])
      /\ UNCHANGED <<ctxVars, depVars, specVars, txVars, abort_reason, blockVars,
                     finalityVars, commit_pc, phase>>

\* The write set of the execution w is driving, and the entries of the
\* previous one it does not overwrite.
WriteSet(w) == Published(job[w].tx, Vals(job[w].reads))
StaleSet(w) == tx_results[job[w].tx].write_set \ WriteSet(w)

MarkDone(w, l) == Goto(w, pc[w], [job[w] EXCEPT !.done = @ \cup {l}])

\* finish_incarnation publishes the writes, as estimates when the execution
\* read one.
PublishWrite(w) ==
  LET t == job[w].tx
  IN  /\ pc[w] = "run"
      /\ Step(w).op = "ok"
      /\ \E l \in WriteSet(w) \ job[w].done :
           /\ PublishValue(l, t, job[w].incarnation,
                Changes(t, Vals(job[w].reads))[l], job[w].blocking # {})
           /\ MarkDone(w, l)
      /\ UNCHANGED <<ctxVars, depVars, history, txVars, abort_reason, blockVars,
                     finalityVars, commit_pc, phase>>

\* Locations the previous incarnation wrote and this one does not.
PruneWrite(w) ==
  /\ pc[w] = "run"
  /\ Step(w).op = "ok"
  /\ WriteSet(w) \subseteq job[w].done
  /\ \E l \in StaleSet(w) \ job[w].done :
       RemoveValue(l, job[w].tx) /\ MarkDone(w, l)
  /\ UNCHANGED <<ctxVars, depVars, history, txVars, abort_reason, blockVars,
                 finalityVars, commit_pc, phase>>

\* The beneficiary history is recorded after the memory is up to date, the
\* result is stored, and the predecessor to wait for is chosen.
RecordExecution(w) ==
  LET t == job[w].tx
      last == tx_results[t]
      blocked == job[w].blocking # {}
  IN  /\ pc[w] = "run"
      /\ Step(w).op = "ok"
      /\ WriteSet(w) \cup StaleSet(w) \subseteq job[w].done
      /\ IF ~Recordable(t, job[w].incarnation)
         THEN GiveUp(w) /\ Unlock(t) /\ UNCHANGED <<history, tx_results>>
         ELSE /\ RecordEntry(t, job[w].incarnation,
                   IF blocked THEN Estimate ELSE EffectOf(t, Vals(job[w].reads)))
              /\ tx_results' = [tx_results EXCEPT ![t] =
                   [kind |-> "Ok", reads |-> job[w].reads, write_set |-> WriteSet(w)]]
              /\ Goto(w, "depend", [Idle EXCEPT
                   !.tx = t, !.incarnation = job[w].incarnation,
                   !.conflict = blocked,
                   !.fresh = last.kind = "None" \/ ~(WriteSet(w) \subseteq last.write_set),
                   !.dep = LatestUnfinalized(job[w].blocking)])
              /\ UNCHANGED <<holder, abort_reason>>
      /\ UNCHANGED <<ctxVars, depVars, mv_memory, status, incarnation, blockVars,
                     finalityVars, commit_pc, phase>>

Failed(w) == Step(w).op \in {"invalid", "fatal"}

\* A failed execution keeps the write set of the previous one, as estimates.
MarkFailedWrite(w) ==
  /\ pc[w] = "run"
  /\ Failed(w)
  /\ \E l \in tx_results[job[w].tx].write_set \ job[w].done :
       MarkEstimate(l, job[w].tx) /\ MarkDone(w, l)
  /\ UNCHANGED <<ctxVars, depVars, history, txVars, abort_reason, blockVars,
                 finalityVars, commit_pc, phase>>

\* An error without an estimate to blame aborts at the commit head.
RecordFailure(w) ==
  LET t == job[w].tx
      blocked == job[w].blocking # {}
  IN  /\ pc[w] = "run"
      /\ Failed(w)
      /\ tx_results[t].write_set \subseteq job[w].done
      /\ IF ~Recordable(t, job[w].incarnation)
         THEN GiveUp(w) /\ Unlock(t) /\ UNCHANGED <<history, tx_results>>
         ELSE /\ RecordEntry(t, job[w].incarnation, Estimate)
              /\ tx_results' = [tx_results EXCEPT ![t].kind = "Err", ![t].reads = NoReads]
              /\ Goto(w, IF blocked THEN "depend" ELSE "key", [Idle EXCEPT
                   !.tx = t, !.incarnation = job[w].incarnation, !.conflict = TRUE,
                   !.dep = LatestUnfinalized(job[w].blocking)])
              /\ IF ~blocked /\ committed = t
                 THEN Abort(IF Step(w).op = "invalid" THEN FallbackSequential
                                                      ELSE FatalEvmError(t))
                 ELSE UNCHANGED abort_reason
              /\ UNCHANGED holder
      /\ UNCHANGED <<ctxVars, depVars, mv_memory, status, incarnation, blockVars,
                     finalityVars, commit_pc, phase>>

\* A blocked execution waits for a predecessor, a clean one releases the
\* transactions that wait for it and may be handed its successor.
Depend(w) ==
  LET t == job[w].tx
  IN  /\ pc[w] = "depend"
      /\ IF job[w].conflict
         THEN Add(t, job[w].dep) /\ Goto(w, "executed", job[w])
         ELSE /\ Remove(t, TRUE)
              /\ Goto(w, "executed", [job[w] EXCEPT !.next = Handed(t, TRUE)])
      /\ UNCHANGED <<ctxVars, specVars, txVars, abort_reason, blockVars,
                     finalityVars, commit_pc, phase>>

\* key_tx reads the committed cursor under the lock of its own entry.
HoldKeyTx(w) ==
  /\ pc[w] = "key"
  /\ KeyTx(job[w].tx, committed)
  /\ Goto(w, "executed", job[w])
  /\ UNCHANGED <<ctxVars, specVars, txVars, abort_reason, blockVars,
                 finalityVars, commit_pc, phase>>

\* The new status, and the execution frontier.  A clean execution that wrote
\* no new location goes straight to its own validation.
FinishExecution(w) ==
  LET t == job[w].tx
      direct == ~job[w].conflict /\ ~job[w].fresh /\ job[w].next = NoTx
  IN  /\ pc[w] = "executed"
      /\ executed' = [executed EXCEPT ![t] = TRUE]
      /\ IF direct
         THEN /\ SetStatus(t, "Validating")
              /\ Unlock(t)
              /\ Goto(w, "validate",
                      [Idle EXCEPT !.tx = t, !.incarnation = job[w].incarnation])
         ELSE /\ SetStatus(t, IF job[w].conflict THEN "Conflict" ELSE "Executed")
              /\ Goto(w, "stamp", job[w])
              /\ UNCHANGED holder
      /\ UNCHANGED <<validation, finality, committed, logical_clock,
                     lower_timestamps, unconfirmed_timestamps, depVars, specVars,
                     incarnation, tx_results, abort_reason, blockVars,
                     finalityVars, commit_pc, phase>>

RewindTarget(w) == IF job[w].conflict THEN job[w].tx + 1 ELSE job[w].tx

StampExecution(w) ==
  /\ pc[w] = "stamp"
  /\ StampRewind(RewindTarget(w))
  /\ Goto(w, "rewind", job[w])
  /\ UNCHANGED <<validation, finality, committed, executed,
                 unconfirmed_timestamps, depVars, specVars, txVars, abort_reason,
                 blockVars, finalityVars, commit_pc, phase>>

RewindExecution(w) ==
  /\ pc[w] = "rewind"
  /\ RewindCursor(RewindTarget(w))
  /\ Unlock(job[w].tx)
  /\ IF job[w].next = NoTx THEN Goto(w, "next", Idle)
                           ELSE Goto(w, "task", [Idle EXCEPT !.tx = job[w].next])
  /\ UNCHANGED <<finality, committed, executed, logical_clock, lower_timestamps,
                 unconfirmed_timestamps, depVars, specVars, status, incarnation,
                 tx_results, abort_reason, blockVars, finalityVars, commit_pc,
                 phase>>

-----------------------------------------------------------------------------
(* validate: the transaction's lock is held from here to the end           *)

ReadSet(w) == tx_results[job[w].tx].reads

\* On to the next read, or to the verdict once every read is checked.
Scanned(w, j) ==
  IF ReadLocs(ReadSet(w)) \subseteq j.done
  THEN Goto(w, IF j.conflict THEN "estimate" ELSE "confirm", [j EXCEPT !.done = {}])
  ELSE Goto(w, "scan", j)

\* The timestamp is taken under the lock and before the first read is
\* checked, so that any later rewind outdates this validation.
BeginValidation(w) ==
  LET t == job[w].tx
  IN  /\ pc[w] = "validate"
      /\ Free(t)
      /\ IF status[t] # "Validating"
         THEN Goto(w, "next", Idle) /\ UNCHANGED <<holder, logical_clock, abort_reason>>
         ELSE IF incarnation[t] # job[w].incarnation \/ tx_results[t].kind # "Ok"
         THEN GiveUp(w) /\ UNCHANGED <<holder, logical_clock>>
         ELSE /\ Lock(t, w)
              /\ logical_clock' = logical_clock + 1
              /\ Scanned(w, [job[w] EXCEPT !.ts = logical_clock])
              /\ UNCHANGED abort_reason
      /\ UNCHANGED <<validation, finality, committed, executed, lower_timestamps,
                     unconfirmed_timestamps, depVars, specVars, status,
                     incarnation, tx_results, blockVars, finalityVars, commit_pc,
                     phase>>

\* The verdict on one read, with the writer it depends on, if any.
Checked(w, l, valid, dependency) ==
  [job[w] EXCEPT !.done = @ \cup {l}, !.conflict = @ \/ ~valid, !.chain = <<>>,
                 !.dep = IF dependency = NoTx THEN @ ELSE MaxTx(@, dependency)]

\* A read is valid while the latest preceding version is the one it saw and
\* is no estimate; one from storage, while no preceding transaction writes.
ScanMemory(w) ==
  LET t == job[w].tx
  IN  /\ pc[w] = "scan"
      /\ \E l \in (ReadLocs(ReadSet(w)) \ {Ben}) \ job[w].done :
           LET p == LatestWriter(l, t)
               entry == mv_memory[l][p]
               valid == IF p = NoTx THEN ReadSet(w)[l].origins = <<>>
                        ELSE /\ ~entry.estimate
                             /\ ReadSet(w)[l].origins = <<<<p, entry.incarnation>>>>
           IN  Scanned(w, Checked(w, l, valid, p))
      /\ UNCHANGED <<ctxVars, depVars, specVars, txVars, abort_reason, blockVars,
                     finalityVars, commit_pc, phase>>

\* BeneficiaryHistory::validate compares the origins of a fresh scan.
ScanBeneficiary(w) ==
  LET t == job[w].tx
      writer == (t - Len(job[w].chain)) - 1
      chain == Append(job[w].chain, Link(writer))
      expected == ReadSet(w)[Ben].origins
  IN  /\ pc[w] = "scan"
      /\ Ben \in ReadLocs(ReadSet(w)) \ job[w].done
      /\ Scanned(w,
           IF t = 0 THEN Checked(w, Ben, expected = <<>>, NoTx)
           ELSE IF history[writer].value = Estimate THEN Checked(w, Ben, FALSE, writer)
           ELSE IF ScanEndsAt(writer)
           THEN Checked(w, Ben, expected = Origins(chain), t - 1)
           ELSE [job[w] EXCEPT !.chain = chain])
      /\ UNCHANGED <<ctxVars, depVars, specVars, txVars, abort_reason, blockVars,
                     finalityVars, commit_pc, phase>>

\* unconfirmed(t, ts) and the new status, under the transaction's lock.
Confirm(w) ==
  LET t == job[w].tx
  IN  /\ pc[w] = "confirm"
      /\ Unconfirm(t, job[w].ts)
      /\ SetStatus(t, "Unconfirmed")
      /\ Unlock(t)
      /\ Goto(w, "next", Idle)
      /\ UNCHANGED <<validation, finality, committed, executed, logical_clock,
                     lower_timestamps, depVars, specVars, incarnation, tx_results,
                     abort_reason, blockVars, finalityVars, commit_pc, phase>>

\* Faulty variant: the writes of an invalid incarnation stay exact.
LeaveConflictWrite(w) ==
  /\ pc[w] = "estimate"
  /\ \E l \in tx_results[job[w].tx].write_set \ job[w].done : MarkDone(w, l)
  /\ UNCHANGED <<ctxVars, depVars, specVars, txVars, abort_reason, blockVars,
                 finalityVars, commit_pc, phase>>

\* Readers must not validate against the writes of an invalid incarnation:
\* they become estimates before the suffix is offered for validation again.
MarkConflictWrite(w) ==
  /\ pc[w] = "estimate"
  /\ \E l \in tx_results[job[w].tx].write_set \ job[w].done :
       MarkEstimate(l, job[w].tx) /\ MarkDone(w, l)
  /\ UNCHANGED <<ctxVars, depVars, history, txVars, abort_reason, blockVars,
                 finalityVars, commit_pc, phase>>

InvalidateHistory(w) ==
  LET t == job[w].tx
  IN  /\ pc[w] = "estimate"
      /\ tx_results[t].write_set \subseteq job[w].done
      /\ IF ~Invalidatable(t, job[w].incarnation)
         THEN GiveUp(w) /\ Unlock(t) /\ UNCHANGED history
         ELSE /\ InvalidateEntry(t)
              /\ Goto(w, "restamp", [job[w] EXCEPT !.done = {}])
              /\ UNCHANGED <<holder, abort_reason>>
      /\ UNCHANGED <<ctxVars, depVars, mv_memory, status, incarnation, tx_results,
                     blockVars, finalityVars, commit_pc, phase>>

StampConflict(w) ==
  /\ pc[w] = "restamp"
  /\ StampRewind(job[w].tx + 1)
  /\ Goto(w, "recursor", job[w])
  /\ UNCHANGED <<validation, finality, committed, executed,
                 unconfirmed_timestamps, depVars, specVars, txVars, abort_reason,
                 blockVars, finalityVars, commit_pc, phase>>

\* A dependency that is already final is no reason to wait.
RewindConflict(w) ==
  /\ pc[w] = "recursor"
  /\ RewindCursor(job[w].tx + 1)
  /\ Goto(w, "readd", [job[w] EXCEPT !.dep = LatestUnfinalized({@} \ {NoTx})])
  /\ UNCHANGED <<finality, committed, executed, logical_clock, lower_timestamps,
                 unconfirmed_timestamps, depVars, specVars, txVars, abort_reason,
                 blockVars, finalityVars, commit_pc, phase>>

AddConflict(w) ==
  LET t == job[w].tx
  IN  /\ pc[w] = "readd"
      /\ Add(t, job[w].dep)
      /\ SetStatus(t, "Conflict")
      /\ Unlock(t)
      /\ Goto(w, "next", Idle)
      /\ UNCHANGED <<ctxVars, specVars, incarnation, tx_results, abort_reason,
                     blockVars, finalityVars, commit_pc, phase>>

-----------------------------------------------------------------------------
(* run_finality_loop                                                       *)

\* lock_finality_candidate looks at the validation cursor first; the outer
\* loop alone looks at the abort flag.
FinalityCheck ==
  /\ finality_pc \in {"outer", "inner"}
  /\ finality_pc' =
       IF finality_pc = "outer" /\ (IsAborted \/ finality = N) THEN "done"
       ELSE IF finality < N /\ finality < validation THEN "lock"
       ELSE "outer"
  /\ UNCHANGED <<lower_ts, ctxVars, depVars, specVars, txVars, abort_reason,
                 blockVars, workerVars, commit_pc, phase>>

\* Faulty variants: any validation is new enough; only a rewind to the
\* candidate itself counts.
FinalityLockAnyTime ==
  /\ finality_pc = "lock"
  /\ Free(finality)
  /\ IF status[finality] = "Unconfirmed"
     THEN SetStatus(finality, "Finality") /\ finality_pc' = "publish"
     ELSE finality_pc' = "outer" /\ UNCHANGED status
  /\ UNCHANGED <<lower_ts, ctxVars, depVars, specVars, incarnation, holder,
                 tx_results, abort_reason, blockVars, workerVars, commit_pc, phase>>

FinalityLockOwnTime ==
  LET t == finality
  IN  /\ finality_pc = "lock"
      /\ Free(t)
      /\ IF status[t] = "Unconfirmed" /\ unconfirmed_timestamps[t] > lower_timestamps[t]
         THEN SetStatus(t, "Finality") /\ finality_pc' = "publish"
         ELSE finality_pc' = "outer" /\ UNCHANGED status
      /\ UNCHANGED <<lower_ts, ctxVars, depVars, specVars, incarnation, holder,
                     tx_results, abort_reason, blockVars, workerVars, commit_pc,
                     phase>>

\* A candidate is final when its validation is newer than every rewind to it
\* or to a transaction before it.
FinalityLock ==
  LET t == finality
      lower == Max(lower_ts, lower_timestamps[t])
  IN  /\ finality_pc = "lock"
      /\ Free(t)
      /\ IF status[t] = "Unconfirmed" /\ unconfirmed_timestamps[t] > lower
         THEN /\ SetStatus(t, "Finality")
              /\ lower_ts' = lower
              /\ finality_pc' = "publish"
         ELSE /\ finality_pc' = "outer"
              /\ UNCHANGED <<status, lower_ts>>
      /\ UNCHANGED <<ctxVars, depVars, specVars, incarnation, holder, tx_results,
                     abort_reason, blockVars, workerVars, commit_pc, phase>>

FinalityPublish ==
  /\ finality_pc = "publish"
  /\ finality' = finality + 1
  /\ finality_pc' = "inner"
  /\ UNCHANGED <<validation, committed, executed, logical_clock, lower_timestamps,
                 unconfirmed_timestamps, lower_ts, depVars, specVars, txVars,
                 abort_reason, blockVars, workerVars, commit_pc, phase>>

-----------------------------------------------------------------------------
(* run_commit_loop and OrderedCommitter::commit                            *)

\* The outer loop waits for a finalized transaction and alone looks at the
\* abort flag.
CommitCheck ==
  /\ \/ /\ commit_pc = "outer"
        /\ \/ (IsAborted \/ committed = N) /\ commit_pc' = "done"
           \/ ~IsAborted /\ committed < finality /\ commit_pc' = "inner"
     \/ commit_pc = "inner" /\ committed >= finality /\ commit_pc' = "outer"
  /\ UNCHANGED <<ctxVars, depVars, specVars, txVars, abort_reason, blockVars,
                 workerVars, finalityVars, phase>>

StopCommit(reason) ==
  /\ Abort(reason)
  /\ commit_pc' = "done"
  /\ UNCHANGED <<store, output>>

\* Faulty variant: the state is applied before the checks.
CommitTxThenCheck ==
  LET t == committed
      vals == Vals(tx_results[t].reads)
  IN  /\ commit_pc = "inner"
      /\ committed < finality
      /\ tx_results' = [tx_results EXCEPT ![t] = NoResult]
      /\ store' = Apply(store, Changes(t, vals), DeferredReward(t, vals))
      /\ output' = Append(output, Executed(vals))
      /\ IF t \in DbFail
         THEN Abort(CommitError(t)) /\ commit_pc' = "done" /\ error' = t
         ELSE IF ~NonceOk(t, store)
         THEN Abort(FallbackSequential) /\ commit_pc' = "done" /\ UNCHANGED error
         ELSE commit_pc' = "publish" /\ UNCHANGED <<abort_reason, error>>
      /\ UNCHANGED <<ctxVars, depVars, specVars, status, incarnation, holder,
                     results, workerVars, finalityVars, phase>>

\* The nonce is checked against the committed prefix; the state, the
\* deferred reward and the outcome are applied before the prefix is
\* published.
CommitTx ==
  LET t == committed
      vals == Vals(tx_results[t].reads)
  IN  /\ commit_pc = "inner"
      /\ committed < finality
      /\ tx_results' = [tx_results EXCEPT ![t] = NoResult]
      /\ \/ /\ tx_results[t].kind # "Ok"
            /\ StopCommit(ParallelError(t)) /\ UNCHANGED error
         \/ /\ tx_results[t].kind = "Ok" /\ t \in DbFail
            /\ StopCommit(CommitError(t)) /\ error' = t
         \/ /\ tx_results[t].kind = "Ok" /\ ~NonceOk(t, store)
            /\ StopCommit(FallbackSequential) /\ UNCHANGED error
         \/ /\ tx_results[t].kind = "Ok" /\ NonceOk(t, store)
            /\ store' = Apply(store, Changes(t, vals), DeferredReward(t, vals))
            /\ output' = Append(output, Executed(vals))
            /\ commit_pc' = "publish"
            /\ UNCHANGED <<abort_reason, error>>
      /\ UNCHANGED <<ctxVars, depVars, specVars, status, incarnation, holder,
                     results, workerVars, finalityVars, phase>>

PublishCommit ==
  /\ commit_pc = "publish"
  /\ committed' = committed + 1
  /\ commit_pc' = "release"
  /\ UNCHANGED <<validation, finality, executed, logical_clock, lower_timestamps,
                 unconfirmed_timestamps, depVars, specVars, txVars, abort_reason,
                 blockVars, workerVars, finalityVars, phase>>

\* Faulty variant: the commit of a transaction releases nobody.
ReleaseNobody ==
  /\ commit_pc = "release"
  /\ commit_pc' = "inner"
  /\ UNCHANGED <<ctxVars, depVars, specVars, txVars, abort_reason, blockVars,
                 workerVars, finalityVars, phase>>

\* The successor is released only after the prefix is published.
ReleaseSuccessor ==
  /\ commit_pc = "release"
  /\ Commit(committed - 1)
  /\ commit_pc' = "inner"
  /\ UNCHANGED <<ctxVars, specVars, txVars, abort_reason, blockVars, workerVars,
                 finalityVars, phase>>

-----------------------------------------------------------------------------
(* install_commit_loop_result, post_execute and the sequential replay      *)

AllJoined ==
  /\ \A w \in Workers : pc[w] = "done"
  /\ finality_pc = "done"
  /\ commit_pc = "done"

\* Faulty variant: an error is returned without the committed outcomes.
PostExecuteDropsPrefix ==
  LET fatal == abort_reason.tx
      failed == abort_reason.kind = "FatalEvmError" /\ tx_results[fatal].kind = "Err"
  IN  /\ phase = "parallel"
      /\ AllJoined
      /\ results' = IF error # NoTx \/ failed THEN <<>> ELSE output
      /\ output' = <<>>
      /\ error' = IF error = NoTx /\ failed THEN fatal ELSE error
      /\ phase' = IF error # NoTx \/ failed \/ ~IsAborted THEN "done" ELSE "replay"
      /\ UNCHANGED <<ctxVars, depVars, specVars, txVars, abort_reason, store,
                     workerVars, finalityVars, commit_pc>>

\* Faulty variant: an error at the commit head is returned whatever the reason.
PostExecuteReturnsHead ==
  LET failed == committed \in Tx /\ tx_results[committed].kind = "Err"
  IN  /\ phase = "parallel"
      /\ AllJoined
      /\ results' = output
      /\ output' = <<>>
      /\ error' = IF error = NoTx /\ IsAborted /\ failed THEN committed ELSE error
      /\ phase' = IF error # NoTx \/ failed \/ ~IsAborted THEN "done" ELSE "replay"
      /\ UNCHANGED <<ctxVars, depVars, specVars, txVars, abort_reason, store,
                     workerVars, finalityVars, commit_pc>>

\* The commit thread's error comes first; then the abort reason chooses
\* between an error and the replay of the uncommitted suffix.
PostExecute ==
  LET fatal == abort_reason.tx
  IN  /\ phase = "parallel"
      /\ AllJoined
      /\ results' = output
      /\ output' = <<>>
      /\ IF error # NoTx \/ ~IsAborted
         THEN phase' = "done" /\ UNCHANGED error
         ELSE IF abort_reason.kind = "FatalEvmError" /\ tx_results[fatal].kind = "Err"
         THEN phase' = "done" /\ error' = fatal
         ELSE phase' = "replay" /\ UNCHANGED error
      /\ UNCHANGED <<ctxVars, depVars, specVars, txVars, abort_reason, store,
                     workerVars, finalityVars, commit_pc>>

Replayed == Len(results) + Len(output)

ReplayOk(t, vals) ==
  /\ store' = Apply(store, Changes(t, vals), DeferredReward(t, vals))
  /\ output' = Append(output, Executed(vals))
  /\ UNCHANGED error
ReplaySkip == output' = Append(output, Skipped) /\ UNCHANGED <<store, error>>
ReplayFail(t) == error' = t /\ UNCHANGED <<store, output>>

\* One transaction of execute_sequential_suffix, with nonce checks enabled.
ReplayTx ==
  LET t == Replayed
  IN  /\ phase = "replay"
      /\ t < N
      /\ error = NoTx
      /\ \E vals \in Readings :
           /\ Run(t, store, vals)
           /\ \/ t \in DbFail /\ ReplayFail(t)
              \/ IF ~NonceOk(t, store) \/ Evm(t, vals).op = "invalid" THEN ReplaySkip
                 ELSE IF Evm(t, vals).op = "fatal" THEN ReplayFail(t)
                 ELSE ReplayOk(t, vals)
      /\ UNCHANGED <<ctxVars, depVars, specVars, txVars, abort_reason, results,
                     workerVars, finalityVars, commit_pc, phase>>

\* The outcomes of the completed suffix are kept even when it ends early.
ReplayEnd ==
  /\ phase = "replay"
  /\ Replayed = N \/ error # NoTx
  /\ results' = results \o output
  /\ output' = <<>>
  /\ phase' = "done"
  /\ UNCHANGED <<ctxVars, depVars, specVars, txVars, abort_reason, store, error,
                 workerVars, finalityVars, commit_pc>>

Finished == phase = "done" /\ UNCHANGED vars

-----------------------------------------------------------------------------
(* The specification                                                       *)

ScheduleStep(w) ==
  \/ WorkerExit(w) \/ ClaimValidation(w) \/ TakeValidation(w)
  \/ AdvanceExecution(w) \/ ClaimExecution(w) \/ TakeExecution(w)
  \/ ReleaseDependents(w)

ExecuteStep(w) ==
  \/ BeginExecution(w) \/ ReadMemory(w) \/ ReadBacking(w) \/ ReadBeneficiary(w)
  \/ PublishWrite(w) \/ PruneWrite(w) \/ RecordExecution(w)
  \/ MarkFailedWrite(w) \/ RecordFailure(w) \/ Depend(w) \/ HoldKeyTx(w)
  \/ FinishExecution(w) \/ StampExecution(w) \/ RewindExecution(w)

ValidateStep(w) ==
  \/ BeginValidation(w) \/ ScanMemory(w) \/ ScanBeneficiary(w) \/ Confirm(w)
  \/ MarkConflictWrite(w) \/ InvalidateHistory(w) \/ StampConflict(w)
  \/ RewindConflict(w) \/ AddConflict(w)

WorkerStep(w) == ScheduleStep(w) \/ ExecuteStep(w) \/ ValidateStep(w)
FinalityStep == FinalityCheck \/ FinalityLock \/ FinalityPublish
CommitStep == CommitCheck \/ CommitTx \/ PublishCommit \/ ReleaseSuccessor
CallerStep == PostExecute \/ ReplayTx \/ ReplayEnd

Next ==
  \/ \E w \in Workers : WorkerStep(w)
  \/ FinalityStep
  \/ CommitStep
  \/ CallerStep
  \/ Finished

Spec == Init /\ [][Next]_vars

\* Every thread is scheduled by the operating system: a thread that can take
\* a step takes one.  A worker waiting for a lock may be overtaken.
FairSpec ==
  /\ Spec
  /\ \A w \in Workers : WF_vars(WorkerStep(w))
  /\ WF_vars(FinalityStep)
  /\ WF_vars(CommitStep)
  /\ WF_vars(CallerStep)

=============================================================================
