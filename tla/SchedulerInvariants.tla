------------------------ MODULE SchedulerInvariants -------------------------
(***************************************************************************)
(* Inductive invariants of the scheduler: who owns a transaction at each   *)
(* point of a worker's task, and what that owner may rely on.              *)
(***************************************************************************)
EXTENDS SchedulerProperties

IdleLabels == {"next", "pick", "done"}
\* execute_task, before and after its result is recorded.
RunLabels == {"execute", "run", "backing"}
RecordedLabels == {"depend", "key", "executed"}
ExecuteLabels == RunLabels \cup RecordedLabels
\* The status is final for this execution, the lock still held.
FinishLabels == {"stamp", "rewind"}
ValidateLabels == {"validate", "scan", "confirm", "estimate", "restamp",
                   "recursor", "readd"}
TaskLabels == ExecuteLabels \cup ValidateLabels
BusyLabels == TaskLabels \cup FinishLabels
LockedLabels == BusyLabels \ {"execute", "validate"}

\* A worker with a task knows its transaction, and a scan of the beneficiary
\* history in progress has entries left to look at.
BusyInv ==
  \A w \in Workers : pc[w] \notin IdleLabels =>
    /\ job[w].tx \in Tx
    /\ job[w].chain = <<>> \/ Len(job[w].chain) < job[w].tx

\* The cursors of the two coordinators are ordered and within the block.
CursorInv ==
  /\ committed <= finality
  /\ finality_pc \in {"lock", "publish"} => finality < N
  /\ commit_pc = "publish" => committed < finality
  /\ commit_pc = "release" => committed > 0

\* A successful result is that of an execution that ended well.
ResultInv ==
  \A t \in Tx : tx_results[t].kind = "Ok" =>
    Evm(t, Vals(tx_results[t].reads)).op = "ok"

\* A set of positions in the block has a last one.
PositionsOrdered ==
  \A S \in SUBSET (0 .. N) : S # {} => \E m \in S : \A x \in S : x <= m

TypeInv == TypeOK /\ BusyInv /\ CursorInv /\ ResultInv /\ PositionsOrdered

\* A worker owns its transaction from the moment it has set its status to
\* the unlock; what it may then rely on, whatever the others do.
WorkerOwn(w) ==
  LET t == job[w].tx
  IN  pc[w] \in BusyLabels =>
        /\ pc[w] \in LockedLabels <=> holder[t] = w
        /\ pc[w] \in ExecuteLabels => status[t] = "Executing"
        /\ pc[w] \in ValidateLabels => status[t] = "Validating"
        /\ pc[w] \in TaskLabels => job[w].incarnation = incarnation[t]
        /\ pc[w] \in FinishLabels => status[t] \in {"Executed", "Conflict"}
        /\ pc[w] \in RunLabels => history[t].incarnation < incarnation[t]
        /\ pc[w] \in RecordedLabels => history[t].incarnation = incarnation[t]
        /\ pc[w] \in RecordedLabels /\ ~job[w].conflict => tx_results[t].kind = "Ok"
        /\ pc[w] = "key" => job[w].conflict

\* The commit thread has not taken the result of t.
Uncommitted(t) ==
  t > committed \/ (t = committed /\ commit_pc \notin {"publish", "done"})

\* The lock, the beneficiary history and the result of a transaction follow
\* its status, and the final transactions are a prefix of the block.
TxOwn(t) ==
  /\ holder[t] # NoOne => pc[holder[t]] \in LockedLabels /\ job[holder[t]].tx = t
  /\ history[t].incarnation <= incarnation[t]
  /\ status[t] \in {"Executed", "Validating", "Unconfirmed"} =>
       history[t].incarnation = incarnation[t] /\ tx_results[t].kind = "Ok"
  /\ status[t] = "Finality" <=>
       t < finality \/ (t = finality /\ finality_pc = "publish")
  /\ status[t] = "Finality" /\ Uncommitted(t) => tx_results[t].kind = "Ok"

OwnInv ==
  /\ \A w \in Workers : WorkerOwn(w)
  /\ \A t \in Tx : TxOwn(t)
  /\ \A v, w \in Workers :
       pc[v] \in BusyLabels /\ pc[w] \in BusyLabels /\ job[v].tx = job[w].tx => v = w

\* No two workers are ever in the middle of the same transaction, each drives
\* the current incarnation under the status it set, and what finality and
\* commit find is the result of that incarnation (TxState's lock and status,
\* execute_task, validate, run_finality_loop, run_commit_loop).
Ownership == TypeInv /\ OwnInv /\ NoParallelError

-----------------------------------------------------------------------------
(* How the block ends                                                      *)

\* The outcomes are those of the committed prefix, an error is that of the next
\* transaction, and the result of a committed transaction is gone.
ParallelOutcome ==
  /\ results = <<>>
  /\ Len(output) = IF commit_pc = "publish" THEN committed + 1 ELSE committed
  /\ error # NoTx => error = committed /\ commit_pc = "done"
  /\ commit_pc = "done" => IsAborted \/ committed = N
  /\ abort_reason.kind = "FatalEvmError" => abort_reason.tx \in 0 .. committed

CommittedInv ==
  \A t \in Tx : t < committed \/ (t = committed /\ commit_pc = "publish") =>
    tx_results[t].kind = "None"

OutcomeInv ==
  /\ CommittedInv
  /\ phase = "parallel" => ParallelOutcome
  /\ phase # "parallel" => commit_pc = "done"
  /\ phase = "replay" => Replayed <= N /\ (error # NoTx => error = Replayed)
  /\ CompleteOrFailed

-----------------------------------------------------------------------------
(* What an incarnation leaves in the memory and in the history             *)

Written(l, t) == mv_memory[l][t].incarnation > 0

\* The entries of t are those of its last result.
Covered(t) == \A l \in Loc : Written(l, t) <=> l \in tx_results[t].write_set

\* Nobody validates against what t has left.
Estimated(t) ==
  /\ history[t].value = Estimate
  /\ \A l \in Loc : Written(l, t) => mv_memory[l][t].estimate

TxMemory(t) ==
  /\ status[t] \notin {"Executing", "Finality"} => Covered(t)
  /\ status[t] \in {"Initial", "Conflict"} => Estimated(t)
  /\ status[t] = "Executing" /\ holder[t] = NoOne => Covered(t) /\ Estimated(t)

\* An execution in progress: the locations it is done with have its own entries,
\* the others those the last result left, as estimates.
RunMemory(w) ==
  LET t == job[w].tx
      written == tx_results[t].write_set
  IN  /\ history[t].value = Estimate
      /\ job[w].done # {} => pc[w] = "run" /\ Step(w).op # "read"
      /\ \A l \in Loc \ job[w].done :
           /\ Written(l, t) <=> l \in written
           /\ Written(l, t) => mv_memory[l][t].estimate
      /\ \A l \in job[w].done :
           IF Step(w).op = "ok"
           THEN IF l \in WriteSet(w)
                THEN Written(l, t) /\ (mv_memory[l][t].estimate <=> job[w].blocking # {})
                ELSE ~Written(l, t)
           ELSE l \in written /\ Written(l, t) /\ mv_memory[l][t].estimate

WorkerMemory(w) ==
  LET t == job[w].tx
  IN  /\ pc[w] \notin {"run", "scan", "estimate"} => job[w].done = {}
      /\ pc[w] \in {"run", "backing"} => RunMemory(w)
      /\ pc[w] \in RecordedLabels => Covered(t) /\ (job[w].conflict => Estimated(t))
      /\ pc[w] = "estimate" =>
           \A l \in job[w].done : Written(l, t) => mv_memory[l][t].estimate
      /\ pc[w] \in {"restamp", "recursor", "readd"} => Estimated(t)

MemoryInv ==
  /\ \A t \in Tx : TxMemory(t)
  /\ \A w \in Workers : WorkerMemory(w)

-----------------------------------------------------------------------------
(* What a validation may rely on                                           *)

\* w has changed what later transactions may have read, and will stamp a rewind.
Pending(w) ==
  \/ /\ pc[w] = "run" /\ Step(w).op = "ok"
     /\ ~(job[w].done \cap WriteSet(w) \subseteq tx_results[job[w].tx].write_set)
  \/ pc[w] \in RecordedLabels /\ (job[w].conflict \/ job[w].fresh)
  \/ pc[w] \in {"stamp", "estimate", "restamp"}

\* A validation of t at time ts does not count: there is a later rewind to t or to
\* a transaction before it, or there will be one.
Outdated(t, ts) ==
  \/ \E i \in Tx : i <= t /\ lower_timestamps[i] > ts
  \/ \E w \in Workers : Pending(w) /\ job[w].tx < t

ReadCurrent(t, l) ==
  IF l = Ben THEN BeneficiaryCurrent(t, tx_results[t].reads[l].origins)
             ELSE MemoryCurrent(l, t, tx_results[t].reads[l].origins)

\* A read checked by the validation of t at time ts.
StillValid(t, l, ts) == ReadCurrent(t, l) \/ Outdated(t, ts)

\* An entry of the history met by the validation of t at time ts.
StillLinked(t, i, link, ts) ==
  /\ link.tx = t - i
  /\ \/ link = Link(t - i) /\ link.value # Estimate /\ link.value.kind # "Snapshot"
     \/ Outdated(t, ts)

TimeInv ==
  /\ \A t \in Tx : /\ lower_timestamps[t] < logical_clock
                   /\ unconfirmed_timestamps[t] < logical_clock
                   /\ t < finality \/ (t = finality /\ finality_pc = "publish") =>
                        lower_timestamps[t] <= lower_ts
  /\ \A w \in Workers : pc[w] \in {"scan", "confirm"} =>
       /\ unconfirmed_timestamps[job[w].tx] < job[w].ts
       /\ job[w].ts < logical_clock

ScanInv(w) ==
  LET t == job[w].tx
      reads == ReadLocs(tx_results[t].reads)
  IN  /\ pc[w] \in {"claimed", "validate"} => job[w].chain = <<>>
      /\ pc[w] = "scan" /\ ~job[w].conflict =>
           /\ \A l \in reads \cap job[w].done : StillValid(t, l, job[w].ts)
           /\ \A i \in DOMAIN job[w].chain : StillLinked(t, i, job[w].chain[i], job[w].ts)
      /\ pc[w] = "confirm" => \A l \in reads : StillValid(t, l, job[w].ts)

ReadsInv ==
  /\ TimeInv
  /\ \A w \in Workers : ScanInv(w)
  /\ \A t \in Tx : status[t] = "Unconfirmed" =>
       \A l \in ReadLocs(tx_results[t].reads) : StillValid(t, l, unconfirmed_timestamps[t])
  /\ FinalReadsCurrent

-----------------------------------------------------------------------------
(* What the values are                                                     *)

\* val is what incarnation inc of p has published at l.
VersionIs(l, p, inc, val) ==
  /\ inc = incarnation[p] => mv_memory[l][p].incarnation = inc
  /\ mv_memory[l][p].incarnation = inc => mv_memory[l][p].data = val

\* effect is what incarnation inc of p has recorded, unless it was an estimate.
EffectIs(p, inc, effect) ==
  /\ inc <= history[p].incarnation
  /\ inc = history[p].incarnation /\ history[p].value # Estimate => history[p].value = effect

\* Where a value read by t comes from: a version, or the committed state before any
\* transaction that is final by now and writes the location.
FromMemory(t, l, read) ==
  \/ /\ read.origins = <<>>
     /\ \/ read.val = InitStore[l]
        \/ \E p \in Tx : p < t /\ status[p] = "Finality" /\ Written(l, p)
  \/ \E p \in Tx : \E inc \in 1 .. incarnation[p] :
       read.origins = <<<<p, inc>>>> /\ VersionIs(l, p, inc, read.val)

\* ... a chain of effects, or nothing when an estimate was met.
FromHistory(t, read) ==
  LET n == Len(read.origins)
  IN  \/ n = 0 /\ t > 0
      \/ \E effects \in [1 .. n -> Effects] : \E balances \in [0 .. n -> Val] :
           /\ balances[0] = InitStore[Ben] /\ balances[n] = read.val
           /\ \A k \in 1 .. n : balances[k] = Effected(balances[k - 1], effects[n + 1 - k])
           /\ \A i \in 1 .. n : EffectIs(read.origins[i][1], read.origins[i][2], effects[i])

Traced(t, reads) ==
  \A l \in ReadLocs(reads) :
    IF l = Ben THEN FromHistory(t, reads[l]) ELSE FromMemory(t, l, reads[l])

\* What t has left in the memory and in the history is what its result says.
Exact(t) ==
  LET vals == Vals(tx_results[t].reads)
  IN  /\ history[t].value = EffectOf(t, vals)
      /\ \A l \in Loc : IF l \in Published(t, vals)
                        THEN Written(l, t) /\ mv_memory[l][t].data = Changes(t, vals)[l]
                        ELSE ~Written(l, t)

\* An entry is that of an incarnation of its transaction, and an execution that has
\* not started to publish has none of its own.
TxValue(t) ==
  /\ \A l \in Loc : mv_memory[l][t].incarnation <= incarnation[t]
  /\ status[t] = "Executing" /\ holder[t] = NoOne =>
       \A l \in Loc : mv_memory[l][t].incarnation < incarnation[t]
  /\ \/ status[t] \in {"Executed", "Unconfirmed"}
     \/ status[t] = "Validating" /\ holder[t] = NoOne
     \/ status[t] = "Finality" /\ Uncommitted(t)
     => Exact(t)

WorkerValue(w) ==
  LET t == job[w].tx
  IN  /\ pc[w] \in {"run", "backing"} =>
           \A l \in Loc \ job[w].done : mv_memory[l][t].incarnation < incarnation[t]
      /\ pc[w] = "run" /\ Step(w).op = "ok" =>
           \A l \in job[w].done \cap WriteSet(w) :
             mv_memory[l][t].data = Changes(t, Vals(job[w].reads))[l]
      /\ \/ pc[w] \in {"scan", "confirm"}
         \/ pc[w] \in RecordedLabels /\ ~job[w].conflict
         => Exact(t)

\* Every execution has asked for what it has read, and read it somewhere.
WorkerTrace(w) ==
  /\ IF pc[w] \in {"run", "backing"}
     THEN Asked(job[w].tx, Vals(job[w].reads)) /\ Traced(job[w].tx, job[w].reads)
     ELSE job[w].reads = NoReads
  /\ pc[w] = "backing" => Step(w).op = "read" /\ Step(w).loc # Ben
  /\ \A i \in DOMAIN job[w].chain :
       EffectIs(job[w].chain[i].tx, job[w].chain[i].incarnation, job[w].chain[i].value)

TxTrace(t) ==
  /\ Traced(t, tx_results[t].reads)
  /\ tx_results[t].kind = "Ok" => Asked(t, Vals(tx_results[t].reads))

\* The value of l after the first k transactions.
ValueAfter(l, k) ==
  IF LatestWriter(l, k) = NoTx THEN InitStore[l] ELSE mv_memory[l][LatestWriter(l, k)].data

\* The committed state is what the committed transactions have published.
StoreInv ==
  /\ phase = "parallel" =>
       /\ \A l \in Loc \ {Ben} : store[l] = ValueAfter(l, Len(output))
       /\ \E balances \in [0 .. Len(output) -> Val] :
            /\ balances[0] = InitStore[Ben] /\ balances[Len(output)] = store[Ben]
            /\ \A k \in 1 .. Len(output) :
                 balances[k] = Effected(balances[k - 1], history[k - 1].value)
  /\ phase # "parallel" => \A w \in Workers : pc[w] = "done"

ValueInv ==
  /\ \A t \in Tx : TxValue(t) /\ TxTrace(t)
  /\ \A w \in Workers : WorkerValue(w) /\ WorkerTrace(w)
  /\ StoreInv

-----------------------------------------------------------------------------
(* Which errors the call returns                                           *)

\* When the EVM fails on the next transaction of the block for some values, it does so
\* on the state that transaction is to run on.
ErrorsAreReal ==
  LET t == Len(results \o output)
  IN  t \in Tx /\ (\E vals \in Readings : Evm(t, vals).op = "fatal") =>
        /\ NonceOk(t, store)
        /\ \E vals \in Readings : Run(t, store, vals) /\ Evm(t, vals).op = "fatal"

\* A fatal error is that of an execution, on the values it had read.
FatalInv ==
  abort_reason.kind = "FatalEvmError" =>
    /\ abort_reason.tx \in Tx
    /\ \E vals \in Readings : Evm(abort_reason.tx, vals).op = "fatal"

\* An error is met on the committed prefix, or is the recorded one.
CauseInv ==
  error # NoTx =>
    \/ error \in DbFail
    \/ /\ NonceOk(error, store)
       /\ \E vals \in Readings : Run(error, store, vals) /\ Evm(error, vals).op = "fatal"
    \/ abort_reason.kind = "FatalEvmError" /\ abort_reason.tx = error

=============================================================================
