--------------------------- MODULE SchedulerLemmas --------------------------
(***************************************************************************)
(* What the operators of the scheduler return and what its steps leave     *)
(* alone, for every block: the facts that several of the inductive proofs  *)
(* rest on.                                                                *)
(***************************************************************************)
EXTENDS SchedulerInvariants, Integers, TLAPS

-----------------------------------------------------------------------------
(* Greatest elements                                                       *)

\* The order of the positions in the block, counted from either end.
LEMMA PositionOrder ==
  /\ \A x, y \in Nat : (~(y < x) => x <= y) /\ (x <= y /\ y <= x => x = y)
  /\ \A x, y \in 0 .. N : N - x \in Nat /\ (N - y <= N - x => x <= y)
  /\ \A t \in Tx : t < N
BY BlockAssumption DEF Tx

\* The scan of the beneficiary's history has passed n transactions below t: the next writer it
\* looks at is a transaction of the block (Beneficiary::resolve_before).
LEMMA ScanPosition ==
  /\ \A s \in Seq(Links) : Len(s) \in Nat /\ (s = <<>> => Len(s) = 0)
  /\ \A t \in Tx : t # 0 => 0 < t
  /\ \A t \in Tx, n \in Nat : n < t => (t - n) - 1 \in Tx /\ (t - n) - 1 = t - (n + 1)
  /\ \A t \in Tx, n \in Nat : t - n \in Tx /\ t - n # 0 => n < t
<1>1. \A s \in Seq(Links) : Len(s) \in Nat /\ (s = <<>> => Len(s) = 0)
  OBVIOUS
<1>2. \A t \in Tx : t # 0 => 0 < t
  BY BlockAssumption DEF Tx
<1>3. \A t \in Tx, n \in Nat : n < t => (t - n) - 1 \in Tx /\ (t - n) - 1 = t - (n + 1)
  BY BlockAssumption DEF Tx
<1>4. \A t \in Tx, n \in Nat : t - n \in Tx /\ t - n # 0 => n < t
  BY BlockAssumption DEF Tx
<1> QED
  BY <1>1, <1>2, <1>3, <1>4

\* A set of transactions has a latest one.
LEMMA LatestExists ==
  ASSUME TypeInv, NEW S, S \subseteq Tx, S # {}
  PROVE  \E m \in S : \A x \in S : x <= m
<1>1. S \subseteq 0 .. N
  BY BlockAssumption DEF Tx
<1> QED
  BY ZenonT(60), <1>1 DEF TypeInv, PositionsOrdered

\* A set of positions in the block has a first one.
LEMMA EarliestExists ==
  ASSUME TypeInv, NEW S, S \subseteq 0 .. N, S # {}
  PROVE  \E m \in S : \A x \in S : m <= x
<1> DEFINE R == {N - x : x \in S}
<1>1. N \in Nat
  BY ZenonT(60), BlockAssumption
<1>2. R \subseteq 0 .. N /\ R # {}
  <2>1. \A x \in S : N - x \in 0 .. N
    BY <1>1
  <2>2. PICK x \in S : TRUE
    BY ZenonT(60)
  <2> QED
    BY ZenonT(60), <2>1, <2>2
<1>3. PICK r \in R : \A x \in R : x <= r
  BY ZenonT(60), <1>2 DEF TypeInv, PositionsOrdered
<1>4. PICK m \in S : r = N - m
  BY ZenonT(60), <1>3
<1>5. \A x \in S : N - x <= N - m
  BY ZenonT(60), <1>3, <1>4
<1> QED
  BY <1>1, <1>5

\* LatestWriter is the last of the preceding writers.
LEMMA LatestIs ==
  ASSUME NEW l, NEW t, NEW q \in Writers(l, t), \A i \in Writers(l, t) : i <= q
  PROVE  LatestWriter(l, t) = q
<1>1. Writers(l, t) # {} /\ Writers(l, t) \subseteq Nat
  BY DEF Writers, Tx
<1>2. \A i \in Writers(l, t) : (\A k \in Writers(l, t) : k <= i) => i = q
  BY <1>1
<1> QED
  BY ZenonT(60), <1>1, <1>2 DEF LatestWriter

\* The version a read resolves to is that of the latest writer before the reader (MVMemory).
LEMMA LatestWriterIs ==
  ASSUME TypeInv, NEW l, NEW t
  PROVE  IF Writers(l, t) = {} THEN LatestWriter(l, t) = NoTx
         ELSE /\ LatestWriter(l, t) \in Writers(l, t)
              /\ \A i \in Writers(l, t) : i <= LatestWriter(l, t)
<1>1. CASE Writers(l, t) # {}
  <2>1. Writers(l, t) \subseteq Tx
    BY ZenonT(60) DEF Writers
  <2>2. \E q \in Writers(l, t) : \A i \in Writers(l, t) : i <= q
    BY ZenonT(60), <1>1, <2>1, LatestExists
  <2>3. PICK q \in Writers(l, t) : \A i \in Writers(l, t) : i <= q
    BY ZenonT(60), <2>2
  <2>4. LatestWriter(l, t) = q
    BY ZenonT(60), <2>3, LatestIs
  <2> QED
    BY ZenonT(60), <1>1, <2>3, <2>4
<1> QED
  BY ZenonT(60), <1>1 DEF LatestWriter

-----------------------------------------------------------------------------
(* Values                                                                  *)

\* A checked credit stays within the range of a balance.
LEMMA CreditType ==
  ASSUME NEW v \in Val, NEW r \in Val
  PROVE  Credit(v, r) \in Val
BY BlockAssumption DEF Credit

\* The values of a read set are values an execution may have read.
LEMMA ValsType ==
  ASSUME NEW reads \in ReadSets
  PROVE  Vals(reads) \in Readings
<1>1. ReadLocs(reads) \in SUBSET Loc
  BY ZenonT(60) DEF ReadLocs
<1>2. Vals(reads) \in [ReadLocs(reads) -> Val]
  BY ZenonT(60), <1>1 DEF Vals, ReadSets
<1> QED
  BY ZenonT(60), <1>1, <1>2 DEF Readings

\* An execution that ends well changes locations of the state to values.
LEMMA ChangesType ==
  ASSUME NEW t \in Tx, NEW vals \in Readings, Evm(t, vals).op = "ok"
  PROVE  /\ Changes(t, vals) \in Readings
         /\ DeferredReward(t, vals) \in Val
<1>1. /\ Evm(t, vals).writes \in Readings
      /\ Evm(t, vals).reward \in Val
      /\ Ben \in DOMAIN Evm(t, vals).writes => Ben \in DOMAIN vals
  BY ZenonT(60), EvmAssumption DEF EvmStep
<1>2. Ben \in Loc /\ 0 \in Val
  BY BlockAssumption
<1>3. DeferredReward(t, vals) \in Val
  BY ZenonT(60), <1>1, <1>2 DEF DeferredReward
<1>4. ASSUME NEW f \in Readings, NEW v \in Val
      PROVE  With(f, Ben, v) \in Readings
  <2>1. PICK D \in SUBSET Loc : f \in [D -> Val]
    BY ZenonT(60) DEF Readings
  <2>2. DOMAIN f = D /\ D \cup {Ben} \in SUBSET Loc
    BY ZenonT(60), <1>2, <2>1
  <2>3. With(f, Ben, v) \in [D \cup {Ben} -> Val]
    BY ZenonT(60), <2>1, <2>2 DEF With
  <2> QED
    BY ZenonT(60), <2>2, <2>3 DEF Readings
<1>5. ASSUME NEW f \in Readings, NEW x \in DOMAIN f
      PROVE  f[x] \in Val
  BY ZenonT(60) DEF Readings
<1> DEFINE ben == IF Ben \in DOMAIN Evm(t, vals).writes
                  THEN Evm(t, vals).writes[Ben] ELSE vals[Ben]
<1>6. CASE Ben \in DOMAIN vals
  <2>1. ben \in Val
    BY ZenonT(60), <1>1, <1>5, <1>6
  <2>2. Credit(ben, Evm(t, vals).reward) \in Val
    BY ZenonT(60), <1>1, <2>1, CreditType
  <2>3. With(Evm(t, vals).writes, Ben, Credit(ben, Evm(t, vals).reward)) \in Readings
    BY ZenonT(60), <1>1, <1>4, <2>2
  <2> QED
    BY ZenonT(60), <1>1, <1>3, <2>3 DEF Changes
<1>7. CASE Ben \notin DOMAIN vals
  BY ZenonT(60), <1>1, <1>3, <1>7 DEF Changes
<1> QED
  BY ZenonT(60), <1>6, <1>7

\* The published locations are locations of the state.
LEMMA PublishedType ==
  ASSUME NEW t \in Tx, NEW vals \in Readings, Evm(t, vals).op = "ok"
  PROVE  /\ Published(t, vals) \in SUBSET Loc
         /\ \A l \in Published(t, vals) : Changes(t, vals)[l] \in Val
<1>1. Changes(t, vals) \in Readings
  BY ZenonT(60), ChangesType
<1> QED
  BY <1>1 DEF Published, Readings

\* The origins of a scan are versions of the entries it met.
LEMMA OriginsType ==
  ASSUME NEW chain \in Seq(Links)
  PROVE  Origins(chain) \in Seq(Origin)
<1>1. \A i \in 1 .. Len(chain) : <<chain[i].tx, chain[i].incarnation>> \in Origin
  <2>1. \A i \in 1 .. Len(chain) : chain[i] \in Links
    OBVIOUS
  <2> QED
    BY ZenonT(60), <2>1 DEF Links, Origin
<1>2. DOMAIN chain = 1 .. Len(chain) /\ Len(chain) \in Nat
  OBVIOUS
<1>3. Origins(chain) \in [1 .. Len(chain) -> Origin]
  BY ZenonT(60), <1>1, <1>2 DEF Origins
<1> QED
  BY SMTT(60), <1>2, <1>3

-----------------------------------------------------------------------------
(* What a step of a worker leaves alone                                    *)

USE DEF ctxVars, depVars, specVars, txVars, blockVars, workerVars, finalityVars

\* Where a worker's jump leads; the other workers stay.
LEMMA GotoAt ==
  ASSUME TypeInv, NEW w \in Workers, NEW label, NEW j, Goto(w, label, j)
  PROVE  /\ pc'[w] = label
         /\ job'[w] = j
         /\ \A v \in Workers \ {w} : pc'[v] = pc[v] /\ job'[v] = job[v]
BY ZenonT(60) DEF Goto, TypeInv, TypeOK, ThreadTypeOK

\* What a step of a worker leaves in its own place.
LEMMA GotoIs ==
  ASSUME TypeInv, NEW w \in Workers, NEW label, NEW j, Goto(w, label, j)
  PROVE  pc'[w] = label /\ job'[w] = j
BY ZenonT(60) DEF Goto, TypeInv, TypeOK, ThreadTypeOK

\* A transaction whose lock is free, and which nobody executes or validates,
\* has no owner.
LEMMA NoOwner ==
  ASSUME OwnInv, NEW t \in Tx, Free(t), status[t] \notin {"Executing", "Validating"},
         NEW v \in Workers, pc[v] \in BusyLabels
  PROVE  job[v].tx # t
<1>1. WorkerOwn(v)
  BY ZenonT(60) DEF OwnInv
<1> QED
  BY ZenonT(60), <1>1, ThreadAssumption DEF WorkerOwn, Free, LockedLabels, BusyLabels, TaskLabels,
     ExecuteLabels, FinishLabels

\* A write to the memory concerns one transaction.
LEMMA WriteAt ==
  ASSUME MemoryTypeOK, NEW l, NEW t \in Tx, NEW x \in Tx \ {t}, NEW k \in Loc,
         \/ \E entry : SetEntry(l, t, entry)
         \/ MarkEstimate(l, t)
  PROVE  mv_memory'[k][x] = mv_memory[k][x]
BY SMTT(60) DEF MemoryTypeOK, SetEntry, MarkEstimate

\* A worker in the middle of a task owns a transaction that is not final.
LEMMA BusyNotFinal ==
  ASSUME TypeInv, OwnInv, NEW w \in Workers, pc[w] \in BusyLabels
  PROVE  job[w].tx \in Tx /\ status[job[w].tx] # "Finality"
<1>1. WorkerOwn(w)
  BY ZenonT(60) DEF OwnInv
<1>2. job[w].tx \in Tx
  BY ZenonT(60) DEF TypeInv, BusyInv, BusyLabels, TaskLabels, ExecuteLabels, RunLabels,
     RecordedLabels, FinishLabels, ValidateLabels, IdleLabels
<1> QED
  BY ZenonT(60), <1>1, <1>2 DEF WorkerOwn, BusyLabels, TaskLabels

\* A worker that runs an execution holds the lock.
LEMMA RunOwned ==
  ASSUME TypeInv, OwnInv, NEW w \in Workers,
         pc[w] \in {"run", "backing", "depend", "key", "executed"}
  PROVE  /\ job[w].tx \in Tx /\ holder[job[w].tx] = w /\ w # NoOne
         /\ status[job[w].tx] = "Executing"
         /\ job[w].incarnation = incarnation[job[w].tx]
<1>1. /\ pc[w] \in ExecuteLabels /\ pc[w] \in LockedLabels /\ pc[w] \in TaskLabels
      /\ pc[w] \in BusyLabels
  BY ZenonT(60) DEF LockedLabels, BusyLabels, TaskLabels, ExecuteLabels, RunLabels, RecordedLabels
<1>2. WorkerOwn(w) /\ job[w].tx \in Tx
  BY ZenonT(60), <1>1, BusyNotFinal DEF OwnInv
<1> QED
  BY ZenonT(60), <1>1, <1>2, ThreadAssumption DEF WorkerOwn

\* An abort for another reason than an inconsistency.
LEMMA AbortOwn ==
  ASSUME NoParallelError, NEW reason, reason.kind # "ParallelError", Abort(reason)
  PROVE  NoParallelError'
BY ZenonT(60) DEF NoParallelError, Abort

\* Nothing of transaction x changes.
SameAt(x) ==
  /\ status'[x] = status[x]
  /\ holder'[x] = holder[x]
  /\ history'[x] = history[x]
  /\ tx_results'[x] = tx_results[x]
  /\ \A l \in Loc : mv_memory'[l][x] = mv_memory[l][x]

\* What a step leaves of transaction x when x is final.
Kept(x) ==
  /\ status'[x] = status[x]
  /\ incarnation'[x] = incarnation[x]
  /\ history'[x] = history[x]
  /\ \A l \in Loc : mv_memory'[l][x] = mv_memory[l][x]

SameWorker(v) == pc'[v] = pc[v] /\ job'[v] = job[v]

\* execute_task and validate are about the transaction they own; the other workers
\* and the other transactions stay as they are.
LEMMA OwnerFrame ==
  ASSUME TypeInv, OwnInv, NEW w \in Workers, ExecuteStep(w) \/ ValidateStep(w)
  PROVE  /\ pc[w] \in BusyLabels /\ job[w].tx \in Tx
         /\ \A v \in Workers \ {w} : SameWorker(v)
         /\ \A v \in Workers \ {w} : pc[v] \in BusyLabels => job[v].tx # job[w].tx
         /\ \A x \in Tx \ {job[w].tx} : SameAt(x)
         /\ UNCHANGED <<finality, committed, finality_pc, commit_pc, phase, lower_ts>>
<1>p. pc[w] \in BusyLabels
  BY ZenonT(60) DEF ExecuteStep, BeginExecution, ReadMemory, ReadBacking, ReadBeneficiary,
     PublishWrite, PruneWrite, RecordExecution, MarkFailedWrite, RecordFailure, Failed,
     Depend, HoldKeyTx, FinishExecution, StampExecution, RewindExecution, ValidateStep,
     BeginValidation, ScanMemory, ScanBeneficiary, Confirm, MarkConflictWrite,
     InvalidateHistory, StampConflict, RewindConflict, AddConflict, BusyLabels, TaskLabels,
     ExecuteLabels, RunLabels, RecordedLabels, FinishLabels, ValidateLabels
<1>t. PICK t \in Tx : t = job[w].tx
  BY ZenonT(60), <1>p, BusyNotFinal
<1>y. /\ status \in [Tx -> Statuses] /\ MemoryTypeOK
      /\ holder \in [Tx -> Workers \cup {NoOne}]
      /\ tx_results \in [Tx -> TxResults]
      /\ history \in [Tx -> [incarnation : Nat, value : Effects]]
  BY ZenonT(60) DEF TypeInv, TypeOK, TxTypeOK, HistoryTypeOK
<1>v. \A v \in Workers \ {w} : pc[v] \in BusyLabels => job[v].tx # t
  BY ZenonT(60), <1>p, <1>t DEF OwnInv
<1>g. (\E label, j : Goto(w, label, j)) => \A v \in Workers \ {w} : SameWorker(v)
  BY ZenonT(60), GotoAt DEF SameWorker
<1>h. UNCHANGED holder \/ Lock(t, w) \/ Unlock(t) => \A x \in Tx \ {t} : holder'[x] = holder[x]
  BY ZenonT(60), <1>y DEF Lock, Unlock
<1>s. UNCHANGED status \/ (\E s : SetStatus(t, s)) => \A x \in Tx \ {t} : status'[x] = status[x]
  BY ZenonT(60), <1>y DEF SetStatus
<1> DEFINE quiet == UNCHANGED <<finality, committed, finality_pc, commit_pc, phase, lower_ts>>
           moved == \E label, j : Goto(w, label, j)
<1>1. CASE PublishWrite(w) \/ PruneWrite(w) \/ MarkFailedWrite(w) \/ MarkConflictWrite(w)
  <2>1. quiet /\ UNCHANGED <<status, holder, history, tx_results>>
    BY ZenonT(60), <1>1 DEF PublishWrite, PruneWrite, MarkFailedWrite, MarkConflictWrite
  <2>2. moved
    BY ZenonT(60), <1>1 DEF PublishWrite, PruneWrite, MarkFailedWrite, MarkConflictWrite, MarkDone
  <2>3. PICK l : (\E entry : SetEntry(l, t, entry)) \/ MarkEstimate(l, t)
    BY ZenonT(60), <1>1, <1>t DEF PublishWrite, PruneWrite, MarkFailedWrite, MarkConflictWrite,
       PublishValue, RemoveValue
  <2>4. \A x \in Tx \ {t} : \A k \in Loc : mv_memory'[k][x] = mv_memory[k][x]
    <3>1. ASSUME NEW x \in Tx \ {t}, NEW k \in Loc PROVE mv_memory'[k][x] = mv_memory[k][x]
      BY ZenonT(60), <1>y, <2>3, <3>1, WriteAt
    <3> QED
      BY ZenonT(60), <3>1
  <2> QED
    BY ZenonT(60), <1>p, <1>t, <1>v, <1>g, <2>1, <2>2, <2>4 DEF SameAt
<1>2. CASE RecordExecution(w) \/ RecordFailure(w) \/ InvalidateHistory(w)
  <2>1. quiet /\ UNCHANGED <<status, mv_memory>> /\ (UNCHANGED holder \/ Unlock(t))
    BY ZenonT(60), <1>2, <1>t DEF RecordExecution, RecordFailure, InvalidateHistory
  <2>2. moved
    BY ZenonT(60), <1>2 DEF RecordExecution, RecordFailure, InvalidateHistory, GiveUp
  <2>3. \A x \in Tx \ {t} : tx_results'[x] = tx_results[x]
    BY ZenonT(60), <1>2, <1>t, <1>y DEF RecordExecution, RecordFailure, InvalidateHistory
  <2>4. \A x \in Tx \ {t} : history'[x] = history[x]
    BY ZenonT(60), <1>2, <1>t, <1>y DEF RecordExecution, RecordFailure, InvalidateHistory,
       RecordEntry, InvalidateEntry
  <2> QED
    BY ZenonT(60), <1>p, <1>t, <1>v, <1>g, <1>h, <2>1, <2>2, <2>3, <2>4 DEF SameAt
<1>3. CASE FinishExecution(w) \/ Confirm(w) \/ AddConflict(w)
  <2>1. /\ quiet /\ UNCHANGED <<history, mv_memory, tx_results>>
        /\ UNCHANGED holder \/ Unlock(t)
        /\ \E s : SetStatus(t, s)
    BY ZenonT(60), <1>3, <1>t DEF FinishExecution, Confirm, AddConflict
  <2>2. moved
    BY ZenonT(60), <1>3 DEF FinishExecution, Confirm, AddConflict
  <2> QED
    BY ZenonT(60), <1>p, <1>t, <1>v, <1>g, <1>h, <1>s, <2>1, <2>2 DEF SameAt
<1>4. CASE BeginExecution(w) \/ BeginValidation(w) \/ RewindExecution(w)
  <2>1. /\ quiet /\ UNCHANGED <<status, history, mv_memory, tx_results>>
        /\ UNCHANGED holder \/ Lock(t, w) \/ Unlock(t)
    BY ZenonT(60), <1>4, <1>t DEF BeginExecution, BeginValidation, RewindExecution
  <2>2. moved
    BY ZenonT(60), <1>4 DEF BeginExecution, BeginValidation, RewindExecution, GiveUp, Scanned
  <2> QED
    BY ZenonT(60), <1>p, <1>t, <1>v, <1>g, <1>h, <2>1, <2>2 DEF SameAt
<1>5. CASE \/ ReadMemory(w) \/ ReadBacking(w) \/ ReadBeneficiary(w) \/ Depend(w) \/ HoldKeyTx(w)
           \/ StampExecution(w) \/ ScanMemory(w) \/ ScanBeneficiary(w) \/ StampConflict(w)
           \/ RewindConflict(w)
  <2>1. quiet /\ UNCHANGED <<status, holder, history, mv_memory, tx_results>>
    BY ZenonT(60), <1>5 DEF ReadMemory, ReadBacking, ReadBeneficiary, Depend, HoldKeyTx,
       StampExecution, ScanMemory, ScanBeneficiary, StampConflict, RewindConflict
  <2>2. moved
    BY ZenonT(60), <1>5 DEF ReadMemory, ReadBacking, ReadBeneficiary, Depend, HoldKeyTx,
       StampExecution, ScanMemory, ScanBeneficiary, StampConflict, RewindConflict, Scanned
  <2> QED
    BY ZenonT(60), <1>p, <1>t, <1>v, <1>g, <2>1, <2>2 DEF SameAt
<1> QED
  BY ZenonT(60), <1>1, <1>2, <1>3, <1>4, <1>5 DEF ExecuteStep, ValidateStep

\* The EVM's next step and the write set depend on the worker's job alone.
LEMMA SameStep ==
  ASSUME NEW v \in Workers, job'[v].tx = job[v].tx, job'[v].reads = job[v].reads
  PROVE  Step(v)' = Step(v) /\ WriteSet(v)' = WriteSet(v)
BY ZenonT(60) DEF Step, WriteSet

-----------------------------------------------------------------------------
(* What it changes                                                         *)

\* A write to the memory concerns one location.
LEMMA SetEntryAt ==
  ASSUME MemoryTypeOK, NEW l \in Loc, NEW t \in Tx, NEW entry, SetEntry(l, t, entry)
  PROVE  /\ mv_memory'[l][t] = entry
         /\ \A k \in Loc \ {l} : mv_memory'[k][t] = mv_memory[k][t]
BY ZenonT(60) DEF MemoryTypeOK, SetEntry

\* A write to one location leaves a transaction's entries elsewhere alone (MVMemory).
LEMMA EntryElsewhere ==
  ASSUME MemoryTypeOK, NEW l \in Loc, NEW t \in Tx, NEW k \in Loc \ {l},
         (\E entry : SetEntry(l, t, entry)) \/ MarkEstimate(l, t)
  PROVE  mv_memory'[k][t] = mv_memory[k][t]
<1>1. PICK entry : mv_memory' = [mv_memory EXCEPT ![l][t] = entry]
  BY ZenonT(60) DEF MarkEstimate, SetEntry
<1> QED
  BY ZenonT(60), <1>1 DEF MemoryTypeOK

\* An estimate keeps its version.
LEMMA MarkEstimateAt ==
  ASSUME MemoryTypeOK, NEW l \in Loc, NEW t \in Tx, MarkEstimate(l, t)
  PROVE  /\ mv_memory'[l][t].incarnation = mv_memory[l][t].incarnation
         /\ mv_memory'[l][t].data = mv_memory[l][t].data
         /\ mv_memory[l][t].incarnation # 0 => mv_memory'[l][t].estimate
         /\ \A k \in Loc \ {l} : mv_memory'[k][t] = mv_memory[k][t]
<1>1. mv_memory \in [Loc -> [Tx -> Entries]] /\ mv_memory[l][t] \in Entries
  BY ZenonT(60) DEF MemoryTypeOK
<1>2. mv_memory'[l][t] = IF mv_memory[l][t].incarnation = 0 THEN mv_memory[l][t]
                         ELSE [mv_memory[l][t] EXCEPT !.estimate = TRUE]
  BY ZenonT(60), <1>1 DEF MarkEstimate
<1>3. \A k \in Loc \ {l} : mv_memory'[k][t] = mv_memory[k][t]
  BY ZenonT(60), <1>1 DEF MarkEstimate
<1> QED
  BY ZenonT(60), <1>1, <1>2, <1>3 DEF Entries

\* The record is accepted: the history has no entry of this incarnation yet.
LEMMA RecordAccepted ==
  ASSUME TypeInv, OwnInv, NEW w \in Workers, pc[w] = "run"
  PROVE  Recordable(job[w].tx, job[w].incarnation)
<1>1. pc[w] \in BusyLabels /\ pc[w] \in RunLabels /\ pc[w] \in TaskLabels
  BY ZenonT(60) DEF BusyLabels, TaskLabels, ExecuteLabels, RunLabels
<1>2. WorkerOwn(w) /\ job[w].tx \in Tx
  BY ZenonT(60), <1>1, BusyNotFinal DEF OwnInv
<1>3. history[job[w].tx].incarnation < job[w].incarnation
  BY ZenonT(60), <1>1, <1>2 DEF WorkerOwn
<1> QED
  BY ZenonT(60), <1>3 DEF Recordable

\* The invalidation is accepted: the history holds the effect of this incarnation.
LEMMA InvalidateAccepted ==
  ASSUME TypeInv, OwnInv, NEW w \in Workers, InvalidateHistory(w)
  PROVE  Invalidatable(job[w].tx, job[w].incarnation)
<1>1. pc[w] \in ValidateLabels /\ pc[w] \in TaskLabels /\ pc[w] \in BusyLabels
  BY ZenonT(60) DEF InvalidateHistory, BusyLabels, TaskLabels, ValidateLabels
<1>2. WorkerOwn(w) /\ job[w].tx \in Tx
  BY ZenonT(60), <1>1, BusyNotFinal DEF OwnInv
<1>3. TxOwn(job[w].tx)
  BY ZenonT(60), <1>2 DEF OwnInv
<1> QED
  BY ZenonT(60), <1>1, <1>2, <1>3 DEF WorkerOwn, TxOwn, Invalidatable

\* Every way on from a checked read, to the next one or to the verdict.
LEMMA ScannedAt ==
  ASSUME TypeInv, NEW w \in Workers, NEW j, {"tx", "ts", "done"} \subseteq DOMAIN j, Scanned(w, j)
  PROVE  /\ pc'[w] \in {"scan", "estimate", "confirm"}
         /\ job'[w].tx = j.tx /\ job'[w].ts = j.ts
         /\ pc'[w] = "scan" => job'[w] = j /\ Goto(w, "scan", j)
         /\ pc'[w] # "scan" => job'[w].done = {} /\ ReadLocs(ReadSet(w)) \subseteq j.done
         /\ pc'[w] = "confirm" => ~j.conflict
<1> DEFINE k == [j EXCEPT !.done = {}]
<1>1. k.tx = j.tx /\ k.ts = j.ts /\ k.done = {}
  BY ZenonT(60)
<1>2. \/ Goto(w, "estimate", k) /\ ReadLocs(ReadSet(w)) \subseteq j.done
      \/ Goto(w, "confirm", k) /\ ReadLocs(ReadSet(w)) \subseteq j.done /\ ~j.conflict
      \/ Goto(w, "scan", j)
  BY ZenonT(60) DEF Scanned
<1> HIDE DEF k
<1> QED
  BY SMTT(60), <1>1, <1>2, GotoAt

-----------------------------------------------------------------------------
(* What the coordinators leave alone                                       *)

\* What the finality thread changes of the transactions: the candidate becomes final.
LEMMA FinalityFrame ==
  ASSUME TypeInv, OwnInv, FinalityStep
  PROVE  /\ UNCHANGED <<pc, job, mv_memory, history, tx_results, holder, logical_clock,
                        lower_timestamps, unconfirmed_timestamps>>
         /\ \A x \in Tx : status'[x] # status[x] =>
              /\ status[x] = "Unconfirmed" /\ holder[x] = NoOne /\ status'[x] = "Finality"
              /\ x = finality /\ finality_pc = "lock"
              /\ unconfirmed_timestamps[x] > Max(lower_ts, lower_timestamps[x])
<1>y. status \in [Tx -> Statuses]
  BY ZenonT(60) DEF TypeInv, TypeOK, TxTypeOK
<1>1. CASE FinalityCheck \/ FinalityPublish
  BY ZenonT(60), <1>1 DEF FinalityCheck, FinalityPublish
<1>2. CASE FinalityLock
  <2>1. UNCHANGED <<pc, job, mv_memory, history, tx_results, holder, logical_clock,
                    lower_timestamps, unconfirmed_timestamps>>
    BY ZenonT(60), <1>2 DEF FinalityLock
  <2>2. \/ UNCHANGED status
        \/ /\ status[finality] = "Unconfirmed" /\ holder[finality] = NoOne
           /\ SetStatus(finality, "Finality") /\ finality_pc = "lock"
           /\ unconfirmed_timestamps[finality] > Max(lower_ts, lower_timestamps[finality])
    BY ZenonT(60), <1>2 DEF FinalityLock, Free
  <2> QED
    BY ZenonT(60), <1>y, <2>1, <2>2 DEF SetStatus
<1> QED
  BY ZenonT(60), <1>1, <1>2 DEF FinalityStep

\* What the commit thread changes of the transactions: it takes the result of a final one.
LEMMA CommitFrame ==
  ASSUME TypeInv, OwnInv, CommitStep
  PROVE  /\ UNCHANGED <<pc, job, mv_memory, history, status, holder, logical_clock,
                        lower_timestamps, unconfirmed_timestamps, finality, finality_pc, lower_ts>>
         /\ \A x \in Tx : tx_results'[x] # tx_results[x] =>
              status[x] = "Finality" /\ tx_results'[x] = NoResult
<1>y. /\ tx_results \in [Tx -> TxResults]
      /\ \A x \in Tx : TxOwn(x)
  BY ZenonT(60) DEF TypeInv, TypeOK, TxTypeOK, OwnInv
<1>1. CASE CommitCheck \/ PublishCommit \/ ReleaseSuccessor
  BY ZenonT(60), <1>1 DEF CommitCheck, PublishCommit, ReleaseSuccessor
<1>2. CASE CommitTx
  <2>1. /\ UNCHANGED <<pc, job, mv_memory, history, status, holder, logical_clock,
                       lower_timestamps, unconfirmed_timestamps, finality, finality_pc, lower_ts>>
        /\ committed < finality
        /\ tx_results' = [tx_results EXCEPT ![committed] = NoResult]
    BY ZenonT(60), <1>2 DEF CommitTx
  <2> QED
    BY ZenonT(60), <1>y, <2>1 DEF TxOwn
<1> QED
  BY ZenonT(60), <1>1, <1>2 DEF CommitStep

\* Only execution_task counts incarnations.
LEMMA OwnerIncarnation ==
  ASSUME NEW w \in Workers, ExecuteStep(w) \/ ValidateStep(w)
  PROVE  UNCHANGED <<incarnation, store, output, results, error>>
BY ZenonT(60) DEF ExecuteStep, BeginExecution, ReadMemory, ReadBacking, ReadBeneficiary,
   PublishWrite, PruneWrite, RecordExecution, MarkFailedWrite, RecordFailure,
   Depend, HoldKeyTx, FinishExecution, StampExecution, RewindExecution, ValidateStep,
   BeginValidation, ScanMemory, ScanBeneficiary, Confirm, MarkConflictWrite,
   InvalidateHistory, StampConflict, RewindConflict, AddConflict

\* A step of the execution of t in progress that is done with location l.
WritesAt(w, t, l) ==
  /\ t = job[w].tx /\ holder[t] = w /\ w # NoOne /\ status[t] = "Executing"
  /\ job[w].incarnation = incarnation[t] /\ pc[w] = "run" /\ pc'[w] = "run"
  /\ UNCHANGED <<status, holder, history, tx_results, incarnation, store, output>>
  /\ job'[w].tx = t /\ job'[w].reads = job[w].reads /\ job'[w].chain = job[w].chain
  /\ job'[w].done = job[w].done \cup {l} /\ l \notin job[w].done
  /\ \A k \in Loc \ {l} : mv_memory'[k][t] = mv_memory[k][t]
  /\ mv_memory'[l][t].incarnation \in {mv_memory[l][t].incarnation, incarnation[t], 0}
  /\ Step(w).op = "ok" /\ l \in WriteSet(w) =>
       mv_memory'[l][t].data = Changes(t, Vals(job[w].reads))[l]

\* Publishing, pruning and marking are such steps.
LEMMA RunWriteAt ==
  ASSUME TypeInv, OwnInv, NEW w \in Workers,
         PublishWrite(w) \/ PruneWrite(w) \/ MarkFailedWrite(w)
  PROVE  \E t \in Tx, l \in Loc : WritesAt(w, t, l)
<1>p. pc[w] = "run"
  BY ZenonT(60) DEF PublishWrite, PruneWrite, MarkFailedWrite
<1>t. PICK t \in Tx : /\ t = job[w].tx /\ holder[t] = w /\ w # NoOne /\ status[t] = "Executing"
                      /\ job[w].incarnation = incarnation[t]
  BY ZenonT(60), <1>p, RunOwned
<1>y. job[w] \in Jobs /\ MemoryTypeOK /\ tx_results \in [Tx -> TxResults]
  BY ZenonT(60) DEF TypeInv, TypeOK, ThreadTypeOK, TxTypeOK
<1>u. UNCHANGED <<status, holder, history, tx_results, incarnation, store, output>>
  BY ZenonT(60) DEF PublishWrite, PruneWrite, MarkFailedWrite
<1> DEFINE change == Changes(t, Vals(job[w].reads))
<1>l. PICK l \in Loc :
        /\ MarkDone(w, l) /\ l \notin job[w].done
        /\ \/ \E e : PublishValue(l, t, job[w].incarnation, change[l], e)
           \/ Step(w).op = "ok" /\ l \notin WriteSet(w) /\ RemoveValue(l, t)
           \/ Step(w).op # "ok" /\ MarkEstimate(l, t)
  <2>1. tx_results[t].write_set \subseteq Loc
    BY ZenonT(60), <1>y DEF TxResults
  <2>2. Step(w).op = "ok" => WriteSet(w) \subseteq Loc
    <3>1. Vals(job[w].reads) \in Readings
      BY ZenonT(60), <1>y, ValsType DEF Jobs
    <3> QED
      BY ZenonT(60), <1>t, <3>1, PublishedType DEF Step, WriteSet
  <2>3. CASE PublishWrite(w)
    BY ZenonT(60), <1>t, <2>2, <2>3 DEF PublishWrite
  <2>4. CASE PruneWrite(w)
    BY ZenonT(60), <1>t, <2>1, <2>4 DEF PruneWrite, StaleSet
  <2>5. CASE MarkFailedWrite(w)
    <3>1. Failed(w) => Step(w).op # "ok"
      BY ZenonT(60) DEF Failed
    <3> QED
      BY ZenonT(60), <1>t, <2>1, <2>5, <3>1 DEF MarkFailedWrite
  <2> QED
    BY ZenonT(60), <2>3, <2>4, <2>5
<1>j. /\ pc'[w] = "run" /\ job'[w].tx = t /\ job'[w].reads = job[w].reads
      /\ job'[w].done = job[w].done \cup {l} /\ job'[w].chain = job[w].chain
  <2>1. PICK j : j = [job[w] EXCEPT !.done = job[w].done \cup {l}]
    BY ZenonT(60)
  <2>2. Goto(w, "run", j)
    BY ZenonT(60), <1>l, <1>p, <2>1 DEF MarkDone
  <2>3. pc'[w] = "run" /\ job'[w] = j
    BY ZenonT(60), <2>2, GotoIs
  <2> QED
    BY ZenonT(60), <1>t, <1>y, <2>1, <2>3 DEF Jobs
<1>k. \A k \in Loc \ {l} : mv_memory'[k][t] = mv_memory[k][t]
  <2>1. (\E entry : SetEntry(l, t, entry)) \/ MarkEstimate(l, t)
    BY ZenonT(60), <1>l DEF PublishValue, RemoveValue
  <2> QED
    BY ZenonT(60), <1>y, <2>1, SetEntryAt, MarkEstimateAt
<1>e. /\ mv_memory'[l][t].incarnation \in {mv_memory[l][t].incarnation, incarnation[t], 0}
      /\ Step(w).op = "ok" /\ l \in WriteSet(w) => mv_memory'[l][t].data = change[l]
  <2>1. CASE \E e : PublishValue(l, t, job[w].incarnation, change[l], e)
    <3>0. PICK e : PublishValue(l, t, job[w].incarnation, change[l], e)
      BY ZenonT(60), <2>1
    <3>v. PICK value : value = change[l]
      BY ZenonT(60)
    <3>1. PICK entry : /\ SetEntry(l, t, entry)
                       /\ entry.incarnation = job[w].incarnation /\ entry.data = value
      BY <3>0, <3>v DEF PublishValue
    <3>2. mv_memory'[l][t] = entry
      BY ZenonT(60), <1>y, <3>1, SetEntryAt
    <3> QED
      BY ZenonT(60), <1>t, <3>1, <3>2, <3>v
  <2>2. CASE RemoveValue(l, t) /\ l \notin WriteSet(w)
    <3>1. mv_memory'[l][t] = Absent
      BY ZenonT(60), <1>y, <2>2, SetEntryAt DEF RemoveValue
    <3>2. Absent.incarnation = 0
      BY ZenonT(60) DEF Absent
    <3> QED
      BY ZenonT(60), <2>2, <3>1, <3>2
  <2>3. CASE MarkEstimate(l, t) /\ Step(w).op # "ok"
    BY ZenonT(60), <1>y, <2>3, MarkEstimateAt
  <2> QED
    BY ZenonT(60), <1>l, <2>1, <2>2, <2>3
<1> HIDE DEF change
<1> QED
  BY ZenonT(60), <1>e, <1>j, <1>k, <1>l, <1>p, <1>t, <1>u DEF change, WritesAt
=============================================================================
