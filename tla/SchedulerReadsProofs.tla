------------------------ MODULE SchedulerReadsProofs ------------------------
(***************************************************************************)
(* What a final transaction has read is what it would read again: no       *)
(* rewind is missed between its validation and its finality.  And a        *)
(* transaction that runs alone on a state reads the same values every      *)
(* time.  For every block, any number of workers and every EVM.            *)
(***************************************************************************)
EXTENDS SchedulerLemmas

USE DEF ctxVars, depVars, specVars, txVars, blockVars, workerVars, finalityVars

-----------------------------------------------------------------------------
(* A read stays current while only estimates are replaced                  *)

\* The versions a read came from are those a reader would meet again, when nothing but
\* an estimate has changed below the reader.
LEMMA MemoryStays ==
  ASSUME TypeInv, NEW l \in Loc, NEW x \in Tx, NEW origins, MemoryCurrent(l, x, origins),
         \A i \in Tx : i < x => \/ mv_memory'[l][i] = mv_memory[l][i]
                                \/ Written(l, i) /\ mv_memory[l][i].estimate
  PROVE  MemoryCurrent(l, x, origins)'
<1>n. NoTx \notin Tx
  BY BlockAssumption DEF Tx
<1>1. CASE Writers(l, x) = {}
  <2>1. \A i \in Tx : i < x => ~Written(l, i)
    BY ZenonT(60), <1>1 DEF Writers, Written
  <2>2. \A i \in Tx : i < x => mv_memory'[l][i] = mv_memory[l][i]
    BY ZenonT(60), <2>1
  <2>3. Writers(l, x)' = {}
    BY ZenonT(60), <2>1, <2>2 DEF Writers, Written
  <2> QED
    BY ZenonT(60), <1>1, <2>3 DEF MemoryCurrent, LatestWriter
<1>2. CASE Writers(l, x) # {}
  <2>1. PICK q \in Writers(l, x) : q = LatestWriter(l, x) /\ \A i \in Writers(l, x) : i <= q
    BY ZenonT(60), <1>2, LatestWriterIs
  <2>2. q \in Tx /\ q < x /\ q # NoTx
    BY ZenonT(60), <1>n, <2>1 DEF Writers
  <2>3. ~mv_memory[l][q].estimate /\ origins = <<<<q, mv_memory[l][q].incarnation>>>>
    BY ZenonT(60), <2>1, <2>2 DEF MemoryCurrent
  <2>4. mv_memory'[l][q] = mv_memory[l][q]
    BY ZenonT(60), <2>2, <2>3
  <2>5. q \in Writers(l, x)'
    BY ZenonT(60), <2>1, <2>4 DEF Writers
  <2>6. \A i \in Writers(l, x)' : i \in Writers(l, x)
    BY ZenonT(60) DEF Writers, Written
  <2>7. LatestWriter(l, x)' = q
    <3>1. \A i \in Writers(l, x)' : i <= q
      BY ZenonT(60), <2>1, <2>6
    <3>2. Writers(l, x)' # {} /\ Writers(l, x)' \subseteq Nat
      BY <2>5 DEF Writers, Tx
    <3>3. \A i \in Writers(l, x)' : (\A k \in Writers(l, x)' : k <= i) => i = q
      BY <2>5, <3>1, <3>2
    <3> QED
      BY ZenonT(60), <2>5, <3>1, <3>2, <3>3 DEF LatestWriter
  <2> QED
    BY ZenonT(60), <2>2, <2>3, <2>4, <2>7 DEF MemoryCurrent
<1> QED
  BY ZenonT(60), <1>1, <1>2

\* A read of the beneficiary stays current while only estimates before it are replaced.
LEMMA HistoryStays ==
  ASSUME NEW x \in Tx, NEW origins \in Seq(Origin), BeneficiaryCurrent(x, origins),
         \A i \in Tx : i < x => history'[i] = history[i] \/ history[i].value = Estimate
  PROVE  BeneficiaryCurrent(x, origins)'
<1> DEFINE n == Len(origins)
<1>1. n \in Nat /\ x \in Nat
  BY DEF Tx
<1>2. ASSUME NEW i \in 1 .. n
      PROVE  x - i \in Tx /\ x - i < x /\ history'[x - i] = history[x - i]
  <2>1. origins[i] \in Origin /\ origins[i] = <<x - i, history[x - i].incarnation>>
    BY DEF BeneficiaryCurrent
  <2>2. x - i \in Tx
    BY <2>1 DEF Origin
  <2>3. history[x - i].value # Estimate
    BY ZenonT(60) DEF BeneficiaryCurrent
  <2>4. x - i < x
    BY <1>1
  <2> QED
    BY ZenonT(60), <2>2, <2>3, <2>4
<1>3. n > 0 => n \in 1 .. n
  BY <1>1
<1>4. n = x \/ (n > 0 /\ history'[x - n].value.kind = "Snapshot")
  BY ZenonT(60), <1>2, <1>3 DEF BeneficiaryCurrent
<1>5. ASSUME NEW i \in 1 .. n
      PROVE  /\ origins[i] = <<x - i, history'[x - i].incarnation>>
             /\ history'[x - i].value # Estimate
             /\ i < n => history'[x - i].value.kind # "Snapshot"
  BY ZenonT(60), <1>2 DEF BeneficiaryCurrent
<1> QED
  BY ZenonT(60), <1>4, <1>5 DEF BeneficiaryCurrent

-----------------------------------------------------------------------------
(* The clock and the rewinds                                               *)

\* rewind_validation_to stamps its target with a new time; no stamp is taken back.
LEMMA StampAt ==
  ASSUME TypeInv, NEW i \in Nat, StampRewind(i)
  PROVE  /\ logical_clock' \in Nat /\ logical_clock' >= logical_clock
         /\ lower_timestamps' \in [Tx -> Nat]
         /\ \A x \in Tx : lower_timestamps'[x] >= lower_timestamps[x]
         /\ \A x \in Tx \ {i} : lower_timestamps'[x] = lower_timestamps[x]
         /\ i < N => i \in Tx /\ lower_timestamps'[i] >= logical_clock
         /\ (\A x \in Tx : lower_timestamps[x] < logical_clock) =>
              \A x \in Tx : lower_timestamps'[x] < logical_clock'
<1>y. /\ logical_clock \in Nat /\ lower_timestamps \in [Tx -> Nat] /\ N \in Nat
      /\ Tx = 0 .. N - 1
  BY ZenonT(60), BlockAssumption DEF TypeInv, TypeOK, CtxTypeOK, Tx
<1>1. CASE i < N
  <2>1. /\ logical_clock' = logical_clock + 1 /\ i \in Tx
        /\ lower_timestamps' = [lower_timestamps EXCEPT ![i] = Max(lower_timestamps[i], logical_clock)]
    BY <1>1, <1>y DEF StampRewind
  <2>2. /\ Max(lower_timestamps[i], logical_clock) \in Nat
        /\ Max(lower_timestamps[i], logical_clock) >= lower_timestamps[i]
        /\ Max(lower_timestamps[i], logical_clock) >= logical_clock
        /\ lower_timestamps[i] < logical_clock =>
             Max(lower_timestamps[i], logical_clock) = logical_clock
    BY <1>y, <2>1 DEF Max
  <2> HIDE DEF Max
  <2> QED
    BY <1>1, <1>y, <2>1, <2>2
<1>2. CASE ~(i < N)
  BY <1>2, <1>y DEF StampRewind
<1> QED
  BY ZenonT(60), <1>1, <1>2

\* A worker that owes a rewind is in the middle of a task.
LEMMA PendingBusy ==
  ASSUME NEW w \in Workers, Pending(w)
  PROVE  pc[w] \in BusyLabels
BY ZenonT(60) DEF Pending, BusyLabels, TaskLabels, ExecuteLabels, RunLabels, RecordedLabels,
   FinishLabels,
   ValidateLabels

\* What a worker owes depends on its own task.
LEMMA PendingSame ==
  ASSUME NEW v \in Workers, Pending(v), SameWorker(v),
         tx_results'[job[v].tx] = tx_results[job[v].tx]
  PROVE  Pending(v)' /\ job'[v].tx = job[v].tx
<1>1. pc'[v] = pc[v] /\ job'[v] = job[v]
  BY ZenonT(60) DEF SameWorker
<1>2. Step(v)' = Step(v) /\ WriteSet(v)' = WriteSet(v)
  BY ZenonT(60), <1>1, SameStep
<1> QED
  BY ZenonT(60), <1>1, <1>2 DEF Pending

\* A rewind that is owed is stamped before the worker is done with its transaction.
LEMMA OwnerPending ==
  ASSUME TypeInv, OwnInv, NEW w \in Workers, ExecuteStep(w) \/ ValidateStep(w), Pending(w),
         NEW x \in Tx, job[w].tx < x, NEW ts \in Nat, ts < logical_clock
  PROVE  \/ Pending(w)' /\ job'[w].tx = job[w].tx
         \/ \E i \in Tx : i <= x /\ lower_timestamps'[i] > ts
<1>p. pc[w] \in BusyLabels
  BY ZenonT(60), PendingBusy
<1>t. PICK p \in Tx : p = job[w].tx
  BY ZenonT(60), <1>p, BusyNotFinal
<1>y. /\ job[w] \in Jobs /\ N \in Nat /\ p \in Nat /\ x \in Nat /\ x < N
      /\ logical_clock \in Nat /\ tx_results \in [Tx -> TxResults]
  BY BlockAssumption DEF TypeInv, TypeOK, CtxTypeOK, ThreadTypeOK, TxTypeOK, Tx
<1>f. {"tx", "done", "reads", "conflict", "fresh"} \subseteq DOMAIN job[w]
  BY ZenonT(60), <1>y DEF Jobs
<1>r. ASSUME NEW i \in {p, p + 1}, StampRewind(i)
      PROVE  \E k \in Tx : k <= x /\ lower_timestamps'[k] > ts
  <2>1. i \in Nat /\ i <= x /\ i < N
    BY <1>r, <1>t, <1>y
  <2>2. i \in Tx /\ lower_timestamps'[i] >= logical_clock /\ lower_timestamps' \in [Tx -> Nat]
    BY ZenonT(60), <1>r, <2>1, StampAt
  <2> QED
    BY <1>y, <2>1, <2>2
<1>1. CASE pc[w] = "run"
  <2>1. /\ Step(w).op = "ok"
        /\ ~(job[w].done \cap WriteSet(w) \subseteq tx_results[p].write_set)
    <3>1. pc[w] \notin RecordedLabels \cup {"stamp", "estimate", "restamp"}
      BY ZenonT(60), <1>1 DEF RecordedLabels
    <3> QED
      BY ZenonT(60), <1>t, <3>1 DEF Pending
  <2>2. PublishWrite(w) \/ PruneWrite(w) \/ RecordExecution(w)
    BY ZenonT(60), <1>1, <2>1 DEF ExecuteStep, ValidateStep, BeginExecution, ReadMemory,
       ReadBacking,
       ReadBeneficiary, MarkFailedWrite, RecordFailure, Failed, Depend, HoldKeyTx, FinishExecution,
       StampExecution, RewindExecution, BeginValidation, ScanMemory, ScanBeneficiary, Confirm,
       MarkConflictWrite, InvalidateHistory, StampConflict, RewindConflict, AddConflict
  <2>3. CASE PublishWrite(w) \/ PruneWrite(w)
    <3>1. UNCHANGED tx_results /\ \E l : MarkDone(w, l)
      BY ZenonT(60), <2>3 DEF PublishWrite, PruneWrite
    <3>2. PICK l : Goto(w, "run", [job[w] EXCEPT !.done = job[w].done \cup {l}])
      BY ZenonT(60), <1>1, <3>1 DEF MarkDone
    <3>3. pc'[w] = "run" /\ job'[w] = [job[w] EXCEPT !.done = job[w].done \cup {l}]
      BY ZenonT(60), <3>2, GotoIs
    <3>4. /\ job'[w].tx = job[w].tx /\ job'[w].reads = job[w].reads
          /\ job'[w].done = job[w].done \cup {l}
      BY ZenonT(60), <1>f, <3>3
    <3>5. Step(w)' = Step(w) /\ WriteSet(w)' = WriteSet(w)
      BY ZenonT(60), <3>4, SameStep
    <3> QED
      BY ZenonT(60), <1>t, <2>1, <3>1, <3>3, <3>4, <3>5 DEF Pending
  <2>4. CASE RecordExecution(w)
    <3>1. Recordable(p, job[w].incarnation)
      BY ZenonT(60), <1>1, <1>t, RecordAccepted
    <3>2. PICK b, d : Goto(w, "depend", [Idle EXCEPT
                        !.tx = p, !.incarnation = job[w].incarnation, !.conflict = b,
                        !.fresh = tx_results[p].kind = "None"
                                  \/ ~(WriteSet(w) \subseteq tx_results[p].write_set),
                        !.dep = d])
      BY ZenonT(60), <1>t, <2>4, <3>1 DEF RecordExecution
    <3>3. ~(WriteSet(w) \subseteq tx_results[p].write_set)
      BY ZenonT(60), <2>1
    <3>4. PICK f \in BOOLEAN : f /\ Goto(w, "depend", [Idle EXCEPT
                        !.tx = p, !.incarnation = job[w].incarnation, !.conflict = b,
                        !.fresh = f, !.dep = d])
      BY ZenonT(60), <3>2, <3>3
    <3>j. PICK j : Goto(w, "depend", j) /\ j.tx = p /\ j.fresh
      <4>1. /\ [Idle EXCEPT !.tx = p, !.incarnation = job[w].incarnation, !.conflict = b,
                            !.fresh = f, !.dep = d].tx = p
            /\ [Idle EXCEPT !.tx = p, !.incarnation = job[w].incarnation, !.conflict = b,
                            !.fresh = f, !.dep = d].fresh
        BY ZenonT(60), <3>4 DEF Idle
      <4> QED
        BY ZenonT(60), <3>4, <4>1
    <3>5. pc'[w] = "depend" /\ job'[w].tx = p /\ job'[w].fresh
      BY ZenonT(60), <3>j, GotoIs
    <3>6. "depend" \in RecordedLabels
      BY ZenonT(60) DEF RecordedLabels
    <3> QED
      BY ZenonT(60), <1>t, <3>5, <3>6 DEF Pending
  <2> QED
    BY ZenonT(60), <2>2, <2>3, <2>4
<1>2. CASE pc[w] \in RecordedLabels
  <2>1. job[w].conflict \/ job[w].fresh
    <3>1. pc[w] \notin {"run", "stamp", "estimate", "restamp"}
      BY ZenonT(60), <1>2 DEF RecordedLabels
    <3> QED
      BY ZenonT(60), <3>1 DEF Pending
  <2>2. Depend(w) \/ HoldKeyTx(w) \/ FinishExecution(w)
    BY ZenonT(60), <1>2 DEF ExecuteStep, ValidateStep, BeginExecution, ReadMemory, ReadBacking,
       ReadBeneficiary, PublishWrite, PruneWrite, RecordExecution, MarkFailedWrite, RecordFailure,
       StampExecution, RewindExecution, BeginValidation, ScanMemory, ScanBeneficiary, Confirm,
       MarkConflictWrite, InvalidateHistory, StampConflict, RewindConflict, AddConflict,
       RecordedLabels
  <2>3. \/ Goto(w, "executed", job[w]) \/ Goto(w, "stamp", job[w])
        \/ \E n : Goto(w, "executed", [job[w] EXCEPT !.next = n])
    BY ZenonT(60), <2>1, <2>2 DEF Depend, HoldKeyTx, FinishExecution
  <2>4. PICK label, j :
          label \in {"executed", "stamp"} /\ Goto(w, label, j) /\ j.tx = p /\ (j.conflict \/ j.fresh)
    <3>1. \A n : /\ [job[w] EXCEPT !.next = n].tx = p
                 /\ [job[w] EXCEPT !.next = n].conflict = job[w].conflict
                 /\ [job[w] EXCEPT !.next = n].fresh = job[w].fresh
      BY ZenonT(60), <1>f, <1>t
    <3> QED
      BY ZenonT(60), <1>t, <2>1, <2>3, <3>1
  <2>5. pc'[w] = label /\ job'[w] = j
    BY ZenonT(60), <2>4, GotoIs
  <2>6. "executed" \in RecordedLabels
    BY ZenonT(60) DEF RecordedLabels
  <2> QED
    BY ZenonT(60), <1>t, <2>4, <2>5, <2>6 DEF Pending
<1>3. CASE pc[w] = "stamp"
  <2>1. StampExecution(w)
    BY ZenonT(60), <1>3 DEF ExecuteStep, ValidateStep, BeginExecution, ReadMemory, ReadBacking,
       ReadBeneficiary, PublishWrite, PruneWrite, RecordExecution, MarkFailedWrite, RecordFailure,
       Depend, HoldKeyTx, FinishExecution, RewindExecution, BeginValidation, ScanMemory,
       ScanBeneficiary, Confirm, MarkConflictWrite, InvalidateHistory, StampConflict,
       RewindConflict, AddConflict
  <2>2. PICK i \in {p, p + 1} : StampRewind(i)
    BY ZenonT(60), <1>t, <2>1 DEF StampExecution, RewindTarget
  <2> QED
    BY ZenonT(60), <1>r, <2>2
<1>4. CASE pc[w] \in {"estimate", "restamp"}
  <2>1. MarkConflictWrite(w) \/ InvalidateHistory(w) \/ StampConflict(w)
    BY ZenonT(60), <1>4 DEF ExecuteStep, ValidateStep, BeginExecution, ReadMemory, ReadBacking,
       ReadBeneficiary, PublishWrite, PruneWrite, RecordExecution, MarkFailedWrite, RecordFailure,
       Depend, HoldKeyTx, FinishExecution, StampExecution, RewindExecution, BeginValidation,
       ScanMemory, ScanBeneficiary, Confirm, RewindConflict, AddConflict
  <2>2. CASE MarkConflictWrite(w) \/ InvalidateHistory(w)
    <3>1. \/ \E d : Goto(w, "estimate", [job[w] EXCEPT !.done = d])
          \/ Goto(w, "restamp", [job[w] EXCEPT !.done = {}])
      <4>1. CASE MarkConflictWrite(w)
        BY ZenonT(60), <4>1 DEF MarkConflictWrite, MarkDone
      <4>2. CASE InvalidateHistory(w)
        <5>1. Invalidatable(p, job[w].incarnation)
          BY ZenonT(60), <1>t, <4>2, InvalidateAccepted
        <5> QED
          BY ZenonT(60), <1>t, <4>2, <5>1 DEF InvalidateHistory
      <4> QED
        BY ZenonT(60), <2>2, <4>1, <4>2
    <3>2. \A d : [job[w] EXCEPT !.done = d].tx = p
      BY ZenonT(60), <1>f, <1>t
    <3>g. PICK label, j : label \in {"estimate", "restamp"} /\ Goto(w, label, j) /\ j.tx = p
      BY ZenonT(60), <3>1, <3>2
    <3>3. pc'[w] \in {"estimate", "restamp"} /\ job'[w].tx = p
      BY ZenonT(60), <3>g, GotoIs
    <3> QED
      BY ZenonT(60), <1>t, <3>3 DEF Pending
  <2>3. CASE StampConflict(w)
    BY ZenonT(60), <1>r, <1>t, <2>3 DEF StampConflict
  <2> QED
    BY ZenonT(60), <2>1, <2>2, <2>3
<1> QED
  BY ZenonT(60), <1>1, <1>2, <1>3, <1>4 DEF Pending

-----------------------------------------------------------------------------
(* What a reader may have validated stays so, or is outdated               *)

\* Whatever a worker changes of its transaction, it replaces estimates only or it owes
\* the readers a rewind.
LEMMA OwnerWrites ==
  ASSUME TypeInv, OwnInv, MemoryInv, NEW w \in Workers, ExecuteStep(w) \/ ValidateStep(w),
         NEW p \in Tx, p = job[w].tx
  PROVE  \/ Pending(w)' /\ job'[w].tx = p
         \/ /\ history'[p] = history[p] \/ history[p].value = Estimate
            /\ \A l \in Loc : \/ mv_memory'[l][p] = mv_memory[l][p]
                              \/ Written(l, p) /\ mv_memory[l][p].estimate
<1>y. job[w] \in Jobs /\ MemoryTypeOK /\ tx_results \in [Tx -> TxResults]
  BY ZenonT(60) DEF TypeInv, TypeOK, ThreadTypeOK, TxTypeOK
<1>f. {"tx", "done", "reads"} \subseteq DOMAIN job[w]
  BY ZenonT(60), <1>y DEF Jobs
<1>m. WorkerMemory(w)
  BY ZenonT(60) DEF MemoryInv
<1>1. CASE PublishWrite(w) \/ PruneWrite(w) \/ MarkFailedWrite(w)
  <2>1. pc[w] = "run" /\ UNCHANGED <<history, tx_results>>
    BY ZenonT(60), <1>1 DEF PublishWrite, PruneWrite, MarkFailedWrite
  <2>2. RunMemory(w)
    BY ZenonT(60), <1>m, <2>1 DEF WorkerMemory
  <2>3. ASSUME NEW l \in Loc \ job[w].done, l \in tx_results[p].write_set,
               (\E entry : SetEntry(l, p, entry)) \/ MarkEstimate(l, p)
        PROVE  \A k \in Loc : \/ mv_memory'[k][p] = mv_memory[k][p]
                              \/ Written(k, p) /\ mv_memory[k][p].estimate
    <3>1. Written(l, p) /\ mv_memory[l][p].estimate
      BY ZenonT(60), <2>2, <2>3 DEF RunMemory
    <3>2. \A k \in Loc \ {l} : mv_memory'[k][p] = mv_memory[k][p]
      <4>1. MemoryTypeOK
        BY ZenonT(60) DEF TypeInv, TypeOK
      <4> QED
        BY ZenonT(60), <1>y, <2>3, <4>1, EntryElsewhere
    <3> QED
      BY ZenonT(60), <3>1, <3>2
  <2>w. tx_results[p].write_set \subseteq Loc
    BY ZenonT(60), <1>y DEF TxResults
  <2>4. CASE PublishWrite(w)
    <3>0. Step(w).op = "ok"
      BY ZenonT(60), <2>4 DEF PublishWrite
    <3>1. PICK l \in WriteSet(w) \ job[w].done : (\E entry : SetEntry(l, p, entry)) /\ MarkDone(w, l)
      BY ZenonT(60), <2>4 DEF PublishWrite, PublishValue
    <3>2. CASE l \in tx_results[p].write_set
      BY ZenonT(60), <2>1, <2>3, <2>w, <3>1, <3>2
    <3>3. CASE l \notin tx_results[p].write_set
      <4>1. Goto(w, "run", [job[w] EXCEPT !.done = job[w].done \cup {l}])
        BY ZenonT(60), <2>1, <3>1 DEF MarkDone
      <4>2. pc'[w] = "run" /\ job'[w] = [job[w] EXCEPT !.done = job[w].done \cup {l}]
        BY ZenonT(60), <4>1, GotoIs
      <4>3. job'[w].tx = p /\ job'[w].reads = job[w].reads /\ job'[w].done = job[w].done \cup {l}
        BY ZenonT(60), <1>f, <4>2
      <4>4. Step(w)' = Step(w) /\ WriteSet(w)' = WriteSet(w)
        BY ZenonT(60), <4>3, SameStep
      <4> QED
        BY ZenonT(60), <2>1, <3>0, <3>1, <3>3, <4>2, <4>3, <4>4 DEF Pending
    <3> QED
      BY ZenonT(60), <3>2, <3>3
  <2>5. CASE PruneWrite(w)
    <3>1. PICK l \in tx_results[p].write_set \ job[w].done : \E entry : SetEntry(l, p, entry)
      BY ZenonT(60), <2>5 DEF PruneWrite, RemoveValue, StaleSet
    <3> QED
      BY ZenonT(60), <2>1, <2>3, <2>w, <3>1
  <2>6. CASE MarkFailedWrite(w)
    <3>1. PICK l \in tx_results[p].write_set \ job[w].done : MarkEstimate(l, p)
      BY ZenonT(60), <2>6 DEF MarkFailedWrite
    <3> QED
      BY ZenonT(60), <2>1, <2>3, <2>w, <3>1
  <2> QED
    BY ZenonT(60), <1>1, <2>4, <2>5, <2>6
<1>2. CASE RecordExecution(w) \/ RecordFailure(w)
  <2>1. pc[w] = "run" /\ UNCHANGED mv_memory
    BY ZenonT(60), <1>2 DEF RecordExecution, RecordFailure
  <2>2. history[p].value = Estimate
    BY ZenonT(60), <1>m, <2>1 DEF WorkerMemory, RunMemory
  <2> QED
    BY ZenonT(60), <2>1, <2>2
<1>3. CASE MarkConflictWrite(w) \/ InvalidateHistory(w)
  <2>1. pc[w] = "estimate"
    BY ZenonT(60), <1>3 DEF MarkConflictWrite, InvalidateHistory
  <2>2. \E d : Goto(w, "estimate", [job[w] EXCEPT !.done = d]) \/ Goto(w, "restamp", [job[w] EXCEPT !.done = d])
    BY ZenonT(60), <1>3, <2>1, InvalidateAccepted DEF MarkConflictWrite, MarkDone, InvalidateHistory
  <2>3. \A d : [job[w] EXCEPT !.done = d].tx = p
    BY ZenonT(60), <1>f
  <2>4. PICK label, j : label \in {"estimate", "restamp"} /\ Goto(w, label, j) /\ j.tx = p
    BY ZenonT(60), <2>2, <2>3
  <2>5. pc'[w] \in {"estimate", "restamp"} /\ job'[w].tx = p
    BY ZenonT(60), <2>4, GotoIs
  <2> QED
    BY ZenonT(60), <2>5 DEF Pending
<1>4. CASE \/ BeginExecution(w) \/ ReadMemory(w) \/ ReadBacking(w) \/ ReadBeneficiary(w)
           \/ Depend(w) \/ HoldKeyTx(w) \/ FinishExecution(w) \/ StampExecution(w)
           \/ RewindExecution(w) \/ BeginValidation(w) \/ ScanMemory(w) \/ ScanBeneficiary(w)
           \/ Confirm(w) \/ StampConflict(w) \/ RewindConflict(w) \/ AddConflict(w)
  <2>1. UNCHANGED <<mv_memory, history>>
    BY ZenonT(60), <1>4 DEF BeginExecution, ReadMemory, ReadBacking, ReadBeneficiary, Depend,
       HoldKeyTx,
       FinishExecution, StampExecution, RewindExecution, BeginValidation, ScanMemory,
       ScanBeneficiary, Confirm, StampConflict, RewindConflict, AddConflict
  <2> QED
    BY ZenonT(60), <2>1
<1> QED
  BY ZenonT(60), <1>1, <1>2, <1>3, <1>4 DEF ExecuteStep, ValidateStep

\* The owner of p stamps p or its successor, if anything.
LEMMA OwnerClock ==
  ASSUME TypeInv, OwnInv, NEW w \in Workers, ExecuteStep(w) \/ ValidateStep(w),
         NEW p \in Tx, p = job[w].tx
  PROVE  /\ logical_clock' \in Nat /\ logical_clock' >= logical_clock
         /\ lower_timestamps' \in [Tx -> Nat]
         /\ \A x \in Tx : lower_timestamps'[x] >= lower_timestamps[x]
         /\ \A x \in Tx \ {p, p + 1} : lower_timestamps'[x] = lower_timestamps[x]
         /\ (\A x \in Tx : lower_timestamps[x] < logical_clock) =>
              \A x \in Tx : lower_timestamps'[x] < logical_clock'
<1>y. logical_clock \in Nat /\ lower_timestamps \in [Tx -> Nat] /\ p \in Nat /\ p + 1 \in Nat
  BY DEF TypeInv, TypeOK, CtxTypeOK, Tx
<1>1. CASE StampExecution(w) \/ StampConflict(w)
  <2>1. PICK i \in {p, p + 1} : StampRewind(i)
    BY ZenonT(60), <1>1 DEF StampExecution, RewindTarget, StampConflict
  <2>2. i \in Nat
    BY ZenonT(60), <1>y, <2>1
  <2> QED
    BY ZenonT(60), <1>y, <2>1, <2>2, StampAt
<1>2. CASE BeginValidation(w)
  <2>1. /\ UNCHANGED lower_timestamps
        /\ logical_clock' = logical_clock \/ logical_clock' = logical_clock + 1
    BY ZenonT(60), <1>2 DEF BeginValidation
  <2> QED
    BY <1>y, <2>1
<1>3. CASE UNCHANGED <<logical_clock, lower_timestamps>>
  <2>1. /\ logical_clock \in Nat /\ logical_clock >= logical_clock /\ lower_timestamps \in [Tx -> Nat]
        /\ \A x \in Tx : lower_timestamps[x] >= lower_timestamps[x]
    BY <1>y
  <2> QED
    BY ZenonT(60), <1>3, <2>1
<1>4. \/ StampExecution(w) \/ StampConflict(w) \/ BeginValidation(w)
      \/ UNCHANGED <<logical_clock, lower_timestamps>>
  BY ZenonT(60) DEF ExecuteStep, ValidateStep, BeginExecution, ReadMemory, ReadBacking,
     ReadBeneficiary, PublishWrite, PruneWrite, RecordExecution, MarkFailedWrite, RecordFailure,
     Depend, HoldKeyTx, FinishExecution, RewindExecution, ScanMemory,
     ScanBeneficiary, Confirm, MarkConflictWrite, InvalidateHistory,
     RewindConflict, AddConflict
<1> QED
  BY ZenonT(60), <1>1, <1>2, <1>3, <1>4

\* A validation that does not count never counts again.
LEMMA OwnerOutdated ==
  ASSUME TypeInv, OwnInv, NEW w \in Workers, ExecuteStep(w) \/ ValidateStep(w),
         NEW x \in Tx, NEW ts \in Nat, ts < logical_clock, Outdated(x, ts)
  PROVE  Outdated(x, ts)'
<1>f. /\ pc[w] \in BusyLabels /\ job[w].tx \in Tx
      /\ \A v \in Workers \ {w} : SameWorker(v)
      /\ \A v \in Workers \ {w} : pc[v] \in BusyLabels => job[v].tx # job[w].tx
      /\ \A y \in Tx \ {job[w].tx} : SameAt(y)
  BY ZenonT(60), OwnerFrame
<1>1. CASE \E i \in Tx : i <= x /\ lower_timestamps[i] > ts
  <2>1. PICK i \in Tx : i <= x /\ lower_timestamps[i] > ts
    BY ZenonT(60), <1>1
  <2>2. lower_timestamps'[i] >= lower_timestamps[i]
    BY ZenonT(60), <1>f, OwnerClock
  <2>3. lower_timestamps[i] \in Nat /\ lower_timestamps'[i] \in Nat
    BY ZenonT(60), <1>f, <2>1, OwnerClock DEF TypeInv, TypeOK, CtxTypeOK
  <2>4. lower_timestamps'[i] > ts
    BY <2>1, <2>2, <2>3
  <2> QED
    BY ZenonT(60), <2>1, <2>4 DEF Outdated
<1>2. ASSUME NEW v \in Workers, Pending(v), job[v].tx < x PROVE Outdated(x, ts)'
  <2>1. CASE v = w
    <3>1. \/ Pending(w)' /\ job'[w].tx = job[w].tx
          \/ \E i \in Tx : i <= x /\ lower_timestamps'[i] > ts
      BY ZenonT(60), <1>2, <2>1, OwnerPending
    <3> QED
      BY ZenonT(60), <1>2, <2>1, <3>1 DEF Outdated
  <2>2. CASE v # w
    <3>1. pc[v] \in BusyLabels
      BY ZenonT(60), <1>2, PendingBusy
    <3>2. job[v].tx \in Tx
      BY ZenonT(60), <3>1, BusyNotFinal
    <3>3. SameWorker(v) /\ tx_results'[job[v].tx] = tx_results[job[v].tx]
      BY ZenonT(60), <1>f, <2>2, <3>1, <3>2 DEF SameAt
    <3>4. Pending(v)' /\ job'[v].tx = job[v].tx
      BY ZenonT(60), <1>2, <3>3, PendingSame
    <3> QED
      BY ZenonT(60), <1>2, <3>4 DEF Outdated
  <2> QED
    BY ZenonT(60), <2>1, <2>2
<1> QED
  BY ZenonT(60), <1>1, <1>2 DEF Outdated

\* What x has read stays current under a step of the owner of p, unless p comes before x
\* and its owner owes a rewind.
LEMMA OwnerCurrent ==
  ASSUME TypeInv, OwnInv, MemoryInv, NEW w \in Workers, ExecuteStep(w) \/ ValidateStep(w),
         NEW p \in Tx, p = job[w].tx, NEW x \in Tx, tx_results'[x] = tx_results[x],
         NEW l \in Loc, ReadCurrent(x, l), ~(p < x /\ Pending(w)' /\ job'[w].tx = p)
  PROVE  ReadCurrent(x, l)'
<1>1. /\ \A i \in Tx : i < x => history'[i] = history[i] \/ history[i].value = Estimate
      /\ \A i \in Tx : i < x => \/ mv_memory'[l][i] = mv_memory[l][i]
                                \/ Written(l, i) /\ mv_memory[l][i].estimate
  <2>1. \A y \in Tx \ {p} : SameAt(y)
    BY ZenonT(60), OwnerFrame
  <2>2. CASE p < x
    <3>1. /\ history'[p] = history[p] \/ history[p].value = Estimate
          /\ \/ mv_memory'[l][p] = mv_memory[l][p]
             \/ Written(l, p) /\ mv_memory[l][p].estimate
      BY ZenonT(60), <2>2, OwnerWrites
    <3> QED
      BY ZenonT(60), <2>1, <3>1 DEF SameAt
  <2>3. CASE ~(p < x)
    <3>1. \A i \in Tx : i < x => i \in Tx \ {p}
      BY ZenonT(60), <2>3
    <3> QED
      BY ZenonT(60), <2>1, <3>1 DEF SameAt
  <2> QED
    BY ZenonT(60), <2>2, <2>3
<1>2. PICK origins \in Seq(Origin) : /\ origins = tx_results[x].reads[l].origins
                                     /\ origins = tx_results'[x].reads[l].origins
  BY ZenonT(60) DEF TypeInv, TypeOK, TxTypeOK, TxResults, ReadSets
<1>3. CASE l = Ben
  <2>1. BeneficiaryCurrent(x, origins)
    BY ZenonT(60), <1>2, <1>3 DEF ReadCurrent
  <2>2. BeneficiaryCurrent(x, origins)'
    BY ZenonT(60), <1>1, <2>1, HistoryStays
  <2> QED
    BY ZenonT(60), <1>2, <1>3, <2>2 DEF ReadCurrent
<1>4. CASE l # Ben
  <2>1. MemoryCurrent(l, x, origins)
    BY ZenonT(60), <1>2, <1>4 DEF ReadCurrent
  <2>2. MemoryCurrent(l, x, origins)'
    BY ZenonT(60), <1>1, <2>1, MemoryStays
  <2> QED
    BY ZenonT(60), <1>2, <1>4, <2>2 DEF ReadCurrent
<1> QED
  BY ZenonT(60), <1>3, <1>4

\* A checked read counts as long as the validation does.
LEMMA OwnerValid ==
  ASSUME TypeInv, OwnInv, MemoryInv, NEW w \in Workers, ExecuteStep(w) \/ ValidateStep(w),
         NEW x \in Tx, tx_results'[x] = tx_results[x], NEW l \in Loc,
         NEW ts \in Nat, ts < logical_clock, StillValid(x, l, ts)
  PROVE  StillValid(x, l, ts)'
<1>t. PICK p \in Tx : p = job[w].tx
  BY ZenonT(60), OwnerFrame
<1>1. CASE Outdated(x, ts)
  BY ZenonT(60), <1>1, OwnerOutdated DEF StillValid
<1>2. CASE p < x /\ Pending(w)' /\ job'[w].tx = p
  BY ZenonT(60), <1>2 DEF StillValid, Outdated
<1>3. CASE ReadCurrent(x, l) /\ ~(p < x /\ Pending(w)' /\ job'[w].tx = p)
  BY ZenonT(60), <1>3, <1>t, OwnerCurrent DEF StillValid
<1> QED
  BY ZenonT(60), <1>1, <1>2, <1>3 DEF StillValid

\* So does an entry of the history that a scan has met.
LEMMA OwnerLinked ==
  ASSUME TypeInv, OwnInv, MemoryInv, NEW w \in Workers, ExecuteStep(w) \/ ValidateStep(w),
         NEW x \in Tx, NEW i \in Nat \ {0}, i <= x, NEW link,
         NEW ts \in Nat, ts < logical_clock, StillLinked(x, i, link, ts)
  PROVE  StillLinked(x, i, link, ts)'
<1>t. PICK p \in Tx : p = job[w].tx
  BY ZenonT(60), OwnerFrame
<1>n. x - i \in Tx /\ x - i < x
  BY BlockAssumption DEF Tx
<1>1. CASE Outdated(x, ts)
  BY ZenonT(60), <1>1, OwnerOutdated DEF StillLinked
<1>2. CASE p < x /\ Pending(w)' /\ job'[w].tx = p
  BY ZenonT(60), <1>2 DEF StillLinked, Outdated
<1>3. CASE ~Outdated(x, ts) /\ ~(p < x /\ Pending(w)' /\ job'[w].tx = p)
  <2>1. link = Link(x - i) /\ link.value # Estimate /\ link.value.kind # "Snapshot"
    BY ZenonT(60), <1>3 DEF StillLinked
  <2>2. history[x - i].value # Estimate
    BY ZenonT(60), <2>1 DEF Link
  <2>3. \A y \in Tx \ {p} : SameAt(y)
    BY ZenonT(60), <1>t, OwnerFrame
  <2>4. p = x - i => history'[p] = history[p]
    BY ZenonT(60), <1>3, <1>n, <1>t, <2>2, OwnerWrites
  <2>5. history'[x - i] = history[x - i]
    BY ZenonT(60), <1>n, <2>3, <2>4 DEF SameAt
  <2>6. Link(x - i)' = Link(x - i)
    BY ZenonT(60), <2>5 DEF Link
  <2> QED
    BY ZenonT(60), <2>1, <2>6 DEF StillLinked
<1> QED
  BY ZenonT(60), <1>1, <1>2, <1>3

-----------------------------------------------------------------------------
(* A validation in progress                                                *)

\* A worker of a task is in a validation after a step of that validation only, and comes
\* to one with nothing looked at.
LEMMA OwnerLabels ==
  ASSUME TypeInv, NEW w \in Workers, ExecuteStep(w) \/ ValidateStep(w)
  PROVE  \/ BeginValidation(w) \/ ScanMemory(w) \/ ScanBeneficiary(w)
         \/ /\ pc'[w] \notin {"claimed", "scan", "confirm"}
            /\ pc'[w] = "validate" => job'[w].chain = <<>>
<1>l. \A label : label \in {"next", "run", "backing", "depend", "key", "executed", "stamp", "rewind",
                            "task", "estimate", "restamp", "recursor", "readd"} =>
                   label \notin {"claimed", "scan", "confirm", "validate"}
  BY ZenonT(60)
<1>i. \A t, i : [Idle EXCEPT !.tx = t, !.incarnation = i].chain = <<>>
  BY ZenonT(60) DEF Idle
<1>1. CASE ReadMemory(w) \/ ReadBacking(w) \/ ReadBeneficiary(w) \/ PublishWrite(w) \/ PruneWrite(w)
             \/ MarkFailedWrite(w) \/ MarkConflictWrite(w)
  <2>1. \E label, j : Goto(w, label, j) /\ label \in {"run", "backing", "estimate"}
    BY ZenonT(60), <1>1 DEF ReadMemory, ReadBacking, ReadBeneficiary, PublishWrite, PruneWrite,
       MarkFailedWrite, MarkConflictWrite, MarkDone
  <2>2. PICK label, j : Goto(w, label, j) /\ label \in {"run", "backing", "estimate"}
    BY ZenonT(60), <2>1
  <2>3. pc'[w] = label
    BY ZenonT(60), <2>2, GotoIs
  <2> QED
    BY ZenonT(60), <2>2, <2>3
<1>2. CASE BeginExecution(w) \/ RecordExecution(w) \/ RecordFailure(w) \/ InvalidateHistory(w)
             \/ RewindExecution(w) \/ Confirm(w) \/ AddConflict(w)
  <2>1. \E label, j : Goto(w, label, j) /\ label \in {"next", "run", "depend", "key", "restamp", "task"}
    BY ZenonT(60), <1>2 DEF BeginExecution, RecordExecution, RecordFailure, InvalidateHistory,
       RewindExecution, Confirm, AddConflict, GiveUp
  <2>2. PICK label, j : Goto(w, label, j) /\ label \in {"next", "run", "depend", "key", "restamp", "task"}
    BY ZenonT(60), <2>1
  <2>3. pc'[w] = label
    BY ZenonT(60), <2>2, GotoIs
  <2> QED
    BY ZenonT(60), <2>2, <2>3
<1>3. CASE Depend(w) \/ HoldKeyTx(w) \/ StampExecution(w) \/ StampConflict(w) \/ RewindConflict(w)
  <2>1. \E label, j : Goto(w, label, j) /\ label \in {"executed", "rewind", "recursor", "readd"}
    BY ZenonT(60), <1>3 DEF Depend, HoldKeyTx, StampExecution, StampConflict, RewindConflict
  <2>2. PICK label, j : Goto(w, label, j) /\ label \in {"executed", "rewind", "recursor", "readd"}
    BY ZenonT(60), <2>1
  <2>3. pc'[w] = label
    BY ZenonT(60), <2>2, GotoIs
  <2> QED
    BY ZenonT(60), <2>2, <2>3
<1>4. CASE FinishExecution(w)
  <2>1. \/ \E t, i : Goto(w, "validate", [Idle EXCEPT !.tx = t, !.incarnation = i])
        \/ Goto(w, "stamp", job[w])
    BY ZenonT(60), <1>4 DEF FinishExecution
  <2>2. CASE Goto(w, "stamp", job[w])
    <3>1. pc'[w] = "stamp"
      BY ZenonT(60), <2>2, GotoIs
    <3> QED
      BY ZenonT(60), <3>1
  <2>3. CASE \E t, i : Goto(w, "validate", [Idle EXCEPT !.tx = t, !.incarnation = i])
    <3>1. PICK j : Goto(w, "validate", j) /\ j.chain = <<>>
      BY ZenonT(60), <1>i, <2>3
    <3>2. pc'[w] = "validate" /\ job'[w].chain = <<>>
      BY ZenonT(60), <3>1, GotoIs
    <3> QED
      BY ZenonT(60), <3>2
  <2> QED
    BY ZenonT(60), <2>1, <2>2, <2>3
<1> QED
  BY ZenonT(60), <1>1, <1>2, <1>3, <1>4 DEF ExecuteStep, ValidateStep

\* BeneficiaryHistory::validate: the entries met, newest first, are the origins of a
\* current read once the scan is over.
LEMMA ChainCurrent ==
  ASSUME NEW t \in Nat, NEW chain, chain \in Seq(Links), NEW last \in Links, Len(chain) < t,
         \A i \in 1 .. Len(chain) : /\ chain[i] = Link(t - i)
                                    /\ history[t - i].value # Estimate
                                    /\ history[t - i].value.kind # "Snapshot",
         last = Link((t - Len(chain)) - 1), history[(t - Len(chain)) - 1].value # Estimate,
         ScanEndsAt((t - Len(chain)) - 1)
  PROVE  BeneficiaryCurrent(t, Origins(Append(chain, last)))
<1> DEFINE all == Append(chain, last)
           n == Len(chain) + 1
           origins == Origins(all)
<1>1. /\ all \in Seq(Links) /\ Len(all) = n /\ DOMAIN all = 1 .. n /\ n \in Nat
      /\ \A i \in 1 .. Len(chain) : all[i] = chain[i]
      /\ all[n] = last
  OBVIOUS
<1>2. ASSUME NEW i \in 1 .. n
      PROVE  /\ all[i] = Link(t - i) /\ history[t - i].value # Estimate
             /\ i < n => history[t - i].value.kind # "Snapshot"
  <2>1. CASE i = n
    <3>1. t - i = (t - Len(chain)) - 1
      BY <1>1, <2>1
    <3> QED
      BY <1>1, <2>1, <3>1
  <2>2. CASE i # n
    <3>1. i \in 1 .. Len(chain)
      BY <1>1, <2>2
    <3> QED
      BY ZenonT(60), <1>1, <3>1
  <2> QED
    BY ZenonT(60), <2>1, <2>2
<1>3. DOMAIN origins = 1 .. n /\ \A i \in 1 .. n : origins[i] = <<all[i].tx, all[i].incarnation>>
  BY ZenonT(60), <1>1 DEF Origins
<1>4. origins \in Seq(Origin)
  BY ZenonT(60), <1>1, OriginsType
<1>5. Len(origins) = n
  BY <1>1, <1>3, <1>4
<1>6. \A i \in 1 .. n : origins[i] = <<t - i, history[t - i].incarnation>>
  <2>1. \A i : Link(t - i).tx = t - i /\ Link(t - i).incarnation = history[t - i].incarnation
    BY ZenonT(60) DEF Link
  <2> QED
    BY ZenonT(60), <1>2, <1>3, <2>1
<1>7. n = t \/ (n > 0 /\ history[t - n].value.kind = "Snapshot")
  BY <1>1 DEF ScanEndsAt
<1> HIDE DEF n, origins
<1>8. BeneficiaryCurrent(t, origins)
  BY ZenonT(60), <1>2, <1>5, <1>6, <1>7 DEF BeneficiaryCurrent
<1> QED
  BY ZenonT(60), <1>8 DEF origins

\* What the scan has found valid, as long as it has met no conflict.
ScanFound(t, ts, j) ==
  /\ \A l \in ReadLocs(tx_results[t].reads) \cap j.done : StillValid(t, l, ts)
  /\ \A i \in DOMAIN j.chain : StillLinked(t, i, j.chain[i], ts)

ScanFields == {"tx", "ts", "done", "chain", "conflict"}

\* The verdict on one read.
LEMMA CheckedAt ==
  ASSUME TypeInv, NEW w \in Workers, NEW l, NEW dep, NEW valid \in BOOLEAN
  PROVE  /\ ScanFields \subseteq DOMAIN Checked(w, l, valid, dep)
         /\ Checked(w, l, valid, dep).tx = job[w].tx
         /\ Checked(w, l, valid, dep).ts = job[w].ts
         /\ Checked(w, l, valid, dep).done = job[w].done \cup {l}
         /\ Checked(w, l, valid, dep).chain = <<>>
         /\ ~Checked(w, l, valid, dep).conflict => ~job[w].conflict /\ valid
<1>1. job[w] \in Jobs
  BY ZenonT(60) DEF TypeInv, TypeOK, ThreadTypeOK
<1>2. ScanFields \subseteq DOMAIN job[w] /\ job[w].conflict \in BOOLEAN
  BY ZenonT(60), <1>1 DEF Jobs, ScanFields
<1> QED
  BY ZenonT(60), <1>2 DEF Checked, ScanFields

\* A read of the memory is checked against the latest version before the transaction.
LEMMA ScanMemoryFinds ==
  ASSUME TypeInv, OwnInv, MemoryInv, ReadsInv, NEW w \in Workers, ScanMemory(w),
         NEW t \in Tx, t = job[w].tx, NEW ts \in Nat, ts = job[w].ts, ts < logical_clock
  PROVE  \E j : /\ Scanned(w, j) /\ ScanFields \subseteq DOMAIN j
                /\ j.tx = t /\ j.ts = ts
                /\ ~j.conflict => ScanFound(t, ts, j)'
<1>1. pc[w] = "scan" /\ UNCHANGED <<mv_memory, history, tx_results>> /\ ValidateStep(w) /\ ScanInv(w)
  BY ZenonT(60) DEF ScanMemory, ValidateStep, ReadsInv
<1>2. PICK l, dep :
        /\ l \in (ReadLocs(ReadSet(w)) \ {Ben}) \ job[w].done
        /\ Scanned(w, Checked(w, l, MemoryCurrent(l, t, tx_results[t].reads[l].origins), dep))
  BY ZenonT(60) DEF ScanMemory, MemoryCurrent, ReadSet
<1>3. PICK valid \in BOOLEAN : /\ Scanned(w, Checked(w, l, valid, dep))
                               /\ valid => MemoryCurrent(l, t, tx_results[t].reads[l].origins)
  BY ZenonT(60), <1>2 DEF MemoryCurrent
<1>4. PICK j : /\ Scanned(w, j) /\ j = Checked(w, l, valid, dep)
  BY ZenonT(60), <1>3
<1>c. /\ ScanFields \subseteq DOMAIN Checked(w, l, valid, dep)
      /\ Checked(w, l, valid, dep).tx = job[w].tx
      /\ Checked(w, l, valid, dep).ts = job[w].ts
      /\ Checked(w, l, valid, dep).done = job[w].done \cup {l}
      /\ Checked(w, l, valid, dep).chain = <<>>
      /\ ~Checked(w, l, valid, dep).conflict => ~job[w].conflict /\ valid
  BY SMTT(60), CheckedAt
<1>5. /\ Scanned(w, j) /\ ScanFields \subseteq DOMAIN j /\ j.tx = t /\ j.ts = ts
      /\ j.done = job[w].done \cup {l} /\ j.chain = <<>>
      /\ ~j.conflict => ~job[w].conflict /\ valid
  BY ZenonT(60), <1>4, <1>c
<1>6. l \in Loc /\ l # Ben
  BY ZenonT(60), <1>2 DEF ReadLocs
<1>7. ASSUME ~j.conflict, NEW k \in ReadLocs(tx_results[t].reads), k \in j.done
      PROVE  StillValid(t, k, ts)'
  <2>1. CASE k = l
    <3>1. PICK origins : /\ origins = tx_results[t].reads[l].origins
                         /\ origins = tx_results'[t].reads[l].origins
      BY ZenonT(60), <1>1
    <3>2. MemoryCurrent(l, t, origins)
      BY ZenonT(60), <1>3, <1>5, <1>7, <3>1
    <3>3. MemoryCurrent(l, t, origins)'
      BY ZenonT(60), <1>1, <1>6, <3>2, MemoryStays
    <3> QED
      BY ZenonT(60), <1>6, <2>1, <3>1, <3>3 DEF StillValid, ReadCurrent
  <2>2. CASE k # l
    <3>1. k \in job[w].done /\ k \in Loc /\ ~job[w].conflict
      BY ZenonT(60), <1>5, <1>7, <2>2 DEF ReadLocs
    <3>2. StillValid(t, k, ts)
      BY ZenonT(60), <1>1, <1>7, <3>1 DEF ScanInv
    <3>3. tx_results'[t] = tx_results[t]
      BY ZenonT(60), <1>1
    <3> QED
      BY ZenonT(60), <1>1, <3>1, <3>2, <3>3, OwnerValid
  <2> QED
    BY ZenonT(60), <2>1, <2>2
<1>8. ~j.conflict => ScanFound(t, ts, j)'
  <2>1. DOMAIN j.chain = {}
    BY <1>5
  <2> QED
    BY ZenonT(60), <1>1, <1>7, <2>1 DEF ScanFound
<1> QED
  BY ZenonT(60), <1>5, <1>8

\* The beneficiary's history is checked one entry at a time.
LEMMA ScanBeneficiaryFinds ==
  ASSUME TypeInv, OwnInv, MemoryInv, ReadsInv, NEW w \in Workers, ScanBeneficiary(w),
         NEW t \in Tx, t = job[w].tx, NEW ts \in Nat, ts = job[w].ts, ts < logical_clock
  PROVE  \E j : /\ Scanned(w, j) /\ ScanFields \subseteq DOMAIN j
                /\ j.tx = t /\ j.ts = ts
                /\ ~j.conflict => ScanFound(t, ts, j)'
<1>1. pc[w] = "scan" /\ UNCHANGED <<mv_memory, history, tx_results>> /\ ValidateStep(w) /\ ScanInv(w)
  BY ZenonT(60) DEF ScanBeneficiary, ValidateStep, ReadsInv
<1>n. t \in Nat
  BY DEF Tx
<1>y. /\ job[w] \in Jobs /\ t \in Nat /\ Ben \in Loc
      /\ history \in [Tx -> [incarnation : Nat, value : Effects]]
      /\ tx_results'[t] = tx_results[t]
  BY ZenonT(60), <1>1, <1>n, BlockAssumption DEF TypeInv, TypeOK, ThreadTypeOK, HistoryTypeOK
<1>k. ASSUME ~job[w].conflict, NEW k \in ReadLocs(tx_results[t].reads), k \in job[w].done
      PROVE  StillValid(t, k, ts)'
  <2>1. StillValid(t, k, ts) /\ k \in Loc
    BY ZenonT(60), <1>1, <1>k DEF ScanInv, ReadLocs
  <2> QED
    BY ZenonT(60), <1>1, <1>y, <2>1, OwnerValid
<1>c. ASSUME NEW valid \in BOOLEAN, NEW dep, Scanned(w, Checked(w, Ben, valid, dep)),
             ~job[w].conflict /\ valid => StillValid(t, Ben, ts)'
      PROVE  \E j : /\ Scanned(w, j) /\ ScanFields \subseteq DOMAIN j
                    /\ j.tx = t /\ j.ts = ts
                    /\ ~j.conflict => ScanFound(t, ts, j)'
  <2>1. PICK j : Scanned(w, j) /\ j = Checked(w, Ben, valid, dep)
    BY ZenonT(60), <1>c
  <2>2. /\ ScanFields \subseteq DOMAIN j /\ j.tx = t /\ j.ts = ts
        /\ j.done = job[w].done \cup {Ben} /\ j.chain = <<>>
        /\ ~j.conflict => ~job[w].conflict /\ valid
    BY SMTT(60), <2>1, CheckedAt
  <2>3. DOMAIN j.chain = {}
    BY <2>2
  <2>4. ~j.conflict => ScanFound(t, ts, j)'
    BY ZenonT(60), <1>1, <1>c, <1>k, <2>2, <2>3 DEF ScanFound
  <2> QED
    BY ZenonT(60), <2>1, <2>2, <2>4
<1>2. CASE t = 0
  <2>1. Scanned(w, Checked(w, Ben, ReadSet(w)[Ben].origins = <<>>, NoTx))
    BY ZenonT(60), <1>2 DEF ScanBeneficiary
  <2>2. PICK valid \in BOOLEAN : /\ Scanned(w, Checked(w, Ben, valid, NoTx))
                                 /\ valid => ReadSet(w)[Ben].origins = <<>>
    BY ZenonT(60), <2>1
  <2>3. valid => StillValid(t, Ben, ts)'
    <3>1. valid => tx_results'[t].reads[Ben].origins = <<>>
      BY ZenonT(60), <1>1, <2>2 DEF ReadSet
    <3>2. BeneficiaryCurrent(t, <<>>)'
      BY <1>2 DEF BeneficiaryCurrent
    <3> QED
      BY ZenonT(60), <3>1, <3>2 DEF StillValid, ReadCurrent
  <2> QED
    BY ZenonT(60), <1>c, <2>2, <2>3
<1> DEFINE chain == job[w].chain
           writer == (t - Len(chain)) - 1
<1>3. CASE t # 0 /\ history[writer].value = Estimate
  <2>1. Scanned(w, Checked(w, Ben, FALSE, writer))
    BY ZenonT(60), <1>3 DEF ScanBeneficiary
  <2> QED
    BY ZenonT(60), <1>c, <2>1
<1>4. CASE t # 0 /\ history[writer].value # Estimate
  <2>1. chain \in Seq(Links)
    BY ZenonT(60), <1>y DEF Jobs
  <2>2. chain = <<>> \/ Len(chain) < t
    BY ZenonT(60), <1>1 DEF TypeInv, BusyInv, IdleLabels
  <2>3. Len(chain) \in Nat /\ Len(chain) < t /\ writer \in Tx /\ DOMAIN chain = 1 .. Len(chain)
    <3>1. DOMAIN chain = 1 .. Len(chain)
      BY <2>1
    <3>2. Len(chain) \in Nat /\ Len(chain) < t
      BY ZenonT(60), <1>4, <2>1, <2>2, ScanPosition
    <3> QED
      BY ZenonT(60), <3>1, <3>2, ScanPosition
  <2>4. Link(writer) \in Links
    BY ZenonT(60), <1>y, <2>3 DEF Link, Links
  <2>5. ASSUME ~job[w].conflict, NEW i \in 1 .. Len(chain)
        PROVE  StillLinked(t, i, chain[i], ts) /\ i \in Nat \ {0} /\ i <= t
    <3>1. i \in Nat \ {0} /\ i <= t
      BY <1>y, <2>3
    <3> QED
      BY ZenonT(60), <1>1, <2>3, <2>5, <3>1 DEF ScanInv
  <2>6. CASE ScanEndsAt(writer)
    <3>1. Scanned(w, Checked(w, Ben, ReadSet(w)[Ben].origins = Origins(Append(chain, Link(writer))), t - 1))
      BY ZenonT(60), <1>4, <2>6 DEF ScanBeneficiary
    <3>2. PICK last \in Links : last = Link(writer)
      BY ZenonT(60), <2>4
    <3>3. PICK valid \in BOOLEAN : /\ Scanned(w, Checked(w, Ben, valid, t - 1))
                                   /\ valid => ReadSet(w)[Ben].origins = Origins(Append(chain, last))
      BY ZenonT(60), <3>1, <3>2
    <3>4. ASSUME ~job[w].conflict, valid PROVE StillValid(t, Ben, ts)'
      <4>1. CASE Outdated(t, ts)
        BY ZenonT(60), <1>1, <4>1, OwnerOutdated DEF StillValid
      <4>2. CASE ~Outdated(t, ts)
        <5>1. \A i \in 1 .. Len(chain) : /\ chain[i] = Link(t - i)
                                         /\ history[t - i].value # Estimate
                                         /\ history[t - i].value.kind # "Snapshot"
          <6> SUFFICES ASSUME NEW i \in 1 .. Len(chain)
                       PROVE  /\ chain[i] = Link(t - i)
                              /\ history[t - i].value # Estimate
                              /\ history[t - i].value.kind # "Snapshot"
            BY ZenonT(60)
          <6>1. StillLinked(t, i, chain[i], ts)
            BY ZenonT(60), <2>5, <3>4
          <6>2. /\ chain[i] = Link(t - i)
                /\ chain[i].value # Estimate /\ chain[i].value.kind # "Snapshot"
            BY ZenonT(60), <4>2, <6>1 DEF StillLinked
          <6>3. Link(t - i).value = history[t - i].value
            BY ZenonT(60) DEF Link
          <6> QED
            BY ZenonT(60), <6>2, <6>3
        <5>2. PICK origins \in Seq(Origin) : origins = Origins(Append(chain, last))
          <6>1. Append(chain, last) \in Seq(Links)
            BY <2>1
          <6> QED
            BY ZenonT(60), <6>1, OriginsType
        <5>3. BeneficiaryCurrent(t, origins)
          BY ZenonT(60), <1>4, <1>y, <2>1, <2>3, <2>6, <3>2, <5>1, <5>2, ChainCurrent
        <5>4. BeneficiaryCurrent(t, origins)'
          BY ZenonT(60), <1>1, <5>3, HistoryStays
        <5>5. tx_results'[t].reads[Ben].origins = origins
          BY ZenonT(60), <1>y, <3>3, <3>4, <5>2 DEF ReadSet
        <5> QED
          BY ZenonT(60), <5>4, <5>5 DEF StillValid, ReadCurrent
      <4> QED
        BY ZenonT(60), <4>1, <4>2
    <3> QED
      BY ZenonT(60), <1>c, <3>3, <3>4
  <2>7. CASE ~ScanEndsAt(writer)
    <3>1. PICK last \in Links : last = Link(writer)
      BY ZenonT(60), <2>4
    <3>2. Scanned(w, [job[w] EXCEPT !.chain = Append(chain, last)])
      BY ZenonT(60), <1>4, <2>7, <3>1 DEF ScanBeneficiary
    <3>3. PICK all : all = Append(chain, last)
      BY ZenonT(60)
    <3>4. PICK j : /\ Scanned(w, j) /\ ScanFields \subseteq DOMAIN j /\ j.tx = t /\ j.ts = ts
                   /\ j.done = job[w].done /\ j.chain = all /\ j.conflict = job[w].conflict
      <4>1. PICK j : j = [job[w] EXCEPT !.chain = all]
        BY ZenonT(60)
      <4>2. Scanned(w, j)
        BY ZenonT(60), <3>2, <3>3, <4>1
      <4>3. ScanFields \subseteq DOMAIN j
        BY ZenonT(60), <1>y, <4>1 DEF Jobs, ScanFields
      <4>4. /\ j.tx = t /\ j.ts = ts /\ j.done = job[w].done
            /\ j.chain = all /\ j.conflict = job[w].conflict
        BY ZenonT(60), <1>y, <4>1 DEF Jobs
      <4> QED
        BY ZenonT(60), <4>2, <4>3, <4>4
    <3>5. DOMAIN all = 1 .. Len(chain) + 1 /\ all[Len(chain) + 1] = last
          /\ \A i \in 1 .. Len(chain) : all[i] = chain[i]
      BY <2>1, <3>3
    <3>6. ASSUME ~job[w].conflict, NEW i \in DOMAIN all
          PROVE  StillLinked(t, i, all[i], ts)'
      <4>1. CASE i \in 1 .. Len(chain)
        <5>1. PICK link : link = chain[i] /\ link = all[i]
          BY ZenonT(60), <3>5, <4>1
        <5>2. StillLinked(t, i, link, ts)'
          BY ZenonT(60), <1>1, <2>5, <3>6, <4>1, <5>1, OwnerLinked
        <5> QED
          BY ZenonT(60), <5>1, <5>2
      <4>2. CASE i = Len(chain) + 1
        <5>1. t - i = writer
          BY <1>n, <2>3, <4>2
        <5>2. Link(writer).tx = writer /\ Link(writer).value = history[writer].value
          BY ZenonT(60) DEF Link
        <5>3. /\ last.tx = t - i /\ last = Link(t - i)
              /\ last.value # Estimate /\ last.value.kind # "Snapshot"
          BY ZenonT(60), <1>4, <2>7, <3>1, <5>1, <5>2 DEF ScanEndsAt
        <5>4. Link(t - i)' = Link(t - i)
          BY ZenonT(60), <1>1 DEF Link
        <5>5. StillLinked(t, i, last, ts)'
          BY ZenonT(60), <5>3, <5>4 DEF StillLinked
        <5> QED
          BY ZenonT(60), <3>5, <4>2, <5>5
      <4>3. PICK n \in Nat : n = Len(chain) /\ i \in 1 .. n + 1
        BY ZenonT(60), <2>3, <3>5
      <4>4. i \in 1 .. n \/ i = n + 1
        BY <4>3
      <4> QED
        BY ZenonT(60), <4>1, <4>2, <4>3, <4>4
    <3>7. ~j.conflict => ScanFound(t, ts, j)'
      BY ZenonT(60), <1>1, <1>k, <3>4, <3>6 DEF ScanFound
    <3> QED
      BY ZenonT(60), <3>4, <3>7
  <2> QED
    BY ZenonT(60), <2>6, <2>7
<1> QED
  BY ZenonT(60), <1>2, <1>3, <1>4

\* The validation of a transaction, step by step: what it has found valid counts as long
\* as the validation does, and is everything once it confirms.
LEMMA OwnerScans ==
  ASSUME TypeInv, OwnInv, MemoryInv, ReadsInv, NEW w \in Workers, ExecuteStep(w) \/ ValidateStep(w)
  PROVE  /\ ScanInv(w)'
         /\ pc'[w] \in {"scan", "confirm"} =>
              /\ job'[w].tx = job[w].tx
              /\ unconfirmed_timestamps[job[w].tx] < job'[w].ts
              /\ job'[w].ts < logical_clock'
<1>t. PICK t \in Tx : t = job[w].tx
  BY ZenonT(60), OwnerFrame
<1>y. /\ job[w] \in Jobs /\ job[w].ts \in Nat /\ logical_clock \in Nat
      /\ ScanFields \subseteq DOMAIN job[w] /\ unconfirmed_timestamps[t] < logical_clock
  <2>1. job[w] \in Jobs /\ logical_clock \in Nat /\ unconfirmed_timestamps[t] < logical_clock
    BY ZenonT(60) DEF TypeInv, TypeOK, CtxTypeOK, ThreadTypeOK, ReadsInv, TimeInv
  <2> QED
    BY ZenonT(60), <2>1 DEF Jobs, ScanFields
<1>s. ASSUME NEW j, Scanned(w, j), ScanFields \subseteq DOMAIN j, j.tx = t,
             ~j.conflict => ScanFound(t, j.ts, j)', UNCHANGED tx_results
      PROVE  ScanInv(w)' /\ job'[w].tx = t /\ job'[w].ts = j.ts
  <2>0. {"tx", "ts", "done"} \subseteq DOMAIN j
    BY ZenonT(60), <1>s DEF ScanFields
  <2>1. /\ pc'[w] \in {"scan", "estimate", "confirm"}
        /\ job'[w].tx = t /\ job'[w].ts = j.ts
        /\ pc'[w] = "scan" => job'[w] = j
        /\ pc'[w] # "scan" => ReadLocs(ReadSet(w)) \subseteq j.done
        /\ pc'[w] = "confirm" => ~j.conflict
    BY ZenonT(60), <1>s, <2>0, ScannedAt
  <2>2. pc'[w] \notin {"claimed", "validate"} /\ (pc'[w] = "confirm" => pc'[w] # "scan")
    BY ZenonT(60), <2>1
  <2>3. ReadLocs(tx_results'[t].reads) = ReadLocs(ReadSet(w))
    BY ZenonT(60), <1>s, <1>t DEF ReadSet
  <2>4. ~j.conflict =>
          /\ \A l \in ReadLocs(tx_results'[t].reads) \cap j.done : StillValid(t, l, j.ts)'
          /\ \A i \in DOMAIN j.chain : StillLinked(t, i, j.chain[i], j.ts)'
    BY ZenonT(60), <1>s DEF ScanFound
  <2>5. pc'[w] = "confirm" => \A l \in ReadLocs(tx_results'[t].reads) : StillValid(t, l, j.ts)'
    BY ZenonT(60), <1>s, <2>1, <2>2, <2>3 DEF ScanFound
  <2>6. CASE pc'[w] = "scan"
    BY ZenonT(60), <2>1, <2>2, <2>4, <2>6 DEF ScanInv
  <2>7. CASE pc'[w] # "scan"
    BY ZenonT(60), <2>1, <2>2, <2>5, <2>7 DEF ScanInv
  <2> QED
    BY ZenonT(60), <2>1, <2>6, <2>7
<1>1. CASE BeginValidation(w) /\ pc'[w] \in {"claimed", "validate", "scan", "confirm"}
  <2>1. /\ UNCHANGED tx_results /\ pc[w] = "validate"
        /\ \/ Goto(w, "next", Idle)
           \/ /\ Scanned(w, [job[w] EXCEPT !.ts = logical_clock])
              /\ logical_clock' = logical_clock + 1
    BY ZenonT(60), <1>1 DEF BeginValidation, GiveUp
  <2>2. ~Goto(w, "next", Idle)
    <3>1. ASSUME Goto(w, "next", Idle) PROVE pc'[w] = "next"
      BY ZenonT(60), <3>1, GotoAt
    <3> QED
      BY ZenonT(60), <1>1, <3>1
  <2>3. job[w].done = {} /\ job[w].chain = <<>>
    <3>1. pc[w] \notin {"run", "scan", "estimate"} /\ pc[w] \in {"claimed", "validate"}
      BY ZenonT(60), <2>1
    <3> QED
      BY ZenonT(60), <3>1 DEF MemoryInv, WorkerMemory, ReadsInv, ScanInv
  <2>4. PICK j : /\ Scanned(w, j) /\ ScanFields \subseteq DOMAIN j /\ j.tx = t /\ j.ts = logical_clock
                 /\ j.done = {} /\ j.chain = <<>>
    BY <1>t, <1>y, <2>1, <2>2, <2>3 DEF ScanFields
  <2>5. DOMAIN j.chain = {}
    BY <2>4
  <2>6. ScanFound(t, j.ts, j)'
    BY ZenonT(60), <2>4, <2>5 DEF ScanFound
  <2>7. ScanInv(w)' /\ job'[w].tx = t /\ job'[w].ts = logical_clock
    BY ZenonT(60), <1>s, <2>1, <2>4, <2>6
  <2>8. logical_clock' = logical_clock + 1
    BY ZenonT(60), <2>1, <2>2
  <2> QED
    BY <1>t, <1>y, <2>7, <2>8
<1>2. CASE ScanMemory(w) \/ ScanBeneficiary(w)
  <2>1. pc[w] = "scan" /\ UNCHANGED <<tx_results, logical_clock>>
    BY ZenonT(60), <1>2 DEF ScanMemory, ScanBeneficiary
  <2>2. PICK ts \in Nat : ts = job[w].ts
    BY ZenonT(60), <1>y
  <2>3. ts < logical_clock /\ unconfirmed_timestamps[t] < ts
    <3>1. pc[w] \in {"scan", "confirm"}
      BY ZenonT(60), <2>1
    <3> QED
      BY ZenonT(60), <1>t, <2>2, <3>1 DEF ReadsInv, TimeInv
  <2>4. PICK j : /\ Scanned(w, j) /\ ScanFields \subseteq DOMAIN j
                 /\ j.tx = t /\ j.ts = ts
                 /\ ~j.conflict => ScanFound(t, ts, j)'
    BY ZenonT(60), <1>2, <1>t, <2>2, <2>3, ScanMemoryFinds, ScanBeneficiaryFinds
  <2>5. ScanInv(w)' /\ job'[w].tx = t /\ job'[w].ts = ts
    BY ZenonT(60), <1>s, <2>1, <2>4
  <2> QED
    BY ZenonT(60), <1>t, <2>1, <2>2, <2>3, <2>5
<1>3. CASE /\ pc'[w] \notin {"claimed", "scan", "confirm"}
           /\ pc'[w] = "validate" => job'[w].chain = <<>>
  BY ZenonT(60), <1>3 DEF ScanInv
<1>4. CASE pc'[w] \notin {"claimed", "validate", "scan", "confirm"}
  BY ZenonT(60), <1>4 DEF ScanInv
<1> QED
  BY ZenonT(60), <1>1, <1>2, <1>3, <1>4, OwnerLabels

-----------------------------------------------------------------------------
(* Steps of the owner of a transaction                                     *)

\* Only the end of a validation confirms a transaction, with the time of the validation.
LEMMA OwnerConfirms ==
  ASSUME TypeInv, OwnInv, ReadsInv, NEW w \in Workers, ExecuteStep(w) \/ ValidateStep(w),
         NEW p \in Tx, p = job[w].tx
  PROVE  /\ status'[p] # "Finality"
         /\ \A x \in Tx \ {p} : unconfirmed_timestamps'[x] = unconfirmed_timestamps[x]
         /\ unconfirmed_timestamps'[p] < logical_clock'
         /\ ~Confirm(w) => /\ status'[p] # "Unconfirmed"
                           /\ UNCHANGED unconfirmed_timestamps
         /\ Confirm(w) => /\ pc[w] = "confirm" /\ UNCHANGED tx_results
                          /\ unconfirmed_timestamps'[p] = job[w].ts
<1>y. /\ status \in [Tx -> Statuses] /\ unconfirmed_timestamps \in [Tx -> Nat]
      /\ job[w] \in Jobs /\ logical_clock \in Nat /\ logical_clock' \in Nat /\ logical_clock' >= logical_clock
      /\ unconfirmed_timestamps[p] < logical_clock
  BY ZenonT(60), OwnerClock DEF TypeInv, TypeOK, TxTypeOK, CtxTypeOK, ThreadTypeOK, ReadsInv,
     TimeInv
<1>1. CASE Confirm(w)
  <2>1. /\ pc[w] = "confirm" /\ UNCHANGED <<tx_results, logical_clock>>
        /\ Unconfirm(p, job[w].ts) /\ SetStatus(p, "Unconfirmed")
    BY ZenonT(60), <1>1 DEF Confirm
  <2>2. unconfirmed_timestamps[p] < job[w].ts /\ job[w].ts < logical_clock
    <3>1. pc[w] \in {"scan", "confirm"}
      BY ZenonT(60), <2>1
    <3> QED
      BY ZenonT(60), <3>1 DEF ReadsInv, TimeInv
  <2>3. job[w].ts \in Nat
    BY ZenonT(60), <1>y DEF Jobs
  <2>4. Max(unconfirmed_timestamps[p], job[w].ts) = job[w].ts
    BY ZenonT(60), <1>y, <2>2, <2>3 DEF Max
  <2>5. /\ unconfirmed_timestamps'[p] = job[w].ts
        /\ \A x \in Tx \ {p} : unconfirmed_timestamps'[x] = unconfirmed_timestamps[x]
    BY ZenonT(60), <1>y, <2>1, <2>4 DEF Unconfirm
  <2>6. status'[p] # "Finality"
    BY ZenonT(60), <1>y, <2>1 DEF SetStatus
  <2> QED
    BY ZenonT(60), <1>1, <2>1, <2>2, <2>5, <2>6
<1>2. CASE ~Confirm(w)
  <2>1. UNCHANGED unconfirmed_timestamps
    BY ZenonT(60), <1>2 DEF ExecuteStep, ValidateStep, BeginExecution, ReadMemory, ReadBacking,
       ReadBeneficiary, PublishWrite, PruneWrite, RecordExecution, MarkFailedWrite, RecordFailure,
       Depend, HoldKeyTx, FinishExecution, StampExecution, RewindExecution, BeginValidation,
       ScanMemory, ScanBeneficiary, MarkConflictWrite, InvalidateHistory, StampConflict,
       RewindConflict, AddConflict
  <2>2. \/ UNCHANGED status
        \/ SetStatus(p, "Validating") \/ SetStatus(p, "Executed") \/ SetStatus(p, "Conflict")
    BY ZenonT(60), <1>2 DEF ExecuteStep, ValidateStep, BeginExecution, ReadMemory, ReadBacking,
       ReadBeneficiary, PublishWrite, PruneWrite, RecordExecution, MarkFailedWrite, RecordFailure,
       Depend, HoldKeyTx, FinishExecution, StampExecution, RewindExecution, BeginValidation,
       ScanMemory, ScanBeneficiary, MarkConflictWrite, InvalidateHistory, StampConflict,
       RewindConflict, AddConflict
  <2>3. status[p] # "Finality" /\ status[p] # "Unconfirmed"
    <3>1. pc[w] \in BusyLabels /\ WorkerOwn(w)
      BY ZenonT(60), OwnerFrame DEF OwnInv
    <3>2. pc[w] \in ExecuteLabels \/ pc[w] \in ValidateLabels \/ pc[w] \in FinishLabels
      BY ZenonT(60), <3>1 DEF BusyLabels, TaskLabels
    <3>3. status[p] \in {"Executing", "Validating", "Executed", "Conflict"}
      BY ZenonT(60), <3>1, <3>2 DEF WorkerOwn
    <3> QED
      BY ZenonT(60), <3>3
  <2>4. status'[p] # "Finality" /\ status'[p] # "Unconfirmed"
    BY ZenonT(60), <1>y, <2>2, <2>3 DEF SetStatus
  <2>5. unconfirmed_timestamps[p] < logical_clock'
    BY <1>y
  <2> QED
    BY ZenonT(60), <1>2, <2>1, <2>4, <2>5
<1> QED
  BY ZenonT(60), <1>1, <1>2

\* execute_task and validate.
LEMMA OwnerReads ==
  ASSUME TypeInv, OwnInv, MemoryInv, ReadsInv, NEW w \in Workers, ExecuteStep(w) \/ ValidateStep(w)
  PROVE  ReadsInv'
<1>t. PICK p \in Tx : p = job[w].tx
  BY ZenonT(60), OwnerFrame
<1>f. /\ pc[w] \in BusyLabels
      /\ \A v \in Workers \ {w} : SameWorker(v)
      /\ \A v \in Workers \ {w} : pc[v] \in BusyLabels => job[v].tx # p
      /\ \A x \in Tx \ {p} : SameAt(x)
      /\ UNCHANGED <<finality, finality_pc, lower_ts>>
  BY ZenonT(60), <1>t, OwnerFrame
<1>y. /\ logical_clock \in Nat /\ unconfirmed_timestamps \in [Tx -> Nat]
      /\ \A v \in Workers : job[v] \in Jobs
  BY ZenonT(60) DEF TypeInv, TypeOK, CtxTypeOK, ThreadTypeOK
<1>c. /\ logical_clock' \in Nat /\ logical_clock' >= logical_clock
      /\ \A x \in Tx \ {p, p + 1} : lower_timestamps'[x] = lower_timestamps[x]
      /\ \A x \in Tx : lower_timestamps'[x] < logical_clock'
  BY ZenonT(60), <1>t, OwnerClock DEF ReadsInv, TimeInv
<1>u. /\ status'[p] # "Finality"
      /\ \A x \in Tx \ {p} : unconfirmed_timestamps'[x] = unconfirmed_timestamps[x]
      /\ unconfirmed_timestamps'[p] < logical_clock'
      /\ ~Confirm(w) => status'[p] # "Unconfirmed"
      /\ Confirm(w) => /\ pc[w] = "confirm" /\ UNCHANGED tx_results
                       /\ unconfirmed_timestamps'[p] = job[w].ts
  BY ZenonT(60), <1>t, OwnerConfirms
<1>s. /\ ScanInv(w)'
      /\ pc'[w] \in {"scan", "confirm"} =>
           /\ job'[w].tx = p
           /\ unconfirmed_timestamps[p] < job'[w].ts
           /\ job'[w].ts < logical_clock'
  BY ZenonT(60), <1>t, OwnerScans
<1>b. \A v \in Workers : pc[v] \in {"scan", "confirm"} => pc[v] \in BusyLabels /\ job[v].tx \in Tx
  BY ZenonT(60), BusyNotFinal DEF BusyLabels, TaskLabels, ValidateLabels
<1>p. ASSUME NEW x \in Tx, status[x] = "Finality"
      PROVE  x # p /\ x # p + 1 /\ x < p
  <2>1. status[p] # "Finality" /\ TxOwn(x) /\ TxOwn(p)
    BY ZenonT(60), <1>f, <1>t, BusyNotFinal DEF OwnInv
  <2>2. /\ x < finality \/ (x = finality /\ finality_pc = "publish")
        /\ ~(p < finality \/ (p = finality /\ finality_pc = "publish"))
    BY ZenonT(60), <1>p, <2>1 DEF TxOwn
  <2>3. finality \in Nat
    BY BlockAssumption DEF TypeInv, TypeOK, CtxTypeOK
  <2> QED
    BY <2>2, <2>3 DEF Tx
<1>1. TimeInv'
  <2>1. ASSUME NEW x \in Tx PROVE unconfirmed_timestamps'[x] < logical_clock'
    <3>1. CASE x = p
      BY ZenonT(60), <1>u, <3>1
    <3>2. CASE x # p
      <4>1. unconfirmed_timestamps'[x] = unconfirmed_timestamps[x] /\ unconfirmed_timestamps[x] < logical_clock
        BY ZenonT(60), <1>u, <3>2 DEF ReadsInv, TimeInv
      <4> QED
        BY <1>c, <1>y, <4>1
    <3> QED
      BY ZenonT(60), <3>1, <3>2
  <2>2. ASSUME NEW x \in Tx, x < finality' \/ (x = finality' /\ finality_pc' = "publish")
        PROVE  lower_timestamps'[x] <= lower_ts'
    <3>1. x < finality \/ (x = finality /\ finality_pc = "publish")
      BY ZenonT(60), <1>f, <2>2
    <3>2. status[x] = "Finality"
      BY ZenonT(60), <3>1 DEF OwnInv, TxOwn
    <3>3. x \in Tx \ {p, p + 1}
      BY ZenonT(60), <1>p, <3>2
    <3> QED
      BY ZenonT(60), <1>c, <1>f, <3>1, <3>3 DEF ReadsInv, TimeInv
  <2>3. ASSUME NEW v \in Workers, pc'[v] \in {"scan", "confirm"}
        PROVE  unconfirmed_timestamps'[job'[v].tx] < job'[v].ts /\ job'[v].ts < logical_clock'
    <3>1. CASE v = w
      <4>1. ~Confirm(w)
        <5>1. Confirm(w) => pc'[w] = "next"
          BY ZenonT(60), GotoAt DEF Confirm
        <5> QED
          BY ZenonT(60), <2>3, <3>1, <5>1
      <4>2. UNCHANGED unconfirmed_timestamps
        BY ZenonT(60), <1>t, <4>1, OwnerConfirms
      <4> QED
        BY ZenonT(60), <1>s, <2>3, <3>1, <4>2
    <3>2. CASE v # w
      <4>1. pc'[v] = pc[v] /\ job'[v] = job[v]
        BY ZenonT(60), <1>f, <3>2 DEF SameWorker
      <4>2. job[v].tx \in Tx \ {p}
        BY ZenonT(60), <1>b, <1>f, <2>3, <3>2, <4>1
      <4>3. /\ unconfirmed_timestamps'[job[v].tx] = unconfirmed_timestamps[job[v].tx]
            /\ unconfirmed_timestamps[job[v].tx] < job[v].ts /\ job[v].ts < logical_clock
        BY ZenonT(60), <1>u, <2>3, <4>1, <4>2 DEF ReadsInv, TimeInv
      <4>4. job[v].ts \in Nat
        BY ZenonT(60), <1>y DEF Jobs
      <4>5. job[v].ts < logical_clock'
        BY <1>c, <1>y, <4>3, <4>4
      <4> QED
        BY ZenonT(60), <4>1, <4>3, <4>5
    <3> QED
      BY ZenonT(60), <3>1, <3>2
  <2> QED
    BY ZenonT(60), <1>c, <2>1, <2>2, <2>3 DEF TimeInv
<1>2. ASSUME NEW v \in Workers PROVE ScanInv(v)'
  <2>1. CASE v = w
    BY ZenonT(60), <1>s, <2>1
  <2>2. CASE v # w
    <3>1. pc'[v] = pc[v] /\ job'[v] = job[v] /\ ScanInv(v)
      BY ZenonT(60), <1>f, <2>2 DEF SameWorker, ReadsInv
    <3>2. CASE pc[v] \notin {"scan", "confirm"}
      BY ZenonT(60), <3>1, <3>2 DEF ScanInv
    <3>3. CASE pc[v] \in {"scan", "confirm"}
      <4>1. PICK t \in Tx : t = job[v].tx /\ t # p
        BY ZenonT(60), <1>b, <1>f, <2>2, <3>3
      <4>2. PICK ts \in Nat : ts = job[v].ts
        BY ZenonT(60), <1>y DEF Jobs
      <4>3. tx_results'[t] = tx_results[t]
        BY ZenonT(60), <1>f, <4>1 DEF SameAt
      <4>4. ts < logical_clock
        BY ZenonT(60), <3>3, <4>2 DEF ReadsInv, TimeInv
      <4>5. ReadLocs(tx_results[t].reads) \subseteq Loc
        BY ZenonT(60) DEF ReadLocs
      <4>6. \A l \in Loc : StillValid(t, l, ts) => StillValid(t, l, ts)'
        BY ZenonT(60), <4>3, <4>4, OwnerValid
      <4>7. PICK j : j = job[v] /\ j = job'[v]
        BY ZenonT(60), <3>1
      <4>8. ASSUME NEW i \in DOMAIN j.chain, StillLinked(t, i, j.chain[i], ts)
            PROVE  StillLinked(t, i, j.chain[i], ts)'
        <5>1. i \in Nat \ {0} /\ i <= t
          <6>1. job[v].chain \in Seq(Links)
            BY ZenonT(60), <1>y DEF Jobs
          <6>2. job[v].chain = <<>> \/ Len(job[v].chain) < t
            <7>1. pc[v] \notin IdleLabels
              BY ZenonT(60), <3>3 DEF IdleLabels
            <7> QED
              BY ZenonT(60), <4>1, <7>1 DEF TypeInv, BusyInv
          <6> QED
            BY <4>7, <4>8, <6>1, <6>2 DEF Tx
        <5>2. PICK link : link = j.chain[i]
          BY ZenonT(60)
        <5> QED
          BY ZenonT(60), <4>4, <4>8, <5>1, <5>2, OwnerLinked
      <4>9. ReadLocs(tx_results'[t].reads) = ReadLocs(tx_results[t].reads)
        BY ZenonT(60), <4>3
      <4>10. CASE pc[v] = "confirm"
        <5>1. \A l \in ReadLocs(tx_results[t].reads) : StillValid(t, l, ts)
          BY ZenonT(60), <3>1, <4>1, <4>2, <4>10 DEF ScanInv
        <5>2. \A l \in ReadLocs(tx_results'[t].reads) : StillValid(t, l, ts)'
          BY ZenonT(60), <4>5, <4>6, <4>9, <5>1
        <5>3. pc'[v] \notin {"claimed", "validate", "scan"}
          BY ZenonT(60), <3>1, <4>10
        <5> QED
          BY ZenonT(60), <3>1, <4>1, <4>2, <5>2, <5>3 DEF ScanInv
      <4>11. CASE pc[v] = "scan"
        <5>1. ~j.conflict => /\ \A l \in ReadLocs(tx_results[t].reads) \cap j.done : StillValid(t, l, ts)
                             /\ \A i \in DOMAIN j.chain : StillLinked(t, i, j.chain[i], ts)
          BY ZenonT(60), <3>1, <4>1, <4>2, <4>7, <4>11 DEF ScanInv
        <5>2. ~j.conflict => /\ \A l \in ReadLocs(tx_results'[t].reads) \cap j.done : StillValid(t, l, ts)'
                             /\ \A i \in DOMAIN j.chain : StillLinked(t, i, j.chain[i], ts)'
          BY ZenonT(60), <4>5, <4>6, <4>8, <4>9, <5>1
        <5>3. pc'[v] \notin {"claimed", "validate", "confirm"} /\ j.tx = t /\ j.ts = ts
          BY ZenonT(60), <3>1, <4>1, <4>2, <4>7, <4>11
        <5> QED
          BY ZenonT(60), <3>1, <4>7, <5>2, <5>3 DEF ScanInv
      <4> QED
        BY ZenonT(60), <3>3, <4>10, <4>11
    <3> QED
      BY ZenonT(60), <3>2, <3>3
  <2> QED
    BY ZenonT(60), <2>1, <2>2
<1>3. ASSUME NEW x \in Tx, status'[x] = "Unconfirmed", NEW l \in ReadLocs(tx_results'[x].reads)
      PROVE  StillValid(x, l, unconfirmed_timestamps[x])'
  <2>l. l \in Loc
    BY ZenonT(60) DEF ReadLocs
  <2>1. PICK ts \in Nat : /\ ts = unconfirmed_timestamps'[x] /\ ts < logical_clock
                          /\ tx_results'[x] = tx_results[x] /\ StillValid(x, l, ts)
    <3>1. CASE x = p
      <4>1. Confirm(w) /\ pc[w] = "confirm" /\ tx_results' = tx_results
        BY ZenonT(60), <1>3, <1>u, <3>1
      <4>2. pc[w] \in {"scan", "confirm"}
        BY ZenonT(60), <4>1
      <4>3. job[w].ts < logical_clock
        BY ZenonT(60), <4>2 DEF ReadsInv, TimeInv
      <4>4. job[w].ts \in Nat
        BY ZenonT(60), <1>y DEF Jobs
      <4>5. StillValid(x, l, job[w].ts)
        BY ZenonT(60), <1>3, <1>t, <3>1, <4>1 DEF ReadsInv, ScanInv
      <4> QED
        BY ZenonT(60), <1>u, <3>1, <4>1, <4>3, <4>4, <4>5
    <3>2. CASE x # p
      <4>1. /\ status[x] = "Unconfirmed" /\ tx_results'[x] = tx_results[x]
            /\ unconfirmed_timestamps'[x] = unconfirmed_timestamps[x]
        BY ZenonT(60), <1>3, <1>f, <1>u, <3>2 DEF SameAt
      <4>2. unconfirmed_timestamps[x] < logical_clock /\ StillValid(x, l, unconfirmed_timestamps[x])
        BY ZenonT(60), <1>3, <4>1 DEF ReadsInv, TimeInv
      <4> QED
        BY ZenonT(60), <1>y, <4>1, <4>2
    <3> QED
      BY ZenonT(60), <3>1, <3>2
  <2>2. StillValid(x, l, ts)'
    BY ZenonT(60), <2>1, <2>l, OwnerValid
  <2> QED
    BY ZenonT(60), <2>1, <2>2 DEF StillValid, Outdated
<1>4. FinalReadsCurrent'
  <2>1. ASSUME NEW x \in Tx, status'[x] = "Finality", NEW l \in ReadLocs(tx_results'[x].reads)
        PROVE  ReadCurrent(x, l)'
    <3>1. status[x] = "Finality" /\ tx_results'[x] = tx_results[x]
      BY ZenonT(60), <1>f, <1>u, <2>1 DEF SameAt
    <3>2. l \in Loc /\ ReadCurrent(x, l)
      BY ZenonT(60), <2>1, <3>1 DEF ReadLocs, ReadCurrent, ReadsInv, FinalReadsCurrent
    <3>3. ~(p < x)
      BY <1>p, <3>1 DEF Tx
    <3> QED
      BY ZenonT(60), <1>t, <3>1, <3>2, <3>3, OwnerCurrent
  <2> QED
    BY ZenonT(60), <2>1 DEF FinalReadsCurrent, ReadCurrent
<1> QED
  BY ZenonT(60), <1>1, <1>2, <1>3, <1>4 DEF ReadsInv

-----------------------------------------------------------------------------
(* Steps that leave the memory and the rewinds alone                       *)

\* Nothing that a validation relies on changes, and whoever owes a rewind still does.
LEMMA QuietValid ==
  ASSUME TypeInv, UNCHANGED <<mv_memory, history, lower_timestamps>>,
         \A v \in Workers : pc[v] \in BusyLabels =>
           SameWorker(v) /\ tx_results'[job[v].tx] = tx_results[job[v].tx],
         NEW x \in Tx, NEW ts \in Nat
  PROVE  /\ tx_results'[x] = tx_results[x] =>
              \A l \in Loc : /\ ReadCurrent(x, l) => ReadCurrent(x, l)'
                             /\ StillValid(x, l, ts) => StillValid(x, l, ts)'
         /\ \A i, link : StillLinked(x, i, link, ts) => StillLinked(x, i, link, ts)'
<1>1. Outdated(x, ts) => Outdated(x, ts)'
  <2>1. ASSUME NEW v \in Workers, Pending(v) PROVE Pending(v)' /\ job'[v].tx = job[v].tx
    BY ZenonT(60), <2>1, PendingBusy, PendingSame
  <2> QED
    BY ZenonT(60), <2>1 DEF Outdated
<1>2. ASSUME tx_results'[x] = tx_results[x], NEW l \in Loc, ReadCurrent(x, l)
      PROVE  ReadCurrent(x, l)'
  <2>1. PICK origins \in Seq(Origin) : /\ origins = tx_results[x].reads[l].origins
                                       /\ origins = tx_results'[x].reads[l].origins
    BY ZenonT(60), <1>2 DEF TypeInv, TypeOK, TxTypeOK, TxResults, ReadSets
  <2>2. CASE l = Ben
    <3>1. BeneficiaryCurrent(x, origins)
      BY ZenonT(60), <1>2, <2>1, <2>2 DEF ReadCurrent
    <3>2. BeneficiaryCurrent(x, origins)'
      BY ZenonT(60), <3>1, HistoryStays
    <3> QED
      BY ZenonT(60), <2>1, <2>2, <3>2 DEF ReadCurrent
  <2>3. CASE l # Ben
    <3>1. MemoryCurrent(l, x, origins)
      BY ZenonT(60), <1>2, <2>1, <2>3 DEF ReadCurrent
    <3>2. MemoryCurrent(l, x, origins)'
      BY ZenonT(60), <3>1, MemoryStays
    <3> QED
      BY ZenonT(60), <2>1, <2>3, <3>2 DEF ReadCurrent
  <2> QED
    BY ZenonT(60), <2>2, <2>3
<1>3. \A i : Link(x - i)' = Link(x - i)
  BY ZenonT(60) DEF Link
<1> QED
  BY ZenonT(60), <1>1, <1>2, <1>3 DEF StillValid, StillLinked

\* Then everything holds on, but for a transaction that becomes final.
LEMMA QuietReads ==
  ASSUME TypeInv, OwnInv, ReadsInv,
         UNCHANGED <<mv_memory, history, logical_clock, lower_timestamps, unconfirmed_timestamps>>,
         NEW w, \A v \in Workers \ {w} : SameWorker(v), w \in Workers => pc[w] \notin BusyLabels,
         w \in Workers => /\ pc'[w] \notin {"scan", "confirm"}
                          /\ pc'[w] \in {"claimed", "validate"} => job'[w].chain = <<>>,
         \A v \in Workers : pc[v] \in BusyLabels => tx_results'[job[v].tx] = tx_results[job[v].tx],
         \A x \in Tx : status'[x] = "Unconfirmed" =>
           status[x] = "Unconfirmed" /\ tx_results'[x] = tx_results[x],
         \A x \in Tx : status'[x] = "Finality" =>
           \/ status[x] = "Finality" /\ tx_results'[x] = tx_results[x]
           \/ ReadLocs(tx_results'[x].reads) = {}
           \/ /\ tx_results'[x] = tx_results[x]
              /\ \A l \in ReadLocs(tx_results[x].reads) : ReadCurrent(x, l),
         \A x \in Tx : x < finality' \/ (x = finality' /\ finality_pc' = "publish") =>
           lower_timestamps[x] <= lower_ts'
  PROVE  ReadsInv'
<1>y. /\ \A v \in Workers : job[v] \in Jobs
      /\ unconfirmed_timestamps \in [Tx -> Nat]
  BY ZenonT(60) DEF TypeInv, TypeOK, ThreadTypeOK, CtxTypeOK
<1>b. ASSUME NEW v \in Workers, pc[v] \in BusyLabels
      PROVE  SameWorker(v) /\ tx_results'[job[v].tx] = tx_results[job[v].tx]
  BY ZenonT(60), <1>b
<1>s. {"scan", "confirm"} \subseteq BusyLabels
  BY ZenonT(60) DEF BusyLabels, TaskLabels, ValidateLabels
<1>q. ASSUME NEW x \in Tx, NEW ts \in Nat
      PROVE  /\ tx_results'[x] = tx_results[x] =>
                  \A l \in Loc : /\ ReadCurrent(x, l) => ReadCurrent(x, l)'
                                 /\ StillValid(x, l, ts) => StillValid(x, l, ts)'
             /\ \A i, link : StillLinked(x, i, link, ts) => StillLinked(x, i, link, ts)'
  BY ZenonT(60), <1>b, QuietValid
<1>l. \A x : ReadLocs(tx_results[x].reads) \subseteq Loc
  BY ZenonT(60) DEF ReadLocs
<1>1. TimeInv'
  <2>1. ASSUME NEW v \in Workers, pc'[v] \in {"scan", "confirm"}
        PROVE  unconfirmed_timestamps[job'[v].tx] < job'[v].ts /\ job'[v].ts < logical_clock
    BY ZenonT(60), <2>1 DEF SameWorker, ReadsInv, TimeInv
  <2> QED
    BY ZenonT(60), <2>1 DEF ReadsInv, TimeInv
<1>2. ASSUME NEW v \in Workers PROVE ScanInv(v)'
  <2>1. CASE v = w
    <3>1. pc'[v] # "scan" /\ pc'[v] # "confirm"
      BY ZenonT(60), <2>1
    <3> QED
      BY ZenonT(60), <2>1, <3>1 DEF ScanInv
  <2>2. CASE v # w
    <3>1. pc'[v] = pc[v] /\ job'[v] = job[v] /\ ScanInv(v)
      BY ZenonT(60), <2>2 DEF SameWorker, ReadsInv
    <3>2. CASE pc[v] \notin {"scan", "confirm"}
      BY ZenonT(60), <3>1, <3>2 DEF ScanInv
    <3>3. CASE pc[v] \in {"scan", "confirm"}
      <4>1. PICK t \in Tx : t = job[v].tx /\ tx_results'[t] = tx_results[t]
        BY ZenonT(60), <1>b, <1>s, <3>3, BusyNotFinal
      <4>2. PICK ts, j : ts \in Nat /\ j = job[v] /\ j = job'[v] /\ ts = j.ts /\ t = j.tx
        BY ZenonT(60), <1>y, <3>1, <4>1 DEF Jobs
      <4>3. \A l \in Loc : StillValid(t, l, ts) => StillValid(t, l, ts)'
        BY ZenonT(60), <1>q, <4>1, <4>2
      <4>4. \A i \in DOMAIN j.chain :
              StillLinked(t, i, j.chain[i], ts) => StillLinked(t, i, j.chain[i], ts)'
        BY ZenonT(60), <1>q, <4>2
      <4>5. ReadLocs(tx_results'[t].reads) = ReadLocs(tx_results[t].reads)
        BY ZenonT(60), <4>1
      <4>6. CASE pc[v] = "confirm"
        <5>1. \A l \in ReadLocs(tx_results[t].reads) : StillValid(t, l, ts)
          BY ZenonT(60), <3>1, <4>2, <4>6 DEF ScanInv
        <5>2. \A l \in ReadLocs(tx_results'[t].reads) : StillValid(t, l, ts)'
          BY ZenonT(60), <1>l, <4>3, <4>5, <5>1
        <5>3. pc'[v] \notin {"claimed", "validate", "scan"}
          BY ZenonT(60), <3>1, <4>6
        <5> QED
          BY ZenonT(60), <4>2, <5>2, <5>3 DEF ScanInv
      <4>7. CASE pc[v] = "scan"
        <5>1. ~j.conflict => /\ \A l \in ReadLocs(tx_results[t].reads) \cap j.done : StillValid(t, l, ts)
                             /\ \A i \in DOMAIN j.chain : StillLinked(t, i, j.chain[i], ts)
          BY ZenonT(60), <3>1, <4>2, <4>7 DEF ScanInv
        <5>2. ~j.conflict => /\ \A l \in ReadLocs(tx_results'[t].reads) \cap j.done : StillValid(t, l, ts)'
                             /\ \A i \in DOMAIN j.chain : StillLinked(t, i, j.chain[i], ts)'
          BY ZenonT(60), <1>l, <4>3, <4>4, <4>5, <5>1
        <5>3. pc'[v] \notin {"claimed", "validate", "confirm"}
          BY ZenonT(60), <3>1, <4>7
        <5> QED
          BY ZenonT(60), <4>2, <5>2, <5>3 DEF ScanInv
      <4> QED
        BY ZenonT(60), <3>3, <4>6, <4>7
    <3> QED
      BY ZenonT(60), <3>2, <3>3
  <2> QED
    BY ZenonT(60), <2>1, <2>2
<1>3. ASSUME NEW x \in Tx, status'[x] = "Unconfirmed", NEW l \in ReadLocs(tx_results'[x].reads)
      PROVE  StillValid(x, l, unconfirmed_timestamps[x])'
  <2>1. PICK ts \in Nat : ts = unconfirmed_timestamps[x] /\ ts = unconfirmed_timestamps'[x]
    BY ZenonT(60), <1>y
  <2>2. StillValid(x, l, ts) /\ l \in Loc /\ tx_results'[x] = tx_results[x]
    <3>1. tx_results'[x] = tx_results[x] /\ status[x] = "Unconfirmed"
      BY ZenonT(60), <1>3
    <3>2. \A k \in ReadLocs(tx_results[x].reads) : StillValid(x, k, unconfirmed_timestamps[x])
      BY ZenonT(60), <3>1 DEF ReadsInv
    <3>3. l \in Loc
      BY ZenonT(60), <1>3 DEF ReadLocs
    <3> QED
      BY ZenonT(60), <1>3, <2>1, <3>1, <3>2, <3>3
  <2>3. StillValid(x, l, ts)'
    BY ZenonT(60), <1>q, <2>2
  <2> QED
    BY ZenonT(60), <2>1, <2>3 DEF StillValid, Outdated
<1>4. FinalReadsCurrent'
  <2>1. ASSUME NEW x \in Tx, status'[x] = "Finality", NEW l \in ReadLocs(tx_results'[x].reads)
        PROVE  ReadCurrent(x, l)'
    <3>1. tx_results'[x] = tx_results[x] /\ ReadCurrent(x, l)
      BY ZenonT(60), <2>1 DEF ReadCurrent, ReadsInv, FinalReadsCurrent
    <3>2. l \in Loc /\ 0 \in Nat
      BY ZenonT(60), <2>1 DEF ReadLocs
    <3> QED
      BY ZenonT(60), <1>q, <3>1, <3>2
  <2> QED
    BY ZenonT(60), <2>1 DEF FinalReadsCurrent, ReadCurrent
<1> QED
  BY ZenonT(60), <1>1, <1>2, <1>3, <1>4 DEF ReadsInv

\* Scheduler::next and execution_task: a task starts with nothing looked at, and confirms
\* nothing.
LEMMA ScheduleReads ==
  ASSUME TypeInv, OwnInv, ReadsInv, NEW w \in Workers, ScheduleStep(w)
  PROVE  ReadsInv'
<1>l. /\ {"next", "pick", "done", "claimed", "claim", "task", "release"} \cap BusyLabels = {}
      /\ {"next", "pick", "done", "claimed", "claim", "task", "release", "execute", "validate"}
           \cap {"scan", "confirm"} = {}
  BY ZenonT(60) DEF BusyLabels, TaskLabels, ExecuteLabels, RunLabels, RecordedLabels,
     FinishLabels, ValidateLabels
<1>d. /\ Idle.chain = <<>> /\ \A x : [Idle EXCEPT !.tx = x].chain = <<>>
      /\ \A i : [job[w] EXCEPT !.incarnation = i].chain = job[w].chain
  <2>1. job[w] \in Jobs
    BY ZenonT(60) DEF TypeInv, TypeOK, ThreadTypeOK
  <2> QED
    BY ZenonT(60), <2>1 DEF Idle, Jobs
<1>0. /\ pc[w] \in {"next", "pick", "done", "claimed", "claim", "task", "release"}
      /\ UNCHANGED <<mv_memory, history, tx_results, logical_clock, lower_timestamps,
                     unconfirmed_timestamps, finality, finality_pc, lower_ts>>
  BY ZenonT(60) DEF ScheduleStep, WorkerExit, ClaimValidation, TakeValidation, AdvanceExecution,
     ClaimExecution, TakeExecution, ReleaseDependents
<1>1. PICK label, j : /\ Goto(w, label, j)
                      /\ label \in {"next", "pick", "done", "claimed", "claim", "task", "release",
                                    "execute", "validate"}
                      /\ label \in {"claimed", "validate"} => j.chain = <<>>
  <2>1. CASE WorkerExit(w) \/ AdvanceExecution(w) \/ ClaimExecution(w) \/ TakeExecution(w)
               \/ ReleaseDependents(w)
    <3>1. PICK label, j : /\ Goto(w, label, j)
                          /\ label \in {"next", "done", "claim", "task", "release", "execute"}
      BY ZenonT(60), <2>1 DEF WorkerExit, AdvanceExecution, ClaimExecution, TakeExecution,
         ReleaseDependents
    <3>2. label \notin {"claimed", "validate"}
      BY ZenonT(60), <3>1
    <3> QED
      BY ZenonT(60), <3>1, <3>2
  <2>2. CASE ClaimValidation(w)
    <3>1. Goto(w, "claimed", [Idle EXCEPT !.tx = validation])
      BY ZenonT(60), <2>2 DEF ClaimValidation
    <3> QED
      BY ZenonT(60), <1>d, <3>1
  <2>3. CASE TakeValidation(w)
    <3>1. /\ pc[w] = "claimed"
          /\ \/ \E i : Goto(w, "validate", [job[w] EXCEPT !.incarnation = i])
             \/ Goto(w, "pick", Idle)
      BY ZenonT(60), <2>3 DEF TakeValidation
    <3>2. job[w].chain = <<>>
      BY ZenonT(60), <3>1 DEF ReadsInv, ScanInv
    <3> QED
      BY ZenonT(60), <1>d, <3>1, <3>2
  <2> QED
    BY ZenonT(60), <2>1, <2>2, <2>3 DEF ScheduleStep
<1>2. /\ pc'[w] \notin {"scan", "confirm"} /\ pc[w] \notin BusyLabels
      /\ pc'[w] \in {"claimed", "validate"} => job'[w].chain = <<>>
      /\ \A v \in Workers \ {w} : SameWorker(v)
  <2>1. /\ pc'[w] = label /\ job'[w] = j
        /\ \A v \in Workers \ {w} : SameWorker(v)
    BY ZenonT(60), <1>1, GotoAt DEF SameWorker
  <2>2. label \notin {"scan", "confirm"}
    BY ZenonT(60), <1>1
  <2>3. pc[w] \notin BusyLabels
    BY ZenonT(60), <1>0, <1>l
  <2> QED
    BY ZenonT(60), <1>1, <2>1, <2>2, <2>3
<1>3. \A x \in Tx : status'[x] \in {"Unconfirmed", "Finality"} => status'[x] = status[x]
  <2>1. UNCHANGED status \/ (\E t \in Tx : SetStatus(t, "Validating") \/ SetStatus(t, "Executing"))
    <3>1. TakeValidation(w) \/ TakeExecution(w) => job[w].tx \in Tx
      <4>1. TakeValidation(w) \/ TakeExecution(w) => pc[w] \in {"claimed", "task"}
        BY ZenonT(60) DEF TakeValidation, TakeExecution
      <4>2. {"claimed", "task"} \cap IdleLabels = {}
        BY ZenonT(60) DEF IdleLabels
      <4> QED
        BY ZenonT(60), <4>1, <4>2 DEF TypeInv, BusyInv
    <3> QED
      BY ZenonT(60), <3>1 DEF ScheduleStep, WorkerExit, ClaimValidation, TakeValidation,
         AdvanceExecution, ClaimExecution, TakeExecution, ReleaseDependents
  <2>2. status \in [Tx -> Statuses]
    BY ZenonT(60) DEF TypeInv, TypeOK, TxTypeOK
  <2> QED
    BY ZenonT(60), <2>1, <2>2 DEF SetStatus
<1>4. \A x \in Tx : /\ status'[x] = "Unconfirmed" => status[x] = "Unconfirmed"
                    /\ status'[x] = "Finality" => status[x] = "Finality"
  BY ZenonT(60), <1>3
<1>5. \A x \in Tx : x < finality' \/ (x = finality' /\ finality_pc' = "publish") =>
        lower_timestamps[x] <= lower_ts'
  BY ZenonT(60), <1>0 DEF ReadsInv, TimeInv
<1> QED
  BY ZenonT(60), <1>0, <1>2, <1>4, <1>5, QuietReads

\* run_finality_loop: a validation newer than every rewind to its transaction or to one
\* before it still counts.
LEMMA NotOutdated ==
  ASSUME TypeInv, OwnInv, ReadsInv, finality \in Tx, finality_pc = "lock",
         unconfirmed_timestamps[finality] > Max(lower_ts, lower_timestamps[finality])
  PROVE  ~Outdated(finality, unconfirmed_timestamps[finality])
<1>y. /\ lower_ts \in Nat /\ lower_timestamps \in [Tx -> Nat] /\ unconfirmed_timestamps \in [Tx -> Nat]
  BY ZenonT(60) DEF TypeInv, TypeOK, CtxTypeOK, ThreadTypeOK
<1>1. /\ lower_ts < unconfirmed_timestamps[finality]
      /\ lower_timestamps[finality] < unconfirmed_timestamps[finality]
  BY <1>y DEF Max
<1>2. ASSUME NEW i \in Tx, i <= finality PROVE ~(lower_timestamps[i] > unconfirmed_timestamps[finality])
  <2>1. CASE i = finality
    BY <1>1, <1>y, <2>1
  <2>2. CASE i # finality
    <3>1. i < finality
      BY <1>2, <2>2 DEF Tx
    <3>2. lower_timestamps[i] <= lower_ts
      BY ZenonT(60), <3>1 DEF ReadsInv, TimeInv
    <3> QED
      BY <1>1, <1>y, <3>2
  <2> QED
    BY ZenonT(60), <2>1, <2>2
<1>3. ASSUME NEW v \in Workers, Pending(v), job[v].tx < finality PROVE FALSE
  <2>1. job[v].tx \in Tx /\ status[job[v].tx] # "Finality"
    BY ZenonT(60), <1>3, PendingBusy, BusyNotFinal
  <2> QED
    BY ZenonT(60), <1>3, <2>1 DEF OwnInv, TxOwn
<1> QED
  BY ZenonT(60), <1>2, <1>3 DEF Outdated

\* The finality thread makes final only what has read current versions.
LEMMA FinalityReads ==
  ASSUME TypeInv, OwnInv, ReadsInv, FinalityStep
  PROVE  ReadsInv'
<1>f. /\ UNCHANGED <<pc, job, mv_memory, history, tx_results, logical_clock,
                     lower_timestamps, unconfirmed_timestamps>>
      /\ \A x \in Tx : status'[x] # status[x] =>
           /\ status[x] = "Unconfirmed" /\ status'[x] = "Finality"
           /\ x = finality /\ finality_pc = "lock"
           /\ unconfirmed_timestamps[x] > Max(lower_ts, lower_timestamps[x])
  BY ZenonT(60), FinalityFrame
<1>y. /\ lower_ts \in Nat /\ lower_timestamps \in [Tx -> Nat] /\ finality \in Nat
  BY BlockAssumption DEF TypeInv, TypeOK, CtxTypeOK, ThreadTypeOK
<1>1. \A x \in Tx : status'[x] = "Unconfirmed" => status[x] = "Unconfirmed"
  BY ZenonT(60), <1>f
<1>2. ASSUME NEW x \in Tx, status'[x] = "Finality", status[x] # "Finality",
             NEW l \in ReadLocs(tx_results[x].reads)
      PROVE  ReadCurrent(x, l)
  <2>1. /\ x = finality /\ status[x] = "Unconfirmed"
        /\ ~Outdated(x, unconfirmed_timestamps[x])
    BY ZenonT(60), <1>2, <1>f, NotOutdated
  <2> QED
    BY ZenonT(60), <1>2, <2>1 DEF ReadsInv, StillValid
<1>3. ASSUME NEW x \in Tx, x < finality' \/ (x = finality' /\ finality_pc' = "publish")
      PROVE  lower_timestamps[x] <= lower_ts'
  <2>t. x < finality \/ (x = finality /\ finality_pc = "publish") => lower_timestamps[x] <= lower_ts
    BY ZenonT(60) DEF ReadsInv, TimeInv
  <2>1. CASE FinalityCheck
    <3>1. UNCHANGED <<finality, lower_ts>> /\ finality_pc' \in {"done", "lock", "outer"}
      BY ZenonT(60), <2>1 DEF FinalityCheck
    <3> QED
      BY ZenonT(60), <1>3, <2>t, <3>1
  <2>2. CASE FinalityLock
    <3>1. /\ UNCHANGED finality
          /\ \/ lower_ts' = Max(lower_ts, lower_timestamps[finality])
             \/ UNCHANGED lower_ts /\ finality_pc' = "outer"
      BY ZenonT(60), <2>2 DEF FinalityLock
    <3>2. CASE x = finality
      BY <1>3, <1>y, <3>1, <3>2 DEF Max
    <3>3. CASE x # finality
      <4>1. x < finality
        BY ZenonT(60), <1>3, <3>1, <3>3
      <4>2. lower_timestamps[x] <= lower_ts
        BY ZenonT(60), <2>t, <4>1
      <4>3. lower_ts <= Max(lower_ts, lower_timestamps[finality]) /\ Max(lower_ts, lower_timestamps[finality]) \in Int
        <5>1. finality \in Tx
          BY <1>y, <2>2, BlockAssumption DEF FinalityLock, TypeInv, CursorInv, Tx
        <5> QED
          BY <1>y, <5>1 DEF Max
      <4> QED
        BY <1>y, <3>1, <4>2, <4>3
    <3> QED
      BY ZenonT(60), <3>2, <3>3
  <2>3. CASE FinalityPublish
    <3>1. UNCHANGED lower_ts /\ finality' = finality + 1 /\ finality_pc = "publish" /\ finality_pc' = "inner"
      BY ZenonT(60), <2>3 DEF FinalityPublish
    <3>2. x < finality \/ x = finality
      BY <1>3, <1>y, <3>1 DEF Tx
    <3> QED
      BY ZenonT(60), <2>t, <3>1, <3>2
  <2> QED
    BY ZenonT(60), <2>1, <2>2, <2>3 DEF FinalityStep
<1>4. NoOne \notin Workers
  BY ZenonT(60), ThreadAssumption
<1>5. \A v \in Workers : SameWorker(v)
  BY ZenonT(60), <1>f DEF SameWorker
<1> QED
  BY ZenonT(60), <1>1, <1>2, <1>3, <1>4, <1>5, <1>f, QuietReads

\* run_commit_loop: the result of a committed transaction is gone.
LEMMA CommitReads ==
  ASSUME TypeInv, OwnInv, ReadsInv, CommitStep
  PROVE  ReadsInv'
<1>f. /\ UNCHANGED <<pc, job, mv_memory, history, status, logical_clock,
                     lower_timestamps, unconfirmed_timestamps, finality, finality_pc, lower_ts>>
      /\ \A x \in Tx : tx_results'[x] # tx_results[x] =>
           status[x] = "Finality" /\ tx_results'[x] = NoResult
  BY ZenonT(60), CommitFrame
<1>1. ReadLocs(NoResult.reads) = {}
  <2>1. NoResult.reads = NoReads
    BY ZenonT(60) DEF NoResult
  <2>2. \A l \in Loc : ~NoReads[l].read
    BY ZenonT(60) DEF NoReads, NotRead
  <2> QED
    BY ZenonT(60), <2>1, <2>2 DEF ReadLocs
<1>2. \A v \in Workers : pc[v] \in BusyLabels => tx_results'[job[v].tx] = tx_results[job[v].tx]
  BY ZenonT(60), <1>f, BusyNotFinal
<1>3. \A x \in Tx : status'[x] = "Unconfirmed" =>
        status[x] = "Unconfirmed" /\ tx_results'[x] = tx_results[x]
  BY ZenonT(60), <1>f
<1>4. \A x \in Tx : status'[x] = "Finality" =>
        \/ status[x] = "Finality" /\ tx_results'[x] = tx_results[x]
        \/ ReadLocs(tx_results'[x].reads) = {}
  BY ZenonT(60), <1>1, <1>f
<1>5. \A x \in Tx : x < finality' \/ (x = finality' /\ finality_pc' = "publish") =>
        lower_timestamps[x] <= lower_ts'
  BY ZenonT(60), <1>f DEF ReadsInv, TimeInv
<1>6. NoOne \notin Workers
  BY ZenonT(60), ThreadAssumption
<1>7. \A v \in Workers : SameWorker(v)
  BY ZenonT(60), <1>f DEF SameWorker
<1> QED
  BY ZenonT(60), <1>2, <1>3, <1>4, <1>5, <1>6, <1>7, <1>f, QuietReads

\* Every step of the scheduler.
LEMMA ReadsStep ==
  ASSUME Ownership, MemoryInv, ReadsInv, [Next]_vars
  PROVE  ReadsInv'
<1>0. TypeInv /\ OwnInv
  BY ZenonT(60) DEF Ownership
<1>1. ASSUME NEW w \in Workers, WorkerStep(w) PROVE ReadsInv'
  BY ZenonT(60), <1>0, <1>1, ScheduleReads, OwnerReads DEF WorkerStep
<1>2. CASE FinalityStep
  BY ZenonT(60), <1>0, <1>2, FinalityReads
<1>3. CASE CommitStep
  BY ZenonT(60), <1>0, <1>3, CommitReads
<1>4. CASE CallerStep \/ Finished \/ UNCHANGED vars
  <2>1. UNCHANGED <<pc, job, mv_memory, history, status, tx_results, logical_clock,
                    lower_timestamps, unconfirmed_timestamps, finality, finality_pc, lower_ts>>
    BY ZenonT(60), <1>4 DEF CallerStep, PostExecute, ReplayTx, ReplayEnd, Finished, vars
  <2>2. \A x \in Tx : x < finality' \/ (x = finality' /\ finality_pc' = "publish") =>
          lower_timestamps[x] <= lower_ts'
    BY ZenonT(60), <2>1 DEF ReadsInv, TimeInv
  <2>3. NoOne \notin Workers
    BY ZenonT(60), ThreadAssumption
  <2>4. \A v \in Workers : SameWorker(v)
    BY ZenonT(60), <2>1 DEF SameWorker
  <2> QED
    BY ZenonT(60), <1>0, <2>1, <2>2, <2>3, <2>4, QuietReads
<1> QED
  BY ZenonT(60), <1>1, <1>2, <1>3, <1>4 DEF Next

\* At the start nothing has been read.
LEMMA ReadsInitially == Init => ReadsInv
<1> SUFFICES ASSUME Init PROVE ReadsInv
  BY ZenonT(60)
<1>1. /\ \A x \in Tx : status[x] = "Initial"
      /\ \A w \in Workers : pc[w] = "next"
      /\ logical_clock \in Nat /\ logical_clock > 0
      /\ \A x \in Tx : lower_timestamps[x] = 0 /\ unconfirmed_timestamps[x] = 0
      /\ lower_ts \in Nat
  BY DEF Init, CtxInit
<1>2. TimeInv
  BY <1>1 DEF TimeInv
<1>3. \A w \in Workers : ScanInv(w)
  BY ZenonT(60), <1>1 DEF ScanInv
<1>4. FinalReadsCurrent
  BY ZenonT(60), <1>1 DEF FinalReadsCurrent
<1> QED
  BY ZenonT(60), <1>1, <1>2, <1>3, <1>4 DEF ReadsInv

-----------------------------------------------------------------------------
(* Alone on a state, an execution has one result                           *)

\* The sets of locations an execution on the state st has read along the way to vals.
Reached(t, st, vals, path) ==
  /\ path \subseteq SUBSET DOMAIN vals /\ DOMAIN vals \in path
  /\ \A l \in DOMAIN vals : vals[l] = st[l]
  /\ \A D \in path : D # {} =>
       \E l \in D : D \ {l} \in path /\ Asks(t, Restricted(st, D \ {l}), l)

\* Every execution alone on a state reads along such a path.
LEMMA RunReached ==
  ASSUME NEW t, NEW st, NEW vals \in Readings, Run(t, st, vals)
  PROVE  \E path : Reached(t, st, vals, path)
<1>1. PICK path \in SUBSET SUBSET DOMAIN vals :
        /\ DOMAIN vals \in path
        /\ \A D \in path : D # {} =>
             \E l \in D : D \ {l} \in path /\ Asks(t, Restricted(vals, D \ {l}), l)
  BY ZenonT(60) DEF Run, Asked
<1>2. \A l \in DOMAIN vals : vals[l] = st[l]
  BY ZenonT(60) DEF Run
<1>3. \A D \in path : \A l : Restricted(vals, D \ {l}) = Restricted(st, D \ {l})
  <2>1. \A D \in path : \A l : \A x \in D \ {l} : vals[x] = st[x]
    BY ZenonT(60), <1>1, <1>2
  <2> QED
    BY ZenonT(60), <2>1 DEF Restricted
<1>4. \A D \in path : D # {} =>
        \E l \in D : D \ {l} \in path /\ Asks(t, Restricted(st, D \ {l}), l)
  BY ZenonT(60), <1>1, <1>3
<1> QED
  BY ZenonT(60), <1>1, <1>2, <1>4 DEF Reached

\* Of any sets of locations, one contains none of the others.
LocsOrdered ==
  \A P \in SUBSET SUBSET Loc : P # {} =>
    \E D \in P : \A E \in P : E \subseteq D => E = D

\* A path is made of sets of locations.
LEMMA PathLocs ==
  ASSUME NEW t, NEW st, NEW vals \in Readings, NEW path, Reached(t, st, vals, path)
  PROVE  path \subseteq SUBSET Loc
<1>1. DOMAIN vals \subseteq Loc
  BY ZenonT(60) DEF Readings
<1> QED
  BY ZenonT(60), <1>1 DEF Reached

\* Two executions on one state read the same locations, as far as both have come.
Comparable(A, B) == A \subseteq B \/ B \subseteq A

\* Of any two points on their paths, one is a part of the other: where they differ first,
\* the EVM would have to ask for two locations at once.
LEMMA ReachedAlike ==
  ASSUME LocsOrdered, NEW t, NEW st, NEW a \in Readings, NEW b \in Readings,
         NEW pathA, NEW pathB, Reached(t, st, a, pathA), Reached(t, st, b, pathB)
  PROVE  \A A \in pathA, B \in pathB : Comparable(A, B)
<1> SUFFICES ASSUME NEW A0 \in pathA, NEW B0 \in pathB, ~Comparable(A0, B0) PROVE FALSE
  BY ZenonT(60)
<1> DEFINE Apart == {A \in pathA : \E B \in pathB : ~Comparable(A, B)}
<1>1. PICK A \in Apart : \A E \in Apart : E \subseteq A => E = A
  <2>1. Apart \in SUBSET SUBSET Loc /\ A0 \in Apart
    BY ZenonT(60), PathLocs
  <2> HIDE DEF Apart
  <2> QED
    BY ZenonT(60), <2>1 DEF LocsOrdered
<1> DEFINE Others == {B \in pathB : ~Comparable(A, B)}
<1>2. PICK B \in Others : \A E \in Others : E \subseteq B => E = B
  <2>1. Others \in SUBSET SUBSET Loc /\ Others # {}
    BY ZenonT(60), <1>1, PathLocs
  <2> HIDE DEF Others
  <2> QED
    BY ZenonT(60), <2>1 DEF LocsOrdered
<1>3. A \in pathA /\ B \in pathB /\ ~Comparable(A, B) /\ A # {} /\ B # {}
  BY ZenonT(60), <1>1, <1>2 DEF Comparable
<1>4. PICK k \in A : A \ {k} \in pathA /\ Asks(t, Restricted(st, A \ {k}), k)
  BY ZenonT(60), <1>3 DEF Reached
<1>5. PICK l \in B : B \ {l} \in pathB /\ Asks(t, Restricted(st, B \ {l}), l)
  BY ZenonT(60), <1>3 DEF Reached
<1>6. Comparable(A \ {k}, B)
  <2>1. A \ {k} \notin Apart
    BY ZenonT(60), <1>1, <1>4
  <2> QED
    BY ZenonT(60), <1>3, <1>4, <2>1
<1>7. Comparable(A, B \ {l})
  <2>1. B \ {l} \notin Others
    BY ZenonT(60), <1>2, <1>5
  <2> QED
    BY ZenonT(60), <1>5, <2>1
<1> HIDE DEF Apart, Others
<1>8. A \ {k} = B \ {l}
  BY ZenonT(60), <1>3, <1>6, <1>7 DEF Comparable
<1>9. k = l
  BY ZenonT(60), <1>4, <1>5, <1>8 DEF Asks
<1>10. A \subseteq B
  BY ZenonT(60), <1>8, <1>9
<1> QED
  BY ZenonT(60), <1>3, <1>10 DEF Comparable

\* The longer of two executions that end would have read on where the shorter ended.
LEMMA ReachedWhole ==
  ASSUME LocsOrdered, NEW t, NEW st, NEW a \in Readings, NEW b \in Readings,
         NEW pathA, NEW pathB, Reached(t, st, a, pathA), Reached(t, st, b, pathB),
         Evm(t, a).op # "read", DOMAIN a \subseteq DOMAIN b
  PROVE  DOMAIN b = DOMAIN a
<1> SUFFICES ASSUME DOMAIN b # DOMAIN a PROVE FALSE
  BY ZenonT(60)
<1> DEFINE Beyond == {B \in pathB : DOMAIN a \subseteq B /\ B # DOMAIN a}
<1>1. PICK B \in Beyond : \A E \in Beyond : E \subseteq B => E = B
  <2>1. Beyond \in SUBSET SUBSET Loc
    BY ZenonT(60), PathLocs
  <2>2. DOMAIN b \in Beyond
    BY ZenonT(60) DEF Reached
  <2> HIDE DEF Beyond
  <2> QED
    BY ZenonT(60), <2>1, <2>2 DEF LocsOrdered
<1>2. B \in pathB /\ DOMAIN a \subseteq B /\ B # DOMAIN a /\ B # {}
  BY ZenonT(60), <1>1
<1>4. PICK l \in B : B \ {l} \in pathB /\ Asks(t, Restricted(st, B \ {l}), l)
  BY ZenonT(60), <1>2 DEF Reached
<1>5. B \ {l} \notin Beyond
  BY ZenonT(60), <1>1, <1>4
<1>6. Comparable(DOMAIN a, B \ {l})
  <2>1. DOMAIN a \in pathA
    BY ZenonT(60) DEF Reached
  <2> QED
    BY ZenonT(60), <1>4, <2>1, ReachedAlike
<1>7. B \ {l} = DOMAIN a
  BY ZenonT(60), <1>2, <1>4, <1>5, <1>6 DEF Comparable
<1>8. Restricted(st, DOMAIN a) = a
  <2>1. \A x \in DOMAIN a : a[x] = st[x]
    BY ZenonT(60) DEF Reached
  <2>2. a = [x \in DOMAIN a |-> a[x]]
    BY ZenonT(60) DEF Readings
  <2> QED
    BY ZenonT(60), <2>1, <2>2 DEF Restricted
<1> QED
  BY ZenonT(60), <1>4, <1>7, <1>8 DEF Asks

\* A transaction that runs alone on a state to its end reads the same values every time.
LEMMA RunUnique ==
  ASSUME LocsOrdered, NEW t, NEW st, NEW a \in Readings, NEW b \in Readings,
         Run(t, st, a), Run(t, st, b)
  PROVE  a = b
<1>1. PICK pathA : Reached(t, st, a, pathA)
  BY ZenonT(60), RunReached
<1>2. PICK pathB : Reached(t, st, b, pathB)
  BY ZenonT(60), RunReached
<1>3. Evm(t, a).op # "read" /\ Evm(t, b).op # "read"
  BY ZenonT(60) DEF Run
<1>4. Comparable(DOMAIN a, DOMAIN b)
  <2>1. DOMAIN a \in pathA /\ DOMAIN b \in pathB
    BY ZenonT(60), <1>1, <1>2 DEF Reached
  <2> QED
    BY ZenonT(60), <1>1, <1>2, <2>1, ReachedAlike
<1>5. DOMAIN a = DOMAIN b
  BY ZenonT(60), <1>1, <1>2, <1>3, <1>4, ReachedWhole DEF Comparable
<1>6. \A x \in DOMAIN a : a[x] = b[x]
  BY ZenonT(60), <1>5 DEF Run
<1> QED
  BY <1>5, <1>6 DEF Readings
=============================================================================
