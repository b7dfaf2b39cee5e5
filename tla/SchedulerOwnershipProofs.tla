---------------------- MODULE SchedulerOwnershipProofs ----------------------
(***************************************************************************)
(* A transaction has one owner at a time, which drives its current         *)
(* incarnation; what is final stays as it is; state, outcomes and error    *)
(* describe one prefix; and every entry of the memory is one its           *)
(* transaction still answers for.  The steps keep it so, for every block,  *)
(* any number of workers and every EVM.                                    *)
(***************************************************************************)
EXTENDS SchedulerLemmas

USE DEF ctxVars, depVars, specVars, txVars, blockVars, workerVars, finalityVars

\* A step of worker w about transaction t.
OnlyAt(w, t) ==
  /\ \A v \in Workers \ {w} : pc'[v] = pc[v] /\ job'[v] = job[v]
  /\ \A x \in Tx \ {t} :
       /\ status'[x] = status[x]
       /\ incarnation'[x] = incarnation[x]
       /\ holder'[x] = holder[x]
       /\ history'[x] = history[x]
       /\ tx_results'[x] = tx_results[x]
  /\ UNCHANGED <<finality, committed, finality_pc, commit_pc>>

\* The worker is the only one in the middle of t, so the others rely on
\* nothing the step changes.
LEMMA OwnStep ==
  ASSUME TypeInv, TypeInv', OwnInv, NEW w \in Workers, NEW t \in Tx, OnlyAt(w, t),
         pc[w] \in BusyLabels => job[w].tx = t,
         pc'[w] \in BusyLabels => job'[w].tx = t,
         \A v \in Workers \ {w} : pc[v] \in BusyLabels => job[v].tx # t,
         WorkerOwn(w)', TxOwn(t)'
  PROVE  OwnInv'
<1>1. ASSUME NEW v \in Workers PROVE WorkerOwn(v)'
  <2>1. CASE v = w
    BY ZenonT(60), <2>1
  <2>2. CASE v # w
    <3> SUFFICES ASSUME pc'[v] \in BusyLabels PROVE WorkerOwn(v)'
      BY ZenonT(60) DEF WorkerOwn
    <3>1. pc'[v] = pc[v] /\ job'[v] = job[v]
      BY ZenonT(60), <2>2 DEF OnlyAt
    <3>2. job[v].tx \in Tx /\ job[v].tx # t
      BY ZenonT(60), <2>2, <3>1 DEF TypeInv, BusyInv, BusyLabels, TaskLabels, ExecuteLabels,
         RunLabels, RecordedLabels, FinishLabels, ValidateLabels, IdleLabels
    <3>3. WorkerOwn(v)
      BY ZenonT(60) DEF OwnInv
    <3> QED
      BY SMTT(60), <3>1, <3>2, <3>3 DEF OnlyAt, WorkerOwn
  <2> QED
    BY ZenonT(60), <2>1, <2>2
<1>2. ASSUME NEW x \in Tx PROVE TxOwn(x)'
  <2>1. CASE x = t
    BY ZenonT(60), <2>1
  <2>2. CASE x # t
    <3>1. TxOwn(x)
      BY ZenonT(60) DEF OwnInv
    <3>2. holder[x] # NoOne =>
            /\ holder[x] \in Workers \ {w}
            /\ pc'[holder[x]] = pc[holder[x]]
            /\ job'[holder[x]] = job[holder[x]]
      <4>1. holder[x] \in Workers \cup {NoOne}
        BY ZenonT(60) DEF TypeInv, TypeOK, TxTypeOK
      <4>2. holder[x] # w
        BY ZenonT(60), <2>2, <3>1, ThreadAssumption DEF TxOwn, LockedLabels
      <4> QED
        BY ZenonT(60), <4>1, <4>2 DEF OnlyAt
    <3> QED
      BY ZenonT(60), <2>2, <3>1, <3>2 DEF OnlyAt, TxOwn, Uncommitted
  <2> QED
    BY ZenonT(60), <2>1, <2>2
<1>3. ASSUME NEW u \in Workers, NEW v \in Workers, pc'[u] \in BusyLabels,
             pc'[v] \in BusyLabels, job'[u].tx = job'[v].tx
      PROVE  u = v
  BY SMTT(60), <1>3 DEF OnlyAt, OwnInv
<1> QED
  BY ZenonT(60), <1>1, <1>2, <1>3 DEF OwnInv

\* A step outside any task.
LEMMA IdleOwn ==
  ASSUME TypeInv, TypeInv', OwnInv, NEW w \in Workers, NEW label, NEW j,
         Goto(w, label, j), pc[w] \notin BusyLabels, label \notin BusyLabels,
         UNCHANGED <<txVars, history, finality, committed, finality_pc, commit_pc>>
  PROVE  OwnInv'
<1>1. /\ pc'[w] = label
      /\ \A v \in Workers \ {w} : pc'[v] = pc[v] /\ job'[v] = job[v]
  BY ZenonT(60), GotoAt
<1>2. ASSUME NEW v \in Workers PROVE WorkerOwn(v)'
  BY SMTT(60), <1>1 DEF WorkerOwn, OwnInv
<1>3. ASSUME NEW x \in Tx PROVE TxOwn(x)'
  <2>1. TxOwn(x) /\ holder[x] \in Workers \cup {NoOne}
    BY ZenonT(60) DEF OwnInv, TypeInv, TypeOK, TxTypeOK
  <2>2. holder[x] # NoOne => holder[x] # w
    BY ZenonT(60), <2>1 DEF TxOwn, LockedLabels
  <2> QED
    BY ZenonT(60), <1>1, <2>1, <2>2 DEF TxOwn, Uncommitted
<1>4. ASSUME NEW u \in Workers, NEW v \in Workers, pc'[u] \in BusyLabels,
             pc'[v] \in BusyLabels, job'[u].tx = job'[v].tx
      PROVE  u = v
  BY ZenonT(60), <1>1, <1>4 DEF OwnInv
<1> QED
  BY ZenonT(60), <1>2, <1>3, <1>4 DEF OwnInv

\* A step within a task that changes nothing the ownership is about.
LEMMA LocalOwn ==
  ASSUME TypeInv, TypeInv', OwnInv, NEW w \in Workers,
         \A v \in Workers \ {w} : pc'[v] = pc[v] /\ job'[v] = job[v],
         job'[w].tx = job[w].tx, job'[w].incarnation = job[w].incarnation,
         \/ pc[w] \in {"run", "backing"} /\ pc'[w] \in {"run", "backing"}
         \/ /\ pc[w] \in {"depend", "key"} /\ pc'[w] = "executed"
            /\ job'[w].conflict = job[w].conflict
         \/ pc[w] = "stamp" /\ pc'[w] = "rewind"
         \/ /\ pc[w] \in ValidateLabels \ {"validate"}
            /\ pc'[w] \in ValidateLabels \ {"validate"},
         UNCHANGED <<txVars, history, finality, committed, finality_pc, commit_pc>>
  PROVE  OwnInv'
<1>2. pc[w] \in LockedLabels /\ pc'[w] \in LockedLabels
  BY ZenonT(60) DEF LockedLabels, BusyLabels, TaskLabels, ExecuteLabels, RunLabels,
         RecordedLabels, FinishLabels, ValidateLabels
<1>3. job[w].tx \in Tx
  BY ZenonT(60), <1>2 DEF TypeInv, BusyInv, LockedLabels, BusyLabels, TaskLabels, ExecuteLabels,
     RunLabels, RecordedLabels, FinishLabels, ValidateLabels, IdleLabels
<1>t. PICK t \in Tx : t = job[w].tx
  BY ZenonT(60), <1>3
<1>4. OnlyAt(w, t)
  BY ZenonT(60) DEF OnlyAt
<1>5. WorkerOwn(w)'
  <2>1. WorkerOwn(w)
    BY ZenonT(60) DEF OwnInv
  <2> QED
    BY ZenonT(60), <1>2, <2>1 DEF WorkerOwn, LockedLabels, BusyLabels, TaskLabels,
       ExecuteLabels, RunLabels, RecordedLabels, FinishLabels, ValidateLabels
<1>6. TxOwn(t)'
  <2>1. TxOwn(t) /\ holder[t] = w
    BY ZenonT(60), <1>2, <1>t DEF OwnInv, WorkerOwn, LockedLabels
  <2> QED
    BY ZenonT(60), <1>2, <1>t, <2>1 DEF TxOwn, Uncommitted
<1>7. \A v \in Workers \ {w} : pc[v] \in BusyLabels => job[v].tx # t
  BY ZenonT(60), <1>2, <1>t DEF OwnInv, LockedLabels
<1> QED
  BY ZenonT(60), <1>t, <1>4, <1>5, <1>6, <1>7, OwnStep

\* Scheduler::next and execution_task: a claim becomes a task only under the
\* lock and from a status that no other task has.
LEMMA ScheduleOwn ==
  ASSUME TypeInv, TypeInv', OwnInv, NEW w \in Workers, ScheduleStep(w)
  PROVE  OwnInv' /\ UNCHANGED abort_reason
<1> DEFINE t == job[w].tx
<1>l. /\ {"next", "pick", "done", "claimed", "claim", "task", "release"}
           \cap BusyLabels = {}
      /\ {"execute", "validate"} \subseteq TaskLabels
      /\ TaskLabels \subseteq BusyLabels
      /\ {"execute", "validate"} \cap LockedLabels = {}
  BY ZenonT(60) DEF LockedLabels, BusyLabels, TaskLabels, ExecuteLabels, RunLabels,
         RecordedLabels, FinishLabels, ValidateLabels
<1>1. CASE WorkerExit(w)
  BY ZenonT(60), <1>1, <1>l, IdleOwn DEF WorkerExit
<1>2. CASE ClaimValidation(w)
  BY ZenonT(60), <1>2, <1>l, IdleOwn DEF ClaimValidation
<1>t. pc[w] \in {"claimed", "task"} => t \in Tx
  BY ZenonT(60) DEF TypeInv, BusyInv, IdleLabels
<1>c. ASSUME NEW label \in {"validate", "execute"}, NEW j, Goto(w, label, j),
             pc[w] \in {"claimed", "task"}, OnlyAt(w, t), j.tx = t, Free(t),
             status[t] \notin {"Executing", "Validating"}, UNCHANGED holder,
             WorkerOwn(w)', TxOwn(t)'
      PROVE  OwnInv'
  <2>1. pc'[w] = label /\ job'[w] = j
    BY ZenonT(60), <1>c, GotoIs
  <2>2. \A v \in Workers : pc[v] \in BusyLabels => job[v].tx # t
    BY ZenonT(60), <1>c, <1>t, NoOwner
  <2> QED
    BY ZenonT(60), <1>c, <1>l, <1>t, <2>1, <2>2, OwnStep
<1>3. CASE TakeValidation(w)
  <2>1. CASE status[t] \notin {"Executed", "Unconfirmed"}
    BY ZenonT(60), <1>3, <1>l, <2>1, IdleOwn DEF TakeValidation
  <2>2. CASE status[t] \in {"Executed", "Unconfirmed"}
    <3> DEFINE j == [job[w] EXCEPT !.incarnation = incarnation[t]]
    <3>1. /\ pc[w] = "claimed" /\ Free(t)
          /\ status' = [status EXCEPT ![t] = "Validating"]
          /\ Goto(w, "validate", j)
          /\ UNCHANGED <<incarnation, holder, history, tx_results, finality, committed,
                         finality_pc, commit_pc, abort_reason>>
      BY ZenonT(60), <1>3, <2>2 DEF TakeValidation, SetStatus
    <3>2. t \in Tx /\ j.tx = t /\ j.incarnation = incarnation[t]
      BY ZenonT(60), <1>t, <3>1 DEF TypeInv, TypeOK, ThreadTypeOK, Jobs
    <3>3. /\ pc'[w] = "validate" /\ job'[w] = j
          /\ \A v \in Workers \ {w} : pc'[v] = pc[v] /\ job'[v] = job[v]
      BY ZenonT(60), <3>1, GotoAt
    <3>4. status'[t] = "Validating" /\ \A x \in Tx \ {t} : status'[x] = status[x]
      BY ZenonT(60), <3>1, <3>2 DEF TypeInv, TypeOK, TxTypeOK
    <3>5. OnlyAt(w, t)
      BY ZenonT(60), <3>1, <3>3, <3>4 DEF OnlyAt
    <3>6. WorkerOwn(w)'
      <4>1. job'[w].tx = t /\ job'[w].incarnation = incarnation[t]
        BY ZenonT(60), <3>2, <3>3
      <4> QED
        BY ZenonT(60), <1>l, <3>1, <3>3, <3>4, <4>1, ThreadAssumption DEF WorkerOwn, Free,
           ExecuteLabels, RunLabels, RecordedLabels, FinishLabels
    <3>7. TxOwn(t)'
      <4>1. TxOwn(t)
        BY ZenonT(60), <3>2 DEF OwnInv
      <4> QED
        BY ZenonT(60), <2>2, <3>1, <3>2, <3>3, <3>4, <4>1 DEF TxOwn, Free
    <3> QED
      BY ZenonT(60), <1>c, <2>2, <3>1, <3>2, <3>5, <3>6, <3>7
  <2> QED
    BY ZenonT(60), <2>1, <2>2
<1>4. CASE AdvanceExecution(w)
  BY ZenonT(60), <1>4, <1>l, IdleOwn DEF AdvanceExecution
<1>5. CASE ClaimExecution(w)
  BY ZenonT(60), <1>5, <1>l, IdleOwn DEF ClaimExecution
<1>6. CASE TakeExecution(w)
  <2>1. CASE status[t] \notin {"Initial", "Conflict"}
    BY ZenonT(60), <1>6, <1>l, <2>1, IdleOwn DEF TakeExecution
  <2>2. CASE status[t] \in {"Initial", "Conflict"}
    <3> DEFINE j == [job[w] EXCEPT !.incarnation = incarnation[t] + 1]
    <3>1. /\ pc[w] = "task" /\ Free(t)
          /\ status' = [status EXCEPT ![t] = "Executing"]
          /\ incarnation' = [incarnation EXCEPT ![t] = @ + 1]
          /\ Goto(w, "execute", j)
          /\ UNCHANGED <<holder, history, tx_results, finality, committed,
                         finality_pc, commit_pc, abort_reason>>
      BY ZenonT(60), <1>6, <2>2 DEF TakeExecution, SetStatus
    <3>2. t \in Tx /\ j.tx = t /\ j.incarnation = incarnation[t] + 1
      BY ZenonT(60), <1>t, <3>1 DEF TypeInv, TypeOK, ThreadTypeOK, Jobs
    <3>3. /\ pc'[w] = "execute" /\ job'[w] = j
          /\ \A v \in Workers \ {w} : pc'[v] = pc[v] /\ job'[v] = job[v]
      BY ZenonT(60), <3>1, GotoAt
    <3>4. /\ status'[t] = "Executing" /\ incarnation'[t] = incarnation[t] + 1
          /\ \A x \in Tx \ {t} : status'[x] = status[x] /\ incarnation'[x] = incarnation[x]
      BY ZenonT(60), <3>1, <3>2 DEF TypeInv, TypeOK, TxTypeOK
    <3>5. OnlyAt(w, t)
      BY ZenonT(60), <3>1, <3>3, <3>4 DEF OnlyAt
    <3>h. /\ history[t].incarnation \in Nat /\ incarnation[t] \in Nat
          /\ history[t].incarnation <= incarnation[t]
      BY ZenonT(60), <3>2 DEF TypeInv, TypeOK, TxTypeOK, HistoryTypeOK, OwnInv, TxOwn
    <3>i. history[t].incarnation < incarnation[t] + 1
      BY SMTT(60), <3>h
    <3>6. WorkerOwn(w)'
      <4>1. job'[w].tx = t /\ job'[w].incarnation = incarnation'[t]
        BY ZenonT(60), <3>2, <3>3, <3>4
      <4> QED
        BY ZenonT(60), <1>l, <3>1, <3>3, <3>4, <3>i, <4>1, ThreadAssumption DEF WorkerOwn, Free,
           ValidateLabels, RecordedLabels, FinishLabels
    <3>7. TxOwn(t)'
      <4>1. history[t].incarnation <= incarnation[t] + 1
        BY SMTT(60), <3>h
      <4>2. TxOwn(t)
        BY ZenonT(60), <3>2 DEF OwnInv
      <4>3. holder'[t] = NoOne /\ history' = history /\ finality' = finality
              /\ finality_pc' = finality_pc
        BY ZenonT(60), <3>1 DEF Free
      <4>4. ~(t < finality \/ (t = finality /\ finality_pc = "publish"))
        BY ZenonT(60), <2>2, <4>2 DEF TxOwn
      <4>5. status'[t] = "Executing" /\ history'[t].incarnation <= incarnation'[t]
        BY ZenonT(60), <3>4, <4>1, <4>3
      <4>6. ~(t < finality' \/ (t = finality' /\ finality_pc' = "publish"))
        BY ZenonT(60), <4>3, <4>4
      <4>7. job'[w].tx = job[w].tx
        BY ZenonT(60), <3>2, <3>3
      <4> HIDE DEF j
      <4> QED
        BY ZenonT(60), <4>3, <4>5, <4>6, <4>7 DEF TxOwn
    <3> QED
      BY ZenonT(60), <1>c, <2>2, <3>1, <3>2, <3>5, <3>6, <3>7
  <2> QED
    BY ZenonT(60), <2>1, <2>2
<1>7. CASE ReleaseDependents(w)
  BY ZenonT(60), <1>7, <1>l, IdleOwn DEF ReleaseDependents
<1> QED
  BY ZenonT(60), <1>1, <1>2, <1>3, <1>4, <1>5, <1>6, <1>7 DEF ScheduleStep

-----------------------------------------------------------------------------
(* execute_task                                                            *)

\* A step of the owner of t.
LEMMA BusyOwn ==
  ASSUME TypeInv, TypeInv', OwnInv, NEW w \in Workers, NEW t \in Tx, t = job[w].tx,
         pc[w] \in BusyLabels, NEW label, NEW j, Goto(w, label, j),
         label \in BusyLabels => j.tx = t,
         \A x \in Tx \ {t} :
           /\ status'[x] = status[x]
           /\ incarnation'[x] = incarnation[x]
           /\ holder'[x] = holder[x]
           /\ history'[x] = history[x]
           /\ tx_results'[x] = tx_results[x],
         UNCHANGED <<finality, committed, finality_pc, commit_pc>>,
         WorkerOwn(w)', TxOwn(t)'
  PROVE  OwnInv'
<1>1. /\ pc'[w] = label
      /\ job'[w] = j
      /\ \A v \in Workers \ {w} : pc'[v] = pc[v] /\ job'[v] = job[v]
  BY ZenonT(60), GotoAt
<1>2. OnlyAt(w, t)
  BY ZenonT(60), <1>1 DEF OnlyAt
<1>3. \A v \in Workers \ {w} : pc[v] \in BusyLabels => job[v].tx # t
  BY ZenonT(60) DEF OwnInv
<1> QED
  BY ZenonT(60), <1>1, <1>2, <1>3, OwnStep

\* execute_task: the owner finds the status and the incarnation it set, its
\* record in the beneficiary history is accepted, and what it leaves behind
\* is what the new status promises.
LEMMA ExecuteOwn ==
  ASSUME TypeInv, TypeInv', OwnInv, NoParallelError, NEW w \in Workers, ExecuteStep(w)
  PROVE  OwnInv' /\ NoParallelError'
<1>p. pc[w] \in ExecuteLabels \cup FinishLabels
  BY ZenonT(60) DEF ExecuteStep, BeginExecution, ReadMemory, ReadBacking, ReadBeneficiary,
     PublishWrite, PruneWrite, RecordExecution, MarkFailedWrite, RecordFailure, Failed,
     Depend, HoldKeyTx, FinishExecution, StampExecution, RewindExecution,
     ExecuteLabels, RunLabels, RecordedLabels, FinishLabels
<1>b. pc[w] \in BusyLabels
  BY ZenonT(60), <1>p DEF BusyLabels, TaskLabels
<1>0. job[w].tx \in Tx
  BY ZenonT(60), <1>p DEF TypeInv, BusyInv, ExecuteLabels, RunLabels, RecordedLabels, FinishLabels,
     IdleLabels
<1>t. PICK t \in Tx : t = job[w].tx
  BY ZenonT(60), <1>0
<1>w. WorkerOwn(w) /\ TxOwn(t)
  BY ZenonT(60) DEF OwnInv
<1>y. /\ status \in [Tx -> Statuses]
      /\ incarnation \in [Tx -> Nat]
      /\ holder \in [Tx -> Workers \cup {NoOne}]
      /\ tx_results \in [Tx -> TxResults]
      /\ history \in [Tx -> [incarnation : Nat, value : Effects]]
      /\ job[w] \in Jobs
  BY ZenonT(60) DEF TypeInv, TypeOK, TxTypeOK, HistoryTypeOK, ThreadTypeOK
<1>l. /\ {"run", "depend", "key", "executed", "stamp", "rewind"} \subseteq LockedLabels
      /\ {"execute", "validate", "next", "task"} \cap LockedLabels = {}
      /\ {"next", "task"} \cap BusyLabels = {}
      /\ LockedLabels \subseteq BusyLabels
  BY ZenonT(60) DEF LockedLabels, BusyLabels, TaskLabels, ExecuteLabels, RunLabels,
     RecordedLabels, FinishLabels, ValidateLabels
<1>n. UNCHANGED abort_reason => NoParallelError'
  BY ZenonT(60) DEF NoParallelError
<1>1. CASE BeginExecution(w)
  <2>1. pc[w] = "execute" /\ status[t] = "Executing" /\ incarnation[t] = job[w].incarnation
        /\ history[t].incarnation < incarnation[t] /\ holder[t] # w
    BY ZenonT(60), <1>1, <1>t, <1>w, <1>b DEF BeginExecution, WorkerOwn, ExecuteLabels, RunLabels,
       TaskLabels, LockedLabels
  <2>2. /\ holder' = [holder EXCEPT ![t] = w]
        /\ Goto(w, "run", job[w])
        /\ UNCHANGED <<abort_reason, history, status, incarnation, tx_results, finality,
                       committed, finality_pc, commit_pc>>
    BY ZenonT(60), <1>1, <1>t, <2>1 DEF BeginExecution, Lock
  <2>3. pc'[w] = "run" /\ job'[w] = job[w]
    BY ZenonT(60), <2>2, GotoIs
  <2>4. holder'[t] = w /\ \A x \in Tx \ {t} : holder'[x] = holder[x]
    BY ZenonT(60), <1>y, <2>2
  <2>5. WorkerOwn(w)'
    BY ZenonT(60), <1>l, <1>t, <2>1, <2>2, <2>3, <2>4 DEF WorkerOwn, ValidateLabels, FinishLabels,
       RecordedLabels
  <2>6. TxOwn(t)'
    BY ZenonT(60), <1>l, <1>t, <1>w, <2>2, <2>3, <2>4 DEF TxOwn, Uncommitted
  <2> QED
    BY ZenonT(60), <1>b, <1>n, <1>t, <2>2, <2>4, <2>5, <2>6, BusyOwn
<1>g. ASSUME NEW label, NEW j, Goto(w, label, j)
      PROVE  /\ pc'[w] = label
             /\ job'[w] = j
             /\ \A v \in Workers \ {w} : pc'[v] = pc[v] /\ job'[v] = job[v]
  BY ZenonT(60), <1>g, GotoAt
<1>r. \A l, val, origins :
        /\ GotRead(w, l, val, origins).tx = job[w].tx
        /\ GotRead(w, l, val, origins).incarnation = job[w].incarnation
        /\ "blocking" \in DOMAIN GotRead(w, l, val, origins)
  BY ZenonT(60), <1>y DEF GotRead, Jobs
<1>2. CASE ReadMemory(w)
  <2> DEFINE l == Step(w).loc
             p == LatestWriter(l, job[w].tx)
             entry == mv_memory[l][p]
             read == GotRead(w, l, entry.data, <<<<p, entry.incarnation>>>>)
             k == [read EXCEPT !.blocking = IF entry.estimate THEN @ \cup {p} ELSE @]
  <2>1. Goto(w, "backing", job[w]) \/ Goto(w, "run", k)
    BY ZenonT(60), <1>2 DEF ReadMemory
  <2>2. k.tx = job[w].tx /\ k.incarnation = job[w].incarnation
    BY ZenonT(60), <1>y DEF GotRead, Jobs
  <2>3. /\ pc'[w] \in {"run", "backing"}
        /\ job'[w].tx = job[w].tx /\ job'[w].incarnation = job[w].incarnation
        /\ \A v \in Workers \ {w} : pc'[v] = pc[v] /\ job'[v] = job[v]
    <3> HIDE DEF k
    <3> QED BY ZenonT(60), <1>g, <2>1, <2>2
  <2> QED
    BY ZenonT(60), <1>2, <1>n, <2>3, LocalOwn DEF ReadMemory
<1>3. CASE ReadBacking(w)
  <2>1. Goto(w, "run", GotRead(w, Step(w).loc, store[Step(w).loc], <<>>))
    BY ZenonT(60), <1>3 DEF ReadBacking
  <2>2. /\ pc'[w] = "run"
        /\ job'[w].tx = job[w].tx /\ job'[w].incarnation = job[w].incarnation
        /\ \A v \in Workers \ {w} : pc'[v] = pc[v] /\ job'[v] = job[v]
    BY SMTT(60), <1>g, <1>r, <2>1
  <2> QED
    BY ZenonT(60), <1>3, <1>n, <2>2, LocalOwn DEF ReadBacking
<1>4. CASE ReadBeneficiary(w)
  <2> DEFINE writer == (job[w].tx - Len(job[w].chain)) - 1
             chain == Append(job[w].chain, Link(writer))
             k == [GotRead(w, Ben, 0, <<>>) EXCEPT !.blocking = @ \cup {writer}]
             c == [job[w] EXCEPT !.chain = chain]
  <2>1. \/ \E val, origins : Goto(w, "run", GotRead(w, Ben, val, origins))
        \/ Goto(w, "run", k)
        \/ Goto(w, "run", c)
    BY ZenonT(60), <1>4 DEF ReadBeneficiary
  <2>2. k.tx = job[w].tx /\ k.incarnation = job[w].incarnation
    BY ZenonT(60), <1>y DEF GotRead, Jobs
  <2>3. c.tx = job[w].tx /\ c.incarnation = job[w].incarnation
    BY ZenonT(60), <1>y DEF Jobs
  <2>4. /\ pc'[w] = "run"
        /\ job'[w].tx = job[w].tx /\ job'[w].incarnation = job[w].incarnation
        /\ \A v \in Workers \ {w} : pc'[v] = pc[v] /\ job'[v] = job[v]
    <3> HIDE DEF k, c
    <3> QED BY SMTT(60), <1>g, <1>r, <2>1, <2>2, <2>3
  <2> QED
    BY ZenonT(60), <1>4, <1>n, <2>4, LocalOwn DEF ReadBeneficiary
<1>d. ASSUME NEW l, MarkDone(w, l), pc[w] = "run"
      PROVE  /\ pc'[w] = "run"
             /\ job'[w].tx = job[w].tx /\ job'[w].incarnation = job[w].incarnation
             /\ \A v \in Workers \ {w} : pc'[v] = pc[v] /\ job'[v] = job[v]
  <2> DEFINE k == [job[w] EXCEPT !.done = @ \cup {l}]
  <2>1. k.tx = job[w].tx /\ k.incarnation = job[w].incarnation
    BY ZenonT(60), <1>y DEF Jobs
  <2>2. Goto(w, "run", k)
    BY ZenonT(60), <1>d DEF MarkDone
  <2> HIDE DEF k
  <2> QED
    BY ZenonT(60), <1>g, <2>1, <2>2
<1>5. CASE PublishWrite(w) \/ PruneWrite(w) \/ MarkFailedWrite(w)
  BY ZenonT(60), <1>5, <1>d, <1>n, LocalOwn DEF PublishWrite, PruneWrite, MarkFailedWrite
<1>o. /\ pc[w] = "run" =>
           /\ holder[t] = w /\ status[t] = "Executing"
           /\ job[w].incarnation = incarnation[t]
           /\ history[t].incarnation < incarnation[t]
      /\ pc[w] = "executed" =>
           /\ holder[t] = w /\ status[t] = "Executing"
           /\ job[w].incarnation = incarnation[t]
           /\ history[t].incarnation = incarnation[t]
           /\ ~job[w].conflict => tx_results[t].kind = "Ok"
      /\ pc[w] = "rewind" => holder[t] = w /\ status[t] \in {"Executed", "Conflict"}
  BY ZenonT(60), <1>b, <1>l, <1>t, <1>w DEF WorkerOwn, ExecuteLabels, RunLabels, RecordedLabels,
     FinishLabels, TaskLabels
<1>v. Recordable(t, incarnation[t]) <=> history[t].incarnation < incarnation[t]
  BY ZenonT(60), <1>y DEF Recordable
<1>e. ASSUME NEW label \in {"depend", "key"}, NEW j, NEW value, NEW kind,
             pc[w] = "run", Goto(w, label, j), j.tx = t, j.incarnation = incarnation[t],
             ~j.conflict => kind = "Ok", label = "key" => j.conflict,
             RecordEntry(t, incarnation[t], value),
             tx_results'[t].kind = kind,
             \A x \in Tx \ {t} : tx_results'[x] = tx_results[x],
             UNCHANGED <<holder, status, incarnation, finality, committed, finality_pc,
                         commit_pc>>
      PROVE  OwnInv'
  <2>1. pc'[w] = label /\ job'[w] = j
    BY ZenonT(60), <1>e, GotoIs
  <2>2. /\ history'[t].incarnation = incarnation[t]
        /\ \A x \in Tx \ {t} : history'[x] = history[x]
    BY ZenonT(60), <1>e, <1>y DEF RecordEntry
  <2>3. WorkerOwn(w)'
    BY ZenonT(60), <1>e, <1>l, <1>o, <2>1, <2>2 DEF WorkerOwn, ValidateLabels, FinishLabels,
       RunLabels
  <2>4. TxOwn(t)'
    <3>1. status[t] = "Executing"
      BY ZenonT(60), <1>e, <1>o
    <3>2. history'[t].incarnation <= incarnation'[t]
      <4>1. incarnation'[t] = incarnation[t] /\ incarnation[t] \in Nat
        BY ZenonT(60), <1>e, <1>y
      <4> QED
        BY SMTT(60), <2>2, <4>1
    <3>3. holder'[t] = w
      BY ZenonT(60), <1>e, <1>o
    <3>4. pc'[w] \in LockedLabels /\ job'[w].tx = t
      BY ZenonT(60), <1>e, <1>l, <2>1
    <3>5. status'[t] = "Executing" /\ finality' = finality /\ finality_pc' = finality_pc
      BY ZenonT(60), <1>e, <3>1
    <3>6. ~(t < finality \/ (t = finality /\ finality_pc = "publish"))
      BY ZenonT(60), <1>w, <3>1 DEF TxOwn
    <3> QED
      BY ZenonT(60), <3>2, <3>3, <3>4, <3>5, <3>6 DEF TxOwn
  <2> QED
    BY ZenonT(60), <1>b, <1>e, <1>t, <2>2, <2>3, <2>4, BusyOwn
<1>6. CASE RecordExecution(w)
  <2> DEFINE blocked == job[w].blocking # {}
             value == IF blocked THEN Estimate ELSE EffectOf(t, Vals(job[w].reads))
             j == [Idle EXCEPT
                     !.tx = t, !.incarnation = job[w].incarnation, !.conflict = blocked,
                     !.fresh = \/ tx_results[t].kind = "None"
                               \/ ~(WriteSet(w) \subseteq tx_results[t].write_set),
                     !.dep = LatestUnfinalized(job[w].blocking)]
             r == [kind |-> "Ok", reads |-> job[w].reads, write_set |-> WriteSet(w)]
  <2>1. pc[w] = "run"
    BY ZenonT(60), <1>6 DEF RecordExecution
  <2>2. /\ Goto(w, "depend", j)
        /\ RecordEntry(t, incarnation[t], value)
        /\ tx_results' = [tx_results EXCEPT ![t] = r]
        /\ UNCHANGED <<abort_reason, holder, status, incarnation, finality, committed,
                       finality_pc, commit_pc>>
    BY ZenonT(60), <1>6, <1>o, <1>t, <1>v, <2>1 DEF RecordExecution
  <2>3. j.tx = t /\ j.incarnation = incarnation[t]
    BY ZenonT(60), <1>o, <2>1 DEF Idle
  <2>4. /\ tx_results'[t].kind = "Ok"
        /\ \A x \in Tx \ {t} : tx_results'[x] = tx_results[x]
    BY ZenonT(60), <1>y, <2>2
  <2> HIDE DEF j, value
  <2> QED
    BY ZenonT(60), <1>e, <1>n, <2>1, <2>2, <2>3, <2>4
<1>7. CASE RecordFailure(w)
  <2> DEFINE blocked == job[w].blocking # {}
             label == IF blocked THEN "depend" ELSE "key"
             j == [Idle EXCEPT
                     !.tx = t, !.incarnation = job[w].incarnation, !.conflict = TRUE,
                     !.dep = LatestUnfinalized(job[w].blocking)]
             reason == IF Step(w).op = "invalid" THEN FallbackSequential
                                                 ELSE FatalEvmError(t)
  <2>1. pc[w] = "run"
    BY ZenonT(60), <1>7 DEF RecordFailure
  <2>2. /\ Goto(w, label, j)
        /\ RecordEntry(t, incarnation[t], Estimate)
        /\ tx_results' = [tx_results EXCEPT ![t].kind = "Err", ![t].reads = NoReads]
        /\ Abort(reason) \/ UNCHANGED abort_reason
        /\ UNCHANGED <<holder, status, incarnation, finality, committed, finality_pc,
                       commit_pc>>
    BY ZenonT(60), <1>7, <1>o, <1>t, <1>v, <2>1 DEF RecordFailure
  <2>3. j.tx = t /\ j.incarnation = incarnation[t] /\ j.conflict
    BY ZenonT(60), <1>o, <2>1 DEF Idle
  <2>4. \A x \in Tx \ {t} : tx_results'[x] = tx_results[x]
    BY ZenonT(60), <1>y, <2>2
  <2>5. reason.kind # "ParallelError"
    BY ZenonT(60) DEF FallbackSequential, FatalEvmError
  <2>6. NoParallelError'
    BY ZenonT(60), <1>n, <2>2, <2>5, AbortOwn
  <2>7. label \in {"depend", "key"}
    BY ZenonT(60)
  <2> HIDE DEF j, label
  <2> QED
    BY ZenonT(60), <1>e, <2>1, <2>2, <2>3, <2>4, <2>6, <2>7
<1>8. CASE Depend(w) \/ HoldKeyTx(w)
  <2> DEFINE k == [job[w] EXCEPT !.next = Handed(job[w].tx, TRUE)]
  <2>1. /\ pc[w] \in {"depend", "key"}
        /\ Goto(w, "executed", job[w]) \/ Goto(w, "executed", k)
        /\ UNCHANGED <<txVars, history, finality, committed, finality_pc, commit_pc,
                       abort_reason>>
    BY ZenonT(60), <1>8 DEF Depend, HoldKeyTx
  <2>2. /\ k.tx = job[w].tx /\ k.incarnation = job[w].incarnation
        /\ k.conflict = job[w].conflict
    BY ZenonT(60), <1>y DEF Jobs
  <2>3. /\ pc'[w] = "executed"
        /\ job'[w].tx = job[w].tx /\ job'[w].incarnation = job[w].incarnation
        /\ job'[w].conflict = job[w].conflict
        /\ \A v \in Workers \ {w} : pc'[v] = pc[v] /\ job'[v] = job[v]
    <3> HIDE DEF k
    <3> QED BY ZenonT(60), <1>g, <2>1, <2>2
  <2> QED
    BY ZenonT(60), <1>n, <2>1, <2>3, LocalOwn
<1>9. CASE FinishExecution(w)
  <2>1. pc[w] = "executed" /\ UNCHANGED abort_reason
    BY ZenonT(60), <1>9 DEF FinishExecution
  <2>f. UNCHANGED <<incarnation, tx_results, history, finality, committed, finality_pc,
                    commit_pc>>
    BY ZenonT(60), <1>9 DEF FinishExecution
  <2>2. CASE ~job[w].conflict /\ ~job[w].fresh /\ job[w].next = NoTx
    <3> DEFINE j == [Idle EXCEPT !.tx = t, !.incarnation = job[w].incarnation]
    <3>1. /\ Goto(w, "validate", j)
          /\ status' = [status EXCEPT ![t] = "Validating"]
          /\ holder' = [holder EXCEPT ![t] = NoOne]
      BY ZenonT(60), <1>9, <1>t, <2>2 DEF FinishExecution, SetStatus, Unlock
    <3>2. j.tx = t /\ j.incarnation = incarnation[t]
      BY ZenonT(60), <1>o, <2>1 DEF Idle
    <3>3. pc'[w] = "validate" /\ job'[w] = j
      BY SMTT(60), <3>1, GotoIs
    <3>4. /\ status'[t] = "Validating" /\ holder'[t] = NoOne
          /\ \A x \in Tx \ {t} : status'[x] = status[x] /\ holder'[x] = holder[x]
      BY ZenonT(60), <1>y, <3>1
    <3> HIDE DEF j
    <3>5. WorkerOwn(w)'
      BY ZenonT(60), <1>l, <2>f, <3>2, <3>3, <3>4, ThreadAssumption DEF WorkerOwn, ExecuteLabels,
         RunLabels, RecordedLabels, FinishLabels
    <3>6. TxOwn(t)'
      BY ZenonT(60), <1>o, <1>w, <2>1, <2>2, <2>f, <3>4 DEF TxOwn
    <3> QED
      BY ZenonT(60), <1>b, <1>n, <1>t, <2>1, <2>f, <3>1, <3>2, <3>4, <3>5, <3>6, BusyOwn
  <2>3. CASE ~(~job[w].conflict /\ ~job[w].fresh /\ job[w].next = NoTx)
    <3> DEFINE s == IF job[w].conflict THEN "Conflict" ELSE "Executed"
    <3>1. /\ Goto(w, "stamp", job[w])
          /\ status' = [status EXCEPT ![t] = s]
          /\ UNCHANGED holder
      BY ZenonT(60), <1>9, <1>t, <2>3 DEF FinishExecution, SetStatus
    <3>3. pc'[w] = "stamp" /\ job'[w] = job[w]
      BY ZenonT(60), <3>1, GotoIs
    <3>4. status'[t] = s /\ \A x \in Tx \ {t} : status'[x] = status[x]
      BY ZenonT(60), <1>y, <3>1
    <3>5. WorkerOwn(w)'
      BY ZenonT(60), <1>l, <1>o, <1>t, <2>1, <2>f, <3>1, <3>3, <3>4 DEF WorkerOwn, TaskLabels,
         ExecuteLabels, RunLabels, RecordedLabels, ValidateLabels
    <3>6. TxOwn(t)'
      <4>1. holder'[t] = w /\ pc'[w] \in LockedLabels /\ job'[w].tx = t
        BY ZenonT(60), <1>l, <1>o, <1>t, <2>1, <3>1, <3>3
      <4>2. /\ status'[t] \in {"Conflict", "Executed"}
            /\ status'[t] = "Executed" => tx_results'[t].kind = "Ok"
        BY ZenonT(60), <1>o, <2>1, <2>f, <3>4
      <4>3. /\ history'[t].incarnation = incarnation'[t]
            /\ history'[t].incarnation <= incarnation'[t]
        BY ZenonT(60), <1>o, <1>w, <2>1, <2>f DEF TxOwn
      <4>4. ~(t < finality' \/ (t = finality' /\ finality_pc' = "publish"))
        BY ZenonT(60), <1>o, <1>w, <2>1, <2>f DEF TxOwn
      <4> QED
        BY ZenonT(60), <4>1, <4>2, <4>3, <4>4 DEF TxOwn
    <3> QED
      BY ZenonT(60), <1>b, <1>n, <1>t, <2>1, <2>f, <3>1, <3>4, <3>5, <3>6, BusyOwn
  <2> QED
    BY ZenonT(60), <2>2, <2>3
<1>10. CASE StampExecution(w)
  <2>1. /\ pc[w] = "stamp"
        /\ Goto(w, "rewind", job[w])
        /\ UNCHANGED <<txVars, history, finality, committed, finality_pc, commit_pc,
                       abort_reason>>
    BY ZenonT(60), <1>10 DEF StampExecution
  <2> QED
    BY ZenonT(60), <1>g, <1>n, <2>1, LocalOwn
<1>11. CASE RewindExecution(w)
  <2>1. /\ pc[w] = "rewind"
        /\ \/ Goto(w, "next", Idle)
           \/ Goto(w, "task", [Idle EXCEPT !.tx = job[w].next])
        /\ holder' = [holder EXCEPT ![t] = NoOne]
        /\ UNCHANGED <<status, incarnation, tx_results, history, finality, committed,
                       finality_pc, commit_pc, abort_reason>>
    BY ZenonT(60), <1>11, <1>t DEF RewindExecution, Unlock
  <2>2. pc'[w] \notin BusyLabels
    BY ZenonT(60), <1>g, <1>l, <2>1
  <2>3. holder'[t] = NoOne /\ \A x \in Tx \ {t} : holder'[x] = holder[x]
    BY ZenonT(60), <1>y, <2>1
  <2>4. WorkerOwn(w)'
    BY ZenonT(60), <2>2 DEF WorkerOwn
  <2>5. TxOwn(t)'
    BY ZenonT(60), <1>o, <1>w, <2>1, <2>3 DEF TxOwn
  <2> QED
    BY ZenonT(60), <1>b, <1>l, <1>n, <1>t, <2>1, <2>3, <2>4, <2>5, BusyOwn
<1> QED
  BY ZenonT(60), <1>1, <1>2, <1>3, <1>4, <1>5, <1>6, <1>7, <1>8, <1>9, <1>10, <1>11 DEF ExecuteStep

-----------------------------------------------------------------------------
(* validate                                                                *)

\* Every way on from a checked read stays in the validation of its
\* transaction.
LEMMA ScannedTo ==
  ASSUME TypeInv, NEW w \in Workers, NEW j, {"tx", "incarnation"} \subseteq DOMAIN j,
         Scanned(w, j)
  PROVE  /\ pc'[w] \in {"scan", "estimate", "confirm"}
         /\ job'[w].tx = j.tx
         /\ job'[w].incarnation = j.incarnation
         /\ \A v \in Workers \ {w} : pc'[v] = pc[v] /\ job'[v] = job[v]
<1> DEFINE k == [j EXCEPT !.done = {}]
<1>1. k.tx = j.tx /\ k.incarnation = j.incarnation
  BY ZenonT(60)
<1>2. Goto(w, "estimate", k) \/ Goto(w, "confirm", k) \/ Goto(w, "scan", j)
  BY ZenonT(60) DEF Scanned
<1> HIDE DEF k
<1> QED
  BY SMTT(60), <1>1, <1>2, GotoAt

\* validate: the owner finds the status, the incarnation and the result it
\* relies on, and its invalidation of the beneficiary history is accepted.
LEMMA ValidateOwn ==
  ASSUME TypeInv, TypeInv', OwnInv, NoParallelError, NEW w \in Workers, ValidateStep(w)
  PROVE  OwnInv' /\ UNCHANGED abort_reason
<1>p. pc[w] \in ValidateLabels
  BY ZenonT(60) DEF ValidateStep, BeginValidation, ScanMemory, ScanBeneficiary, Confirm,
     MarkConflictWrite, InvalidateHistory, StampConflict, RewindConflict, AddConflict,
     ValidateLabels
<1>b. pc[w] \in BusyLabels /\ pc[w] \in TaskLabels
  BY ZenonT(60), <1>p DEF BusyLabels, TaskLabels
<1>0. job[w].tx \in Tx
  BY ZenonT(60), <1>p DEF TypeInv, BusyInv, ValidateLabels, IdleLabels
<1>t. PICK t \in Tx : t = job[w].tx
  BY ZenonT(60), <1>0
<1>w. WorkerOwn(w) /\ TxOwn(t)
  BY ZenonT(60) DEF OwnInv
<1>y. /\ status \in [Tx -> Statuses]
      /\ incarnation \in [Tx -> Nat]
      /\ holder \in [Tx -> Workers \cup {NoOne}]
      /\ history \in [Tx -> [incarnation : Nat, value : Effects]]
      /\ job[w] \in Jobs /\ job'[w] \in Jobs
  BY ZenonT(60) DEF TypeInv, TypeOK, TxTypeOK, HistoryTypeOK, ThreadTypeOK
<1>l. /\ {"scan", "estimate", "confirm", "restamp", "recursor", "readd"}
           = ValidateLabels \ {"validate"}
      /\ ValidateLabels \ {"validate"} \subseteq LockedLabels
      /\ "validate" \notin LockedLabels
      /\ "next" \notin BusyLabels
      /\ ValidateLabels \cap (ExecuteLabels \cup FinishLabels) = {}
      /\ LockedLabels \subseteq BusyLabels
  BY ZenonT(60) DEF LockedLabels, BusyLabels, TaskLabels, ExecuteLabels, RunLabels,
     RecordedLabels, FinishLabels, ValidateLabels
<1>o. /\ status[t] = "Validating"
      /\ job[w].incarnation = incarnation[t]
      /\ history[t].incarnation = incarnation[t]
      /\ tx_results[t].kind = "Ok"
      /\ pc[w] # "validate" => holder[t] = w
  BY ZenonT(60), <1>b, <1>l, <1>p, <1>t, <1>w DEF WorkerOwn, TxOwn
<1>g. ASSUME NEW label, NEW j, Goto(w, label, j)
      PROVE  /\ pc'[w] = label
             /\ job'[w] = j
             /\ \A v \in Workers \ {w} : pc'[v] = pc[v] /\ job'[v] = job[v]
  BY ZenonT(60), <1>g, GotoAt
<1>c. ASSUME pc[w] # "validate",
             \E label \in ValidateLabels \ {"validate"} : pc'[w] = label,
             job'[w].tx = job[w].tx, job'[w].incarnation = job[w].incarnation,
             \A v \in Workers \ {w} : pc'[v] = pc[v] /\ job'[v] = job[v],
             UNCHANGED <<txVars, history, finality, committed, finality_pc, commit_pc>>
      PROVE  OwnInv'
  BY ZenonT(60), <1>c, <1>p, LocalOwn
<1>1. CASE BeginValidation(w)
  <2> DEFINE j == [job[w] EXCEPT !.ts = logical_clock]
  <2>1. /\ pc[w] = "validate"
        /\ holder' = [holder EXCEPT ![t] = w]
        /\ Scanned(w, j)
        /\ UNCHANGED <<abort_reason, history, status, incarnation, tx_results, finality,
                       committed, finality_pc, commit_pc>>
    BY ZenonT(60), <1>1, <1>o, <1>t DEF BeginValidation, Lock
  <2>3. /\ {"tx", "incarnation"} \subseteq DOMAIN j
        /\ j.tx = job[w].tx /\ j.incarnation = job[w].incarnation
    BY ZenonT(60), <1>y DEF Jobs
  <2> HIDE DEF j
  <2>4. /\ pc'[w] \in {"scan", "estimate", "confirm"}
        /\ job'[w].tx = t
        /\ job'[w].incarnation = incarnation[t]
        /\ \A v \in Workers \ {w} : pc'[v] = pc[v] /\ job'[v] = job[v]
    BY ZenonT(60), <1>o, <1>t, <2>1, <2>3, ScannedTo
  <2>5. holder'[t] = w /\ \A x \in Tx \ {t} : holder'[x] = holder[x]
    BY ZenonT(60), <1>y, <2>1
  <2>6. WorkerOwn(w)'
    BY ZenonT(60), <1>l, <1>o, <2>1, <2>4, <2>5 DEF WorkerOwn, ExecuteLabels
  <2>7. TxOwn(t)'
    BY ZenonT(60), <1>l, <1>w, <2>1, <2>4, <2>5 DEF TxOwn, Uncommitted
  <2>8. OnlyAt(w, t)
    BY ZenonT(60), <2>1, <2>4, <2>5 DEF OnlyAt
  <2>9. \A v \in Workers \ {w} : pc[v] \in BusyLabels => job[v].tx # t
    BY ZenonT(60), <1>b, <1>t DEF OwnInv
  <2> QED
    BY ZenonT(60), <1>t, <2>1, <2>4, <2>6, <2>7, <2>8, <2>9, OwnStep
<1>k. ASSUME NEW l, NEW valid, NEW dependency
      PROVE  LET j == Checked(w, l, valid, dependency)
             IN  /\ {"tx", "incarnation"} \subseteq DOMAIN j
                 /\ j.tx = job[w].tx /\ j.incarnation = job[w].incarnation
  BY ZenonT(60), <1>y DEF Checked, Jobs
<1>s. ASSUME NEW j, Scanned(w, j), {"tx", "incarnation"} \subseteq DOMAIN j,
             j.tx = job[w].tx, j.incarnation = job[w].incarnation, pc[w] = "scan",
             UNCHANGED <<txVars, history, finality, committed, finality_pc, commit_pc>>
      PROVE  OwnInv'
  <2>1. /\ pc'[w] \in {"scan", "estimate", "confirm"}
        /\ job'[w].tx = job[w].tx
        /\ job'[w].incarnation = job[w].incarnation
        /\ \A v \in Workers \ {w} : pc'[v] = pc[v] /\ job'[v] = job[v]
    BY ZenonT(60), <1>s, ScannedTo
  <2>2. pc[w] # "validate"
    BY ZenonT(60), <1>s
  <2>3. \E label \in ValidateLabels \ {"validate"} : pc'[w] = label
    BY ZenonT(60), <1>l, <2>1
  <2>4. UNCHANGED <<txVars, history, finality, committed, finality_pc, commit_pc>>
    BY ZenonT(60), <1>s
  <2> QED
    BY ZenonT(60), <1>c, <2>1, <2>2, <2>3, <2>4
<1>2. CASE ScanMemory(w)
  <2>1. \E l, valid, dependency : Scanned(w, Checked(w, l, valid, dependency))
    BY ZenonT(60), <1>2 DEF ScanMemory
  <2>2. PICK l, valid, dependency : Scanned(w, Checked(w, l, valid, dependency))
    BY ZenonT(60), <2>1
  <2> DEFINE j == Checked(w, l, valid, dependency)
  <2>3. {"tx", "incarnation"} \subseteq DOMAIN j /\ j.tx = job[w].tx
          /\ j.incarnation = job[w].incarnation
    BY ZenonT(60), <1>k
  <2>4. pc[w] = "scan" /\ UNCHANGED <<txVars, history, finality, committed, finality_pc,
                                     commit_pc>>
    BY ZenonT(60), <1>2 DEF ScanMemory
  <2>5. Scanned(w, j) /\ UNCHANGED abort_reason
    BY ZenonT(60), <1>2, <2>2 DEF ScanMemory
  <2> HIDE DEF j
  <2> QED
    BY ZenonT(60), <1>s, <2>3, <2>4, <2>5
<1>3. CASE ScanBeneficiary(w)
  <2> DEFINE writer == (job[w].tx - Len(job[w].chain)) - 1
             chain == Append(job[w].chain, Link(writer))
             j == [job[w] EXCEPT !.chain = chain]
  <2>1. \/ \E valid, dependency : Scanned(w, Checked(w, Ben, valid, dependency))
        \/ Scanned(w, j)
    BY ZenonT(60), <1>3 DEF ScanBeneficiary
  <2>2. /\ {"tx", "incarnation"} \subseteq DOMAIN j
        /\ j.tx = job[w].tx /\ j.incarnation = job[w].incarnation
    BY ZenonT(60), <1>y DEF Jobs
  <2>3. /\ pc[w] = "scan"
        /\ UNCHANGED <<txVars, history, finality, committed, finality_pc, commit_pc,
                       abort_reason>>
    BY ZenonT(60), <1>3 DEF ScanBeneficiary
  <2> HIDE DEF j
  <2> QED
    BY ZenonT(60), <1>k, <1>s, <2>1, <2>2, <2>3
<1>4. CASE Confirm(w)
  <2>1. /\ pc[w] = "confirm"
        /\ Goto(w, "next", Idle)
        /\ status' = [status EXCEPT ![t] = "Unconfirmed"]
        /\ holder' = [holder EXCEPT ![t] = NoOne]
        /\ UNCHANGED <<incarnation, tx_results, history, finality, committed,
                       finality_pc, commit_pc, abort_reason>>
    BY ZenonT(60), <1>4, <1>t DEF Confirm, SetStatus, Unlock
  <2>2. /\ status'[t] = "Unconfirmed" /\ holder'[t] = NoOne
        /\ \A x \in Tx \ {t} : status'[x] = status[x] /\ holder'[x] = holder[x]
    BY ZenonT(60), <1>y, <2>1
  <2>3. WorkerOwn(w)'
    BY ZenonT(60), <1>g, <1>l, <2>1 DEF WorkerOwn
  <2>4. TxOwn(t)'
    BY ZenonT(60), <1>o, <1>w, <2>1, <2>2 DEF TxOwn
  <2> QED
    BY ZenonT(60), <1>b, <1>l, <1>t, <2>1, <2>2, <2>3, <2>4, BusyOwn
<1>5. CASE MarkConflictWrite(w)
  <2>1. PICK l \in Loc : Goto(w, pc[w], [job[w] EXCEPT !.done = @ \cup {l}])
    BY ZenonT(60), <1>5, <1>t DEF MarkConflictWrite, TypeInv, TypeOK, TxTypeOK, TxResults,
       MarkDone
  <2> DEFINE j == [job[w] EXCEPT !.done = @ \cup {l}]
  <2>2. j.tx = job[w].tx /\ j.incarnation = job[w].incarnation
    BY ZenonT(60), <1>y DEF Jobs
  <2> HIDE DEF j
  <2>3. /\ pc'[w] = pc[w]
        /\ job'[w].tx = job[w].tx /\ job'[w].incarnation = job[w].incarnation
        /\ \A v \in Workers \ {w} : pc'[v] = pc[v] /\ job'[v] = job[v]
    BY ZenonT(60), <2>1, <1>g, <2>2 DEF j
  <2>4. /\ pc[w] = "estimate"
        /\ UNCHANGED <<txVars, history, finality, committed, finality_pc, commit_pc,
                       abort_reason>>
    BY ZenonT(60), <1>5 DEF MarkConflictWrite
  <2> QED
    BY ZenonT(60), <1>c, <1>l, <2>3, <2>4
<1>6. CASE InvalidateHistory(w)
  <2> DEFINE j == [job[w] EXCEPT !.done = {}]
  <2>1. /\ pc[w] = "estimate"
        /\ Goto(w, "restamp", j)
        /\ history' = [history EXCEPT ![t].value = Estimate]
        /\ UNCHANGED <<holder, status, incarnation, tx_results, finality, committed,
                       finality_pc, commit_pc, abort_reason>>
    BY ZenonT(60), <1>6, <1>o, <1>t DEF InvalidateHistory, Invalidatable, InvalidateEntry
  <2>2. j.tx = t /\ j.incarnation = incarnation[t]
    BY ZenonT(60), <1>o, <1>t, <1>y DEF Jobs
  <2>3. /\ history'[t].incarnation = history[t].incarnation
        /\ \A x \in Tx \ {t} : history'[x] = history[x]
    BY ZenonT(60), <1>y, <2>1
  <2> HIDE DEF j
  <2>4. pc'[w] = "restamp" /\ job'[w] = j
    BY ZenonT(60), <1>g, <2>1
  <2>5. WorkerOwn(w)'
    BY ZenonT(60), <1>l, <1>o, <2>1, <2>2, <2>3, <2>4 DEF WorkerOwn, ExecuteLabels
  <2>6. TxOwn(t)'
    BY ZenonT(60), <1>l, <1>o, <1>w, <2>1, <2>2, <2>3, <2>4 DEF TxOwn, Uncommitted
  <2> QED
    BY ZenonT(60), <1>b, <1>t, <2>1, <2>2, <2>3, <2>5, <2>6, BusyOwn
<1>7. CASE StampConflict(w)
  <2>1. /\ pc[w] = "restamp" /\ Goto(w, "recursor", job[w])
        /\ UNCHANGED <<txVars, history, finality, committed, finality_pc, commit_pc,
                       abort_reason>>
    BY ZenonT(60), <1>7 DEF StampConflict
  <2> QED
    BY ZenonT(60), <1>c, <1>g, <1>l, <2>1
<1>8. CASE RewindConflict(w)
  <2> DEFINE j == [job[w] EXCEPT !.dep = LatestUnfinalized({@} \ {NoTx})]
  <2>1. /\ pc[w] = "recursor" /\ Goto(w, "readd", j)
        /\ UNCHANGED <<txVars, history, finality, committed, finality_pc, commit_pc,
                       abort_reason>>
    BY ZenonT(60), <1>8 DEF RewindConflict
  <2>2. j.tx = job[w].tx /\ j.incarnation = job[w].incarnation
    BY ZenonT(60), <1>y DEF Jobs
  <2> HIDE DEF j
  <2> QED
    BY ZenonT(60), <1>c, <1>g, <1>l, <2>1, <2>2
<1>9. CASE AddConflict(w)
  <2>1. /\ pc[w] = "readd"
        /\ Goto(w, "next", Idle)
        /\ status' = [status EXCEPT ![t] = "Conflict"]
        /\ holder' = [holder EXCEPT ![t] = NoOne]
        /\ UNCHANGED <<incarnation, tx_results, history, finality, committed,
                       finality_pc, commit_pc, abort_reason>>
    BY ZenonT(60), <1>9, <1>t DEF AddConflict, SetStatus, Unlock
  <2>2. /\ status'[t] = "Conflict" /\ holder'[t] = NoOne
        /\ \A x \in Tx \ {t} : status'[x] = status[x] /\ holder'[x] = holder[x]
    BY ZenonT(60), <1>y, <2>1
  <2>3. WorkerOwn(w)'
    BY ZenonT(60), <1>g, <1>l, <2>1 DEF WorkerOwn
  <2>4. TxOwn(t)'
    BY ZenonT(60), <1>o, <1>w, <2>1, <2>2 DEF TxOwn
  <2> QED
    BY ZenonT(60), <1>b, <1>l, <1>t, <2>1, <2>2, <2>3, <2>4, BusyOwn
<1> QED
  BY ZenonT(60), <1>1, <1>2, <1>3, <1>4, <1>5, <1>6, <1>7, <1>8, <1>9 DEF ValidateStep

-----------------------------------------------------------------------------
(* The coordinators                                                        *)

\* What a coordinator changes, the workers do not rely on.
LEMMA CoordinatorOwn ==
  ASSUME TypeInv, OwnInv, UNCHANGED <<pc, job, incarnation, holder, history>>,
         \A v \in Workers : pc[v] \in BusyLabels =>
           /\ status'[job[v].tx] = status[job[v].tx]
           /\ tx_results'[job[v].tx] = tx_results[job[v].tx],
         \A t \in Tx : TxOwn(t)'
  PROVE  OwnInv'
<1>1. ASSUME NEW w \in Workers PROVE WorkerOwn(w)'
  BY DEF OwnInv, WorkerOwn
<1> QED
  BY ZenonT(60), <1>1 DEF OwnInv

\* run_finality_loop: only a transaction without an owner becomes final.
LEMMA FinalityOwn ==
  ASSUME TypeInv, OwnInv, FinalityStep
  PROVE  OwnInv' /\ UNCHANGED abort_reason
<1>y. /\ status \in [Tx -> Statuses]
      /\ finality \in Nat /\ committed \in Nat
      /\ N \in Nat
  BY SMTT(60), BlockAssumption DEF TypeInv, TypeOK, CtxTypeOK, TxTypeOK
<1>x. \A t \in Tx : t \in Nat /\ TxOwn(t)
  BY BlockAssumption DEF Tx, OwnInv
<1>1. CASE FinalityCheck
  <2>1. /\ finality_pc # "publish" /\ finality_pc' # "publish"
        /\ UNCHANGED <<ctxVars, txVars, history, pc, job, commit_pc, abort_reason>>
    BY ZenonT(60), <1>1 DEF FinalityCheck
  <2>2. ASSUME NEW t \in Tx PROVE TxOwn(t)'
    BY ZenonT(60), <1>x, <2>1 DEF TxOwn, Uncommitted
  <2> QED
    BY ZenonT(60), <2>1, <2>2, CoordinatorOwn
<1>2. CASE FinalityLock
  <2>t. PICK t \in Tx : t = finality
    BY SMTT(60), <1>2, <1>y DEF FinalityLock, TypeInv, CursorInv, Tx
  <2>0. /\ finality_pc = "lock" /\ Free(t)
        /\ UNCHANGED <<ctxVars, incarnation, holder, tx_results, history, pc, job,
                       commit_pc, abort_reason>>
    BY ZenonT(60), <1>2, <2>t DEF FinalityLock
  <2>1. CASE UNCHANGED status /\ finality_pc' = "outer"
    BY ZenonT(60), <1>x, <2>0, <2>1, CoordinatorOwn DEF TxOwn, Uncommitted
  <2>2. CASE /\ status[t] = "Unconfirmed" /\ finality_pc' = "publish"
             /\ status' = [status EXCEPT ![t] = "Finality"]
    <3>1. status'[t] = "Finality" /\ \A x \in Tx \ {t} : status'[x] = status[x]
      BY ZenonT(60), <1>y, <2>2
    <3>2. ASSUME NEW v \in Workers, pc[v] \in BusyLabels
          PROVE  status'[job[v].tx] = status[job[v].tx]
      BY ZenonT(60), <2>0, <2>2, <3>2, NoOwner, <3>1 DEF TypeInv, BusyInv, BusyLabels,
         TaskLabels, ExecuteLabels, RunLabels, RecordedLabels, FinishLabels, ValidateLabels,
         IdleLabels
    <3>3. TxOwn(t)'
      BY ZenonT(60), <1>x, <2>0, <2>2, <2>t, <3>1 DEF TxOwn
    <3>4. ASSUME NEW x \in Tx \ {t} PROVE TxOwn(x)'
      BY SMTT(60), <1>x, <2>0, <2>2, <2>t, <3>1 DEF TxOwn, Uncommitted
    <3> QED
      BY ZenonT(60), <2>0, <3>2, <3>3, <3>4, CoordinatorOwn
  <2> QED
    BY ZenonT(60), <1>2, <2>1, <2>2, <2>t DEF FinalityLock, SetStatus
<1>3. CASE FinalityPublish
  <2>1. /\ finality_pc = "publish" /\ finality_pc' = "inner" /\ finality' = finality + 1
        /\ UNCHANGED <<committed, txVars, history, pc, job, commit_pc, abort_reason>>
    BY ZenonT(60), <1>3 DEF FinalityPublish
  <2>2. ASSUME NEW t \in Tx PROVE TxOwn(t)'
    <3>1. t < finality + 1 <=> t < finality \/ t = finality
      BY SMTT(60), <1>x, <1>y
    <3> QED
      BY ZenonT(60), <1>x, <2>1, <3>1 DEF TxOwn, Uncommitted
  <2> QED
    BY ZenonT(60), <2>1, <2>2, CoordinatorOwn
<1> QED
  BY ZenonT(60), <1>1, <1>2, <1>3 DEF FinalityStep

\* run_commit_loop: the result of a final transaction is there when the
\* commit takes it, and nobody else needs it.
LEMMA CommitOwn ==
  ASSUME TypeInv, OwnInv, NoParallelError, CommitStep
  PROVE  OwnInv' /\ NoParallelError'
<1>y. /\ tx_results \in [Tx -> TxResults]
      /\ finality \in 0 .. N /\ committed \in Nat
      /\ N \in Nat
  BY SMTT(60), BlockAssumption DEF TypeInv, TypeOK, CtxTypeOK, TxTypeOK
<1>x. \A t \in Tx : t \in Nat /\ TxOwn(t)
  BY SMTT(60), BlockAssumption DEF Tx, OwnInv
<1>n. UNCHANGED abort_reason => NoParallelError'
  BY ZenonT(60) DEF NoParallelError
<1>1. CASE CommitCheck
  <2>1. /\ commit_pc \in {"outer", "inner"}
        /\ UNCHANGED <<ctxVars, txVars, history, pc, job, finality_pc, abort_reason>>
    BY ZenonT(60), <1>1 DEF CommitCheck
  <2>2. ASSUME NEW t \in Tx PROVE TxOwn(t)'
    BY ZenonT(60), <1>x, <2>1 DEF TxOwn, Uncommitted
  <2> QED
    BY ZenonT(60), <1>n, <2>1, <2>2, CoordinatorOwn
<1>2. CASE CommitTx
  <2>t. PICK t \in Tx : t = committed
    BY SMTT(60), <1>2, <1>y DEF CommitTx, Tx
  <2>0. /\ commit_pc = "inner" /\ committed < finality
        /\ tx_results' = [tx_results EXCEPT ![t] = NoResult]
        /\ UNCHANGED <<ctxVars, status, incarnation, holder, history, pc, job,
                       finality_pc>>
    BY ZenonT(60), <1>2, <2>t DEF CommitTx
  <2>1. status[t] = "Finality" /\ tx_results[t].kind = "Ok"
    BY ZenonT(60), <1>x, <2>0, <2>t DEF TxOwn, Uncommitted
  <2>2. \A x \in Tx \ {t} : tx_results'[x] = tx_results[x]
    BY ZenonT(60), <1>y, <2>0
  <2>3. commit_pc' \in {"publish", "done"}
    BY ZenonT(60), <1>2 DEF CommitTx, StopCommit
  <2>4. NoParallelError'
    BY ZenonT(60), <1>2, <2>1, <2>t, <1>n, AbortOwn DEF CommitTx, StopCommit, CommitError,
       FallbackSequential
  <2>5. ASSUME NEW v \in Workers, pc[v] \in BusyLabels
        PROVE  tx_results'[job[v].tx] = tx_results[job[v].tx]
    BY ZenonT(60), <2>1, <2>5, <2>2 DEF OwnInv, WorkerOwn, BusyLabels, TaskLabels, TypeInv,
       BusyInv, ExecuteLabels, RunLabels, RecordedLabels, FinishLabels, ValidateLabels,
       IdleLabels
  <2>6. TxOwn(t)'
    BY SMTT(60), <1>x, <1>y, <2>0, <2>1, <2>3, <2>t DEF TxOwn, Uncommitted
  <2>7. ASSUME NEW x \in Tx \ {t} PROVE TxOwn(x)'
    BY ZenonT(60), <1>x, <2>0, <2>2, <2>t DEF TxOwn, Uncommitted
  <2> QED
    BY ZenonT(60), <2>0, <2>4, <2>5, <2>6, <2>7, CoordinatorOwn
<1>3. CASE PublishCommit
  <2>1. /\ commit_pc = "publish" /\ commit_pc' = "release" /\ committed' = committed + 1
        /\ UNCHANGED <<finality, txVars, history, pc, job, finality_pc, abort_reason>>
    BY ZenonT(60), <1>3 DEF PublishCommit
  <2>2. ASSUME NEW t \in Tx PROVE TxOwn(t)'
    <3>1. Uncommitted(t)' => Uncommitted(t)
      BY SMTT(60), <1>x, <1>y, <2>1 DEF Uncommitted
    <3> QED
      BY ZenonT(60), <1>x, <2>1, <3>1 DEF TxOwn
  <2> QED
    BY ZenonT(60), <1>n, <2>1, <2>2, CoordinatorOwn
<1>4. CASE ReleaseSuccessor
  BY ZenonT(60), <1>4, <1>x, <1>n, CoordinatorOwn DEF ReleaseSuccessor, TxOwn, Uncommitted
<1> QED
  BY ZenonT(60), <1>1, <1>2, <1>3, <1>4 DEF CommitStep

\* A step that leaves the threads and the transactions alone.
LEMMA QuietOwn ==
  ASSUME TypeInv, OwnInv, NoParallelError,
         UNCHANGED <<ctxVars, txVars, history, pc, job, finality_pc, commit_pc,
                     abort_reason>>
  PROVE  OwnInv' /\ NoParallelError'
<1>1. ASSUME NEW t \in Tx PROVE TxOwn(t)'
  BY ZenonT(60) DEF OwnInv, TxOwn, Uncommitted
<1>2. NoParallelError'
  BY ZenonT(60) DEF NoParallelError
<1> QED
  BY ZenonT(60), <1>1, <1>2, CoordinatorOwn

\* A new scheduler owns nothing.
LEMMA OwnershipInitially == ASSUME Init, TypeInv PROVE Ownership
<1>2. NoParallelError
  BY ZenonT(60) DEF Init, NoParallelError, NoAbort
<1>3. ASSUME NEW w \in Workers PROVE pc[w] \notin BusyLabels
  BY ZenonT(60) DEF Init, BusyLabels, TaskLabels, ExecuteLabels, RunLabels, RecordedLabels,
     FinishLabels, ValidateLabels
<1>4. ASSUME NEW t \in Tx PROVE TxOwn(t)
  BY BlockAssumption DEF Init, CtxInit, HistoryInit, TxOwn, Tx
<1> QED
  BY ZenonT(60), <1>2, <1>3, <1>4 DEF Ownership, OwnInv, WorkerOwn

\* Every step of every thread keeps the ownership of transactions.
LEMMA OwnershipStep == ASSUME Ownership, TypeInv', [Next]_vars PROVE Ownership'
<1>0. TypeInv /\ OwnInv /\ NoParallelError /\ TypeInv'
  BY ZenonT(60) DEF Ownership
<1>n. UNCHANGED abort_reason => NoParallelError'
  BY ZenonT(60), <1>0 DEF NoParallelError
<1>1. CASE \E w \in Workers : WorkerStep(w)
  <2>1. PICK w \in Workers : WorkerStep(w)
    BY ZenonT(60), <1>1
  <2>2. CASE ScheduleStep(w)
    BY ZenonT(60), <1>0, <1>n, <2>2, ScheduleOwn DEF Ownership
  <2>3. CASE ExecuteStep(w)
    BY ZenonT(60), <1>0, <2>3, ExecuteOwn DEF Ownership
  <2>4. CASE ValidateStep(w)
    BY ZenonT(60), <1>0, <1>n, <2>4, ValidateOwn DEF Ownership
  <2> QED
    BY ZenonT(60), <2>1, <2>2, <2>3, <2>4 DEF WorkerStep
<1>2. CASE FinalityStep
  BY ZenonT(60), <1>0, <1>2, <1>n, FinalityOwn DEF Ownership
<1>3. CASE CommitStep
  BY ZenonT(60), <1>0, <1>3, CommitOwn DEF Ownership
<1>4. CASE CallerStep \/ UNCHANGED vars
  BY ZenonT(60), <1>4, <1>0, QuietOwn DEF CallerStep, PostExecute, ReplayTx, ReplayEnd, vars,
     Ownership
<1> QED
  BY ZenonT(60), <1>1, <1>2, <1>3, <1>4 DEF Next, Finished

-----------------------------------------------------------------------------
(* What is final stays as it is                                            *)

\* Scheduler::next and execution_task refuse a final transaction.
LEMMA ScheduleKeeps ==
  ASSUME TypeInv, NEW w \in Workers, ScheduleStep(w), NEW x \in Tx,
         status[x] = "Finality"
  PROVE  Kept(x)
<1>y. status \in [Tx -> Statuses] /\ incarnation \in [Tx -> Nat]
  BY ZenonT(60) DEF TypeInv, TypeOK, TxTypeOK
<1>1. CASE TakeValidation(w) \/ TakeExecution(w)
  BY ZenonT(60), <1>1, <1>y DEF TakeValidation, TakeExecution, SetStatus, Kept
<1>2. CASE ~(TakeValidation(w) \/ TakeExecution(w))
  BY ZenonT(60), <1>2 DEF ScheduleStep, WorkerExit, ClaimValidation, AdvanceExecution,
     ClaimExecution, ReleaseDependents, Kept
<1> QED
  BY ZenonT(60), <1>1, <1>2

\* execute_task writes to the transaction it owns.
LEMMA ExecuteKeeps ==
  ASSUME TypeInv, OwnInv, NEW w \in Workers, ExecuteStep(w), NEW x \in Tx,
         status[x] = "Finality"
  PROVE  Kept(x)
<1>p. pc[w] \in BusyLabels
  BY ZenonT(60) DEF ExecuteStep, BeginExecution, ReadMemory, ReadBacking, ReadBeneficiary,
     PublishWrite, PruneWrite, RecordExecution, MarkFailedWrite, RecordFailure, Failed,
     Depend, HoldKeyTx, FinishExecution, StampExecution, RewindExecution, BusyLabels,
     TaskLabels, ExecuteLabels, RunLabels, RecordedLabels, FinishLabels
<1>t. job[w].tx \in Tx /\ job[w].tx # x
  BY ZenonT(60), <1>p, BusyNotFinal
<1>y. /\ status \in [Tx -> Statuses] /\ MemoryTypeOK
      /\ history \in [Tx -> [incarnation : Nat, value : Effects]]
  BY ZenonT(60) DEF TypeInv, TypeOK, TxTypeOK, HistoryTypeOK
<1>1. CASE PublishWrite(w) \/ PruneWrite(w) \/ MarkFailedWrite(w)
  <2>1. UNCHANGED <<status, incarnation, history>>
    BY ZenonT(60), <1>1 DEF PublishWrite, PruneWrite, MarkFailedWrite
  <2>2. \E l : \/ \E entry : SetEntry(l, job[w].tx, entry)
               \/ MarkEstimate(l, job[w].tx)
    BY ZenonT(60), <1>1 DEF PublishWrite, PruneWrite, MarkFailedWrite, PublishValue, RemoveValue
  <2>3. \A k \in Loc : mv_memory'[k][x] = mv_memory[k][x]
    <3>1. PICK l : \/ \E entry : SetEntry(l, job[w].tx, entry)
                   \/ MarkEstimate(l, job[w].tx)
      BY ZenonT(60), <2>2
    <3>2. MemoryTypeOK /\ x \in Tx \ {job[w].tx}
      BY ZenonT(60), <1>t, <1>y
    <3> QED
      BY ZenonT(60), <1>t, <3>1, <3>2, WriteAt
  <2> QED
    BY ZenonT(60), <2>1, <2>3 DEF Kept
<1>2. CASE RecordExecution(w) \/ RecordFailure(w)
  BY ZenonT(60), <1>2, <1>t, <1>y DEF RecordExecution, RecordFailure, RecordEntry, Kept
<1>3. CASE FinishExecution(w)
  BY ZenonT(60), <1>3, <1>t, <1>y DEF FinishExecution, SetStatus, Kept
<1>4. CASE \/ BeginExecution(w) \/ ReadMemory(w) \/ ReadBacking(w) \/ ReadBeneficiary(w)
           \/ Depend(w) \/ HoldKeyTx(w) \/ StampExecution(w) \/ RewindExecution(w)
  BY ZenonT(60), <1>4 DEF BeginExecution, ReadMemory, ReadBacking, ReadBeneficiary, Depend,
     HoldKeyTx, StampExecution, RewindExecution, Kept
<1> QED
  BY ZenonT(60), <1>1, <1>2, <1>3, <1>4 DEF ExecuteStep

\* validate writes to the transaction it owns.
LEMMA ValidateKeeps ==
  ASSUME TypeInv, OwnInv, NEW w \in Workers, ValidateStep(w), NEW x \in Tx,
         status[x] = "Finality"
  PROVE  Kept(x)
<1>p. pc[w] \in BusyLabels
  BY ZenonT(60) DEF ValidateStep, BeginValidation, ScanMemory, ScanBeneficiary, Confirm,
     MarkConflictWrite, InvalidateHistory, StampConflict, RewindConflict, AddConflict,
     BusyLabels, TaskLabels, ValidateLabels
<1>t. job[w].tx \in Tx /\ job[w].tx # x
  BY ZenonT(60), <1>p, BusyNotFinal
<1>y. /\ status \in [Tx -> Statuses] /\ MemoryTypeOK
      /\ history \in [Tx -> [incarnation : Nat, value : Effects]]
  BY ZenonT(60) DEF TypeInv, TypeOK, TxTypeOK, HistoryTypeOK
<1>1. CASE MarkConflictWrite(w)
  <2>1. UNCHANGED <<status, incarnation, history>> /\ \E l : MarkEstimate(l, job[w].tx)
    BY ZenonT(60), <1>1 DEF MarkConflictWrite
  <2>2. \A k \in Loc : mv_memory'[k][x] = mv_memory[k][x]
    <3>1. PICK l : MarkEstimate(l, job[w].tx)
      BY ZenonT(60), <2>1
    <3>2. MemoryTypeOK /\ x \in Tx \ {job[w].tx}
      BY ZenonT(60), <1>t, <1>y
    <3> QED
      BY ZenonT(60), <1>t, <3>1, <3>2, WriteAt
  <2> QED
    BY ZenonT(60), <2>1, <2>2 DEF Kept
<1>2. CASE InvalidateHistory(w)
  BY ZenonT(60), <1>2, <1>t, <1>y DEF InvalidateHistory, InvalidateEntry, Kept
<1>3. CASE Confirm(w) \/ AddConflict(w)
  BY ZenonT(60), <1>3, <1>t, <1>y DEF Confirm, AddConflict, SetStatus, Kept
<1>4. CASE \/ BeginValidation(w) \/ ScanMemory(w) \/ ScanBeneficiary(w)
           \/ StampConflict(w) \/ RewindConflict(w)
  BY ZenonT(60), <1>4 DEF BeginValidation, ScanMemory, ScanBeneficiary, StampConflict,
     RewindConflict, Kept
<1> QED
  BY ZenonT(60), <1>1, <1>2, <1>3, <1>4 DEF ValidateStep

\* Every step of every thread leaves the final transactions alone.
LEMMA StepKeeps ==
  ASSUME Ownership, [Next]_vars, NEW x \in Tx, status[x] = "Finality"
  PROVE  Kept(x)
<1>0. TypeInv /\ OwnInv
  BY ZenonT(60) DEF Ownership
<1>1. CASE \E w \in Workers : WorkerStep(w)
  BY ZenonT(60), <1>0, <1>1, ScheduleKeeps, ExecuteKeeps, ValidateKeeps DEF WorkerStep
<1>2. CASE FinalityLock
  BY ZenonT(60), <1>2, <1>0 DEF FinalityLock, SetStatus, TypeInv, TypeOK, TxTypeOK, Kept
<1>3. CASE FinalityCheck \/ FinalityPublish \/ CommitStep \/ CallerStep \/ UNCHANGED vars
  BY ZenonT(60), <1>3 DEF FinalityCheck, FinalityPublish, CommitStep, CommitCheck, CommitTx,
     PublishCommit, ReleaseSuccessor, CallerStep, PostExecute, ReplayTx, ReplayEnd, vars, Kept
<1> QED
  BY ZenonT(60), <1>1, <1>2, <1>3 DEF Next, FinalityStep, Finished

-----------------------------------------------------------------------------
(* How the block ends                                                      *)

\* What the workers do to the outcome of a block: a failed execution may abort at
\* the commit head, and no result of a committed transaction is written again.
LEMMA WorkerOutcome ==
  ASSUME TypeInv, OwnInv, NEW w \in Workers, WorkerStep(w)
  PROVE  /\ UNCHANGED <<results, output, error, phase, commit_pc, committed>>
         /\ IsAborted => UNCHANGED abort_reason
         /\ abort_reason'.kind = "FatalEvmError" =>
              UNCHANGED abort_reason \/ abort_reason'.tx = committed
         /\ \A t \in Tx : status[t] = "Finality" => tx_results'[t] = tx_results[t]

<1> DEFINE quiet == UNCHANGED <<results, output, error, phase, commit_pc, committed>>
<1>a. ASSUME NEW reason, Abort(reason), reason.kind = "FatalEvmError" => reason.tx = committed
      PROVE  /\ IsAborted => UNCHANGED abort_reason
             /\ abort_reason'.kind = "FatalEvmError" =>
                  UNCHANGED abort_reason \/ abort_reason'.tx = committed
  BY ZenonT(60), <1>a DEF Abort
<1>g. GiveUp(w) => Abort(ParallelError(job[w].tx)) /\ ParallelError(job[w].tx).kind # "FatalEvmError"
  BY ZenonT(60) DEF GiveUp, ParallelError
<1>1. CASE ScheduleStep(w)
  BY ZenonT(60), <1>1 DEF ScheduleStep, WorkerExit, ClaimValidation, TakeValidation,
     AdvanceExecution, ClaimExecution, TakeExecution, ReleaseDependents
<1>2. CASE BeginExecution(w) \/ BeginValidation(w) \/ InvalidateHistory(w)
  BY ZenonT(60), <1>2, <1>a, <1>g DEF BeginExecution, BeginValidation, InvalidateHistory
<1>3. CASE RecordExecution(w) \/ RecordFailure(w)
  <2>1. pc[w] \in BusyLabels
    BY ZenonT(60), <1>3 DEF RecordExecution, RecordFailure, BusyLabels, TaskLabels, ExecuteLabels,
       RunLabels
  <2>2. PICK t \in Tx : t = job[w].tx /\ status[t] # "Finality"
    BY ZenonT(60), <2>1, BusyNotFinal
  <2>3. tx_results \in [Tx -> TxResults]
    BY ZenonT(60) DEF TypeInv, TypeOK, TxTypeOK
  <2>4. ASSUME NEW x \in Tx, status[x] = "Finality" PROVE tx_results'[x] = tx_results[x]
    BY ZenonT(60), <1>3, <2>2, <2>3, <2>4 DEF RecordExecution, RecordFailure
  <2>5. quiet
    BY ZenonT(60), <1>3 DEF RecordExecution, RecordFailure
  <2>6. \/ UNCHANGED abort_reason \/ GiveUp(w) \/ Abort(FallbackSequential)
        \/ committed = t /\ Abort(FatalEvmError(t))
    BY ZenonT(60), <1>3, <2>2 DEF RecordExecution, RecordFailure
  <2>7. FallbackSequential.kind # "FatalEvmError" /\ FatalEvmError(t).tx = t
    BY ZenonT(60) DEF FallbackSequential, FatalEvmError
  <2> QED
    BY ZenonT(60), <1>a, <1>g, <2>4, <2>5, <2>6, <2>7
<1>4. CASE \/ ReadMemory(w) \/ ReadBacking(w) \/ ReadBeneficiary(w) \/ PublishWrite(w)
           \/ PruneWrite(w) \/ MarkFailedWrite(w) \/ Depend(w) \/ HoldKeyTx(w)
           \/ FinishExecution(w) \/ StampExecution(w) \/ RewindExecution(w)
  BY ZenonT(60), <1>4 DEF ReadMemory, ReadBacking, ReadBeneficiary, PublishWrite, PruneWrite,
     MarkFailedWrite, Depend, HoldKeyTx, FinishExecution, StampExecution, RewindExecution
<1>5. CASE \/ ScanMemory(w) \/ ScanBeneficiary(w) \/ Confirm(w) \/ MarkConflictWrite(w)
           \/ StampConflict(w) \/ RewindConflict(w) \/ AddConflict(w)
  BY ZenonT(60), <1>5 DEF ScanMemory, ScanBeneficiary, Confirm, MarkConflictWrite,
     StampConflict, RewindConflict, AddConflict
<1> QED
  BY ZenonT(60), <1>1, <1>2, <1>3, <1>4, <1>5 DEF WorkerStep, ExecuteStep, ValidateStep

\* What holds of the outcome and depends on nothing the workers change otherwise.
LEMMA OutcomeKept ==
  ASSUME TypeInv, OwnInv, OutcomeInv,
         UNCHANGED <<results, output, error, phase, commit_pc, committed>>,
         IsAborted => UNCHANGED abort_reason,
         abort_reason'.kind = "FatalEvmError" =>
           UNCHANGED abort_reason \/ abort_reason'.tx = committed,
         \A t \in Tx : status[t] = "Finality" => tx_results'[t] = tx_results[t]
  PROVE  OutcomeInv'
<1>1. /\ finality \in Nat /\ committed \in Nat /\ committed <= finality
      /\ commit_pc = "publish" => committed < finality
  BY BlockAssumption DEF TypeInv, TypeOK, CtxTypeOK, CursorInv
<1>2. ASSUME NEW t \in Tx, t < committed \/ (t = committed /\ commit_pc = "publish")
      PROVE  tx_results'[t] = tx_results[t]
  <2>1. t \in Nat
    BY BlockAssumption DEF Tx
  <2>2. t < finality
    BY <1>1, <1>2, <2>1
  <2> QED
    BY ZenonT(60), <2>2 DEF OwnInv, TxOwn
<1>3. CommittedInv'
  BY <1>2 DEF OutcomeInv, CommittedInv
<1>4. IsAborted => IsAborted'
  BY ZenonT(60) DEF IsAborted
<1>5. ASSUME ParallelOutcome PROVE ParallelOutcome'
  <2>1. abort_reason'.kind = "FatalEvmError" => abort_reason'.tx \in 0 .. committed
    <3>1. committed \in 0 .. committed
      BY <1>1
    <3> QED
      BY ZenonT(60), <1>5, <3>1 DEF ParallelOutcome
  <2> QED
    BY ZenonT(60), <1>4, <1>5, <2>1 DEF ParallelOutcome
<1> QED
  BY ZenonT(60), <1>3, <1>5 DEF OutcomeInv, CompleteOrFailed, Replayed

\* run_commit_loop: every commit adds one outcome, and the thread ends with the
\* block, on an abort or with an error of the next transaction.
LEMMA CommitOutcome ==
  ASSUME TypeInv, OwnInv, OutcomeInv, CommitStep
  PROVE  OutcomeInv'

<1>0. phase = "parallel" /\ phase' = phase /\ results' = results /\ commit_pc # "done"
  BY ZenonT(60) DEF CommitStep, CommitCheck, CommitTx, PublishCommit, ReleaseSuccessor, OutcomeInv
<1>p. CommittedInv /\ ParallelOutcome /\ error = NoTx
  BY ZenonT(60), <1>0 DEF OutcomeInv, ParallelOutcome
<1>y. /\ N \in Nat /\ committed \in Nat /\ finality \in 0 .. N /\ output \in Seq(Outcomes)
      /\ tx_results \in [Tx -> TxResults]
  BY BlockAssumption DEF TypeInv, TypeOK, CtxTypeOK, BlockTypeOK, TxTypeOK
<1>q. ASSUME CommittedInv', ParallelOutcome' PROVE OutcomeInv'
  BY ZenonT(60), <1>0, <1>q DEF OutcomeInv, CompleteOrFailed
<1>1. CASE CommitCheck
  BY ZenonT(60), <1>1, <1>p, <1>0, <1>q DEF CommitCheck, CommittedInv, ParallelOutcome,
     IsAborted
<1>2. CASE CommitTx
  <2>t. PICK t \in Tx : t = committed
    BY <1>2, <1>y DEF CommitTx, Tx
  <2>1. /\ UNCHANGED committed /\ commit_pc = "inner"
        /\ tx_results' = [tx_results EXCEPT ![t] = NoResult]
    BY ZenonT(60), <1>2, <2>t DEF CommitTx
  <2>2. tx_results'[t].kind = "None" /\ \A x \in Tx \ {t} : tx_results'[x] = tx_results[x]
    BY ZenonT(60), <1>y, <2>1 DEF NoResult
  <2>3. CommittedInv'
    BY ZenonT(60), <1>p, <2>1, <2>2, <2>t DEF CommittedInv
  <2>4. CASE /\ UNCHANGED <<abort_reason, error>> /\ commit_pc' = "publish"
             /\ \E o \in Outcomes : output' = Append(output, o)
    <3>1. Len(output') = Len(output) + 1
      BY <1>y, <2>4
    <3>2. "publish" # "done" /\ Len(output) = committed
      BY ZenonT(60), <1>p, <2>1 DEF ParallelOutcome
    <3> QED
      BY ZenonT(60), <1>0, <1>p, <1>q, <2>1, <2>3, <2>4, <3>1, <3>2 DEF ParallelOutcome, IsAborted
  <2>5. ASSUME NEW reason, StopCommit(reason), reason.kind \notin {"None", "FatalEvmError"},
               error' \in {NoTx, committed}
        PROVE  OutcomeInv'
    <3>1. IsAborted'
      <4>1. NoAbort.kind = "None"
        BY ZenonT(60) DEF NoAbort
      <4> QED
        BY ZenonT(60), <2>5, <4>1 DEF StopCommit, Abort, IsAborted
    <3>2. /\ commit_pc' = "done" /\ UNCHANGED output
          /\ abort_reason'.kind = "FatalEvmError" => UNCHANGED abort_reason
      BY ZenonT(60), <2>5 DEF StopCommit, Abort
    <3>3. "publish" # "done" /\ "publish" # "inner"
      BY ZenonT(60)
    <3>4. ParallelOutcome'
      BY ZenonT(60), <1>0, <1>p, <2>1, <2>5, <3>1, <3>2, <3>3 DEF ParallelOutcome
    <3> QED
      BY ZenonT(60), <1>q, <2>3, <3>4
  <2>6. /\ ParallelError(t).kind \notin {"None", "FatalEvmError"}
        /\ CommitError(t).kind \notin {"None", "FatalEvmError"}
        /\ FallbackSequential.kind \notin {"None", "FatalEvmError"}
    BY ZenonT(60) DEF ParallelError, CommitError, FallbackSequential
  <2>7. \/ /\ UNCHANGED <<abort_reason, error>> /\ commit_pc' = "publish"
           /\ tx_results[t].kind = "Ok"
           /\ output' = Append(output, Executed(Vals(tx_results[t].reads)))
        \/ /\ StopCommit(ParallelError(t)) \/ StopCommit(CommitError(t)) \/ StopCommit(FallbackSequential)
           /\ error' = error \/ error' = t
    BY ZenonT(60), <1>2, <2>t DEF CommitTx
  <2>8. Executed(Vals(tx_results[t].reads)) \in Outcomes
    BY ZenonT(60), <1>y, ValsType DEF TxResults, Executed, Outcomes
  <2> QED
    BY ZenonT(60), <1>p, <2>4, <2>5, <2>6, <2>7, <2>8, <2>t
<1>3. CASE PublishCommit
  <2>1. /\ UNCHANGED <<output, error, abort_reason, tx_results>> /\ committed' = committed + 1
        /\ commit_pc = "publish" /\ commit_pc' = "release"
    BY ZenonT(60), <1>3 DEF PublishCommit
  <2>2. CommittedInv'
    <3>1. \A t \in Tx : t \in Nat
      BY BlockAssumption DEF Tx
    <3>2. \A t \in Tx : t < committed + 1 => t < committed \/ t = committed
      BY <1>y, <3>1
    <3>3. "release" # "publish"
      BY ZenonT(60)
    <3> QED
      BY ZenonT(60), <1>p, <2>1, <3>2, <3>3 DEF CommittedInv
  <2>3. ParallelOutcome'
    <3>1. 0 .. committed \subseteq 0 .. committed + 1
      BY <1>y
    <3>2. "release" # "publish" /\ "release" # "done"
      BY ZenonT(60)
    <3> QED
      BY ZenonT(60), <1>0, <1>p, <2>1, <3>1, <3>2 DEF ParallelOutcome
  <2> QED
    BY ZenonT(60), <1>q, <2>2, <2>3
<1>4. CASE ReleaseSuccessor
  <2>1. /\ UNCHANGED <<output, error, committed, abort_reason, tx_results>>
        /\ commit_pc = "release" /\ commit_pc' = "inner"
    BY ZenonT(60), <1>4 DEF ReleaseSuccessor
  <2>2. {"release", "inner"} \cap {"publish", "done"} = {}
    BY ZenonT(60)
  <2>3. CommittedInv'
    BY ZenonT(60), <1>p, <2>1, <2>2 DEF CommittedInv
  <2>4. ParallelOutcome'
    BY ZenonT(60), <1>0, <1>p, <2>1, <2>2 DEF ParallelOutcome, IsAborted
  <2> QED
    BY ZenonT(60), <1>q, <2>3, <2>4
<1> QED
  BY ZenonT(60), <1>1, <1>2, <1>3, <1>4 DEF CommitStep

\* post_execute and the sequential replay: the result the call returns is that of
\* the committed prefix, continued one transaction at a time.
LEMMA CallerOutcome ==
  ASSUME TypeInv, OwnInv, OutcomeInv, CallerStep
  PROVE  OutcomeInv'
<1>y. /\ N \in Nat /\ committed \in Nat /\ committed <= N
      /\ results \in Seq(Outcomes) /\ output \in Seq(Outcomes)
      /\ NoTx \notin Nat
  BY BlockAssumption DEF TypeInv, TypeOK, CtxTypeOK, BlockTypeOK
<1>0. /\ UNCHANGED <<commit_pc, committed, tx_results>> /\ phase # "done"
      /\ phase' # "parallel"
  BY ZenonT(60) DEF CallerStep, PostExecute, ReplayTx, ReplayEnd
<1>c. commit_pc = "done" /\ CommittedInv
  BY ZenonT(60) DEF CallerStep, PostExecute, ReplayTx, ReplayEnd, AllJoined, OutcomeInv
<1>d. CommittedInv'
  BY ZenonT(60), <1>0, <1>c DEF CommittedInv
<1>q. ASSUME phase' = "replay" => Replayed' <= N /\ (error' # NoTx => error' = Replayed'),
             CompleteOrFailed'
      PROVE  OutcomeInv'
  BY ZenonT(60), <1>0, <1>c, <1>d, <1>q DEF OutcomeInv
<1>1. CASE PostExecute
  <2>1. /\ ParallelOutcome /\ results' = output /\ output' = <<>> /\ phase = "parallel"
    BY ZenonT(60), <1>1 DEF PostExecute, OutcomeInv
  <2>2. Len(output) = committed /\ (error # NoTx => error = committed)
    BY ZenonT(60), <1>c, <2>1 DEF ParallelOutcome
  <2>3. Replayed' = committed
    BY <1>y, <2>1, <2>2 DEF Replayed
  <2>4. CASE error # NoTx \/ ~IsAborted
    <3>1. phase' = "done" /\ UNCHANGED error
      BY ZenonT(60), <1>1, <2>4 DEF PostExecute
    <3>2. error = NoTx => committed = N
      BY ZenonT(60), <1>c, <2>1, <2>4 DEF ParallelOutcome
    <3>3. CompleteOrFailed'
      BY ZenonT(60), <2>1, <2>2, <3>1, <3>2 DEF CompleteOrFailed
    <3> QED
      BY ZenonT(60), <1>q, <3>1, <3>3
  <2>5. CASE error = NoTx /\ IsAborted
    <3>1. CASE abort_reason.kind = "FatalEvmError" /\ tx_results[abort_reason.tx].kind = "Err"
      <4>1. phase' = "done" /\ error' = abort_reason.tx
        BY ZenonT(60), <1>1, <2>5, <3>1 DEF PostExecute
      <4>2. abort_reason.tx \in 0 .. committed
        BY ZenonT(60), <2>1, <3>1 DEF ParallelOutcome
      <4>3. abort_reason.tx \in Tx
        <5>1. abort_reason.tx \in Tx \cup {NoTx}
          BY ZenonT(60) DEF TypeInv, TypeOK, BlockTypeOK, Reasons, MaybeTx
        <5> QED
          BY <1>y, <4>2, <5>1
      <4>4. abort_reason.tx = committed
        <5>1. abort_reason.tx < committed \/ abort_reason.tx = committed
          BY <1>y, <4>2
        <5>2. tx_results[abort_reason.tx].kind # "None"
          BY ZenonT(60), <3>1
        <5> QED
          BY ZenonT(60), <1>c, <4>3, <5>1, <5>2 DEF CommittedInv
      <4>5. CompleteOrFailed'
        BY ZenonT(60), <1>y, <2>1, <2>2, <4>1, <4>3, <4>4 DEF CompleteOrFailed
      <4> QED
        BY ZenonT(60), <1>q, <4>1, <4>5
    <3>2. CASE ~(abort_reason.kind = "FatalEvmError" /\ tx_results[abort_reason.tx].kind = "Err")
      BY ZenonT(60), <1>1, <2>5, <3>2, <1>q, <1>y, <2>3 DEF PostExecute, CompleteOrFailed
    <3> QED
      BY ZenonT(60), <3>1, <3>2
  <2> QED
    BY ZenonT(60), <2>4, <2>5
<1>2. CASE ReplayTx
  <2>1. /\ phase = "replay" /\ phase' = phase /\ UNCHANGED results /\ error = NoTx /\ Replayed < N
    BY ZenonT(60), <1>2 DEF ReplayTx
  <2>2. PICK vals \in Readings :
          \/ output' = Append(output, Skipped) /\ UNCHANGED error
          \/ output' = Append(output, Executed(vals)) /\ UNCHANGED error
          \/ error' = Replayed /\ UNCHANGED output
    BY ZenonT(60), <1>2 DEF ReplayTx, ReplaySkip, ReplayFail, ReplayOk
  <2>3. Skipped \in Outcomes /\ Executed(vals) \in Outcomes
    <3>1. Nothing \in [{} -> Val] /\ {} \in SUBSET Loc
      BY ZenonT(60) DEF Nothing
    <3>2. Nothing \in Readings
      BY ZenonT(60), <3>1 DEF Readings
    <3> QED
      BY ZenonT(60), <3>2 DEF Skipped, Executed, Outcomes
  <2>4. Replayed \in Nat /\ Replayed = Len(results) + Len(output)
    BY <1>y DEF Replayed
  <2>5. Replayed' <= N /\ (error' # NoTx => error' = Replayed')
    <3>1. CASE UNCHANGED error /\ \E o \in Outcomes : output' = Append(output, o)
      <4>1. Len(output') = Len(output) + 1
        BY <1>y, <3>1
      <4> QED
        BY <1>y, <2>1, <2>4, <3>1, <4>1 DEF Replayed
    <3>2. CASE error' = Replayed /\ UNCHANGED output
      BY <1>y, <2>1, <2>4, <3>2 DEF Replayed
    <3> QED
      BY ZenonT(60), <2>2, <2>3, <3>1, <3>2
  <2>6. CompleteOrFailed'
    BY ZenonT(60), <2>1 DEF CompleteOrFailed
  <2> QED
    BY ZenonT(60), <1>q, <2>5, <2>6
<1>3. CASE ReplayEnd
  <2>1. /\ phase = "replay" /\ phase' = "done" /\ UNCHANGED error /\ results' = results \o output
        /\ Replayed = N \/ error # NoTx
    BY ZenonT(60), <1>3 DEF ReplayEnd
  <2>2. Len(results') = Replayed
    BY <1>y, <2>1 DEF Replayed
  <2>3. error # NoTx => error = Replayed
    BY ZenonT(60), <2>1 DEF OutcomeInv
  <2>4. CompleteOrFailed'
    BY ZenonT(60), <2>1, <2>2, <2>3 DEF CompleteOrFailed
  <2> QED
    BY ZenonT(60), <1>q, <2>1, <2>4
<1> QED
  BY ZenonT(60), <1>1, <1>2, <1>3 DEF CallerStep

\* Every step of every thread keeps what holds of the outcome.
LEMMA OutcomeStep ==
  ASSUME Ownership, OutcomeInv, [Next]_vars
  PROVE  OutcomeInv'
BY ZenonT(60), WorkerOutcome, OutcomeKept, CommitOutcome, CallerOutcome DEF Ownership,
   FinalityStep, FinalityCheck, FinalityLock, FinalityPublish, vars, ctxVars, txVars,
   blockVars, Next, Finished

\* The block begins with no outcome and no error.
LEMMA OutcomeInitially == Init => OutcomeInv
<1> SUFFICES ASSUME Init PROVE OutcomeInv
  BY ZenonT(60)
<1>1. \A t \in Tx : tx_results[t].kind = "None"
  BY ZenonT(60) DEF Init, NoResult
<1>2. /\ results = <<>> /\ Len(output) = 0 /\ committed = 0 /\ error = NoTx
      /\ abort_reason.kind # "FatalEvmError" /\ commit_pc = "outer" /\ phase = "parallel"
  BY ZenonT(60) DEF Init, CtxInit, NoAbort
<1>3. /\ "outer" # "publish" /\ "outer" # "done"
      /\ "parallel" # "replay" /\ "parallel" # "done"
  BY ZenonT(60)
<1> QED
  BY ZenonT(60), <1>1, <1>2, <1>3 DEF OutcomeInv, CommittedInv, ParallelOutcome, CompleteOrFailed

-----------------------------------------------------------------------------
(* The entries of the memory                                               *)

\* What holds of the entries of a transaction depends on that transaction alone.
LEMMA SameEntries ==
  ASSUME NEW x \in Tx, SameAt(x)
  PROVE  /\ Covered(x)' <=> Covered(x)
         /\ Estimated(x)' <=> Estimated(x)
         /\ TxMemory(x)' <=> TxMemory(x)
BY ZenonT(60) DEF SameAt, Covered, Written, Estimated, TxMemory

\* A worker that is not concerned keeps what it relies on.
LEMMA SameMemory ==
  ASSUME TypeInv, NEW v \in Workers, WorkerMemory(v), SameWorker(v),
         pc[v] \in BusyLabels => job[v].tx \in Tx /\ SameAt(job[v].tx)
  PROVE  WorkerMemory(v)'
<1>1. CASE pc[v] \notin BusyLabels
  BY ZenonT(60), <1>1 DEF BusyLabels, TaskLabels, ExecuteLabels, RunLabels, RecordedLabels,
     ValidateLabels, WorkerMemory, SameWorker
<1>2. CASE pc[v] \in BusyLabels
  <2>1. PICK x \in Tx : x = job[v].tx /\ SameAt(x)
    BY ZenonT(60), <1>2
  <2>2. pc'[v] = pc[v] /\ job'[v] = job[v] /\ job'[v].tx = x
    BY ZenonT(60), <2>1 DEF SameWorker
  <2>3. (Covered(x)' <=> Covered(x)) /\ (Estimated(x)' <=> Estimated(x))
    BY ZenonT(60), <2>1, SameEntries
  <2>4. Step(v)' = Step(v) /\ WriteSet(v)' = WriteSet(v)
    BY ZenonT(60), <2>2, SameStep
  <2>5. /\ history'[x] = history[x] /\ tx_results'[x] = tx_results[x]
        /\ \A l \in Loc : (Written(l, x)' <=> Written(l, x)) /\ mv_memory'[l][x] = mv_memory[l][x]
    BY ZenonT(60), <2>1 DEF SameAt, Written
  <2>d. \A l \in job[v].done : l \in Loc
    BY ZenonT(60) DEF TypeInv, TypeOK, ThreadTypeOK, Jobs
  <2>6. RunMemory(v) => RunMemory(v)'
    BY ZenonT(60), <2>1, <2>2, <2>4, <2>5, <2>d DEF RunMemory
  <2>7. (\A l \in job[v].done : Written(l, x) => mv_memory[l][x].estimate) =>
          (\A l \in job'[v].done : Written(l, x)' => mv_memory'[l][x].estimate)
    BY ZenonT(60), <2>2, <2>5, <2>d
  <2> QED
    BY ZenonT(60), <2>1, <2>2, <2>3, <2>6, <2>7 DEF WorkerMemory
<1> QED
  BY ZenonT(60), <1>1, <1>2

\* A step of worker w about transaction t, which nobody else is in the middle of.
LEMMA MemoryFrame ==
  ASSUME TypeInv, MemoryInv, NEW w \in Workers, NEW t \in Tx,
         \A v \in Workers \ {w} : SameWorker(v),
         \A v \in Workers \ {w} : pc[v] \in BusyLabels => job[v].tx # t,
         \A x \in Tx \ {t} : SameAt(x),
         TxMemory(t)', WorkerMemory(w)'
  PROVE  MemoryInv'
<1>1. ASSUME NEW x \in Tx PROVE TxMemory(x)'
  BY ZenonT(60), SameEntries DEF MemoryInv
<1>2. ASSUME NEW v \in Workers PROVE WorkerMemory(v)'
  <2>1. CASE v = w
    BY ZenonT(60), <2>1
  <2>2. CASE v # w
    BY ZenonT(60), <2>2, SameMemory DEF MemoryInv, TypeInv, BusyInv, BusyLabels, TaskLabels,
       ExecuteLabels, RunLabels, RecordedLabels, FinishLabels, ValidateLabels, IdleLabels
  <2> QED
    BY ZenonT(60), <2>1, <2>2
<1> QED
  BY ZenonT(60), <1>1, <1>2 DEF MemoryInv

\* A worker outside any task relies on nothing.
LEMMA IdleMemory ==
  ASSUME NEW w \in Workers, pc'[w] \notin BusyLabels, job'[w].done = {}
  PROVE  WorkerMemory(w)'
BY ZenonT(60) DEF BusyLabels, TaskLabels, ExecuteLabels, RunLabels, RecordedLabels,
   ValidateLabels, WorkerMemory

\* Scheduler::next and execution_task: a task starts from a status that says what the
\* last incarnation has left.
LEMMA ScheduleMemory ==
  ASSUME TypeInv, OwnInv, MemoryInv, NEW w \in Workers, ScheduleStep(w)
  PROVE  MemoryInv'
<1>l. /\ {"next", "pick", "done", "claimed", "claim", "task", "release"} \cap BusyLabels = {}
      /\ {"execute", "validate"} \subseteq BusyLabels
      /\ RecordedLabels \cap {"execute", "validate"} = {}
  BY ZenonT(60) DEF BusyLabels, TaskLabels, ExecuteLabels, RunLabels, RecordedLabels,
     FinishLabels, ValidateLabels
<1>d. /\ Idle.done = {} /\ \A x : [Idle EXCEPT !.tx = x].done = {}
      /\ \A i : [job[w] EXCEPT !.incarnation = i].done = job[w].done
      /\ \A i : [job[w] EXCEPT !.incarnation = i].tx = job[w].tx
  BY ZenonT(60) DEF TypeInv, TypeOK, ThreadTypeOK, Idle, Jobs
<1>m. /\ WorkerMemory(w)
      /\ pc[w] \in {"claimed", "claim", "task"} => job[w].done = {} /\ job[w].tx \in Tx
  BY ZenonT(60) DEF MemoryInv, IdleLabels, WorkerMemory, TypeInv, BusyInv
<1>i. ASSUME NEW label, NEW j, Goto(w, label, j), label \notin BusyLabels, j.done = {},
             UNCHANGED <<txVars, specVars>>
      PROVE  MemoryInv'
  <2>1. /\ pc'[w] = label /\ job'[w] = j
        /\ \A v \in Workers \ {w} : SameWorker(v)
    BY ZenonT(60), <1>i, GotoAt DEF SameWorker
  <2>2. \A x \in Tx : SameAt(x)
    BY ZenonT(60), <1>i DEF SameAt
  <2>3. ASSUME NEW x \in Tx PROVE TxMemory(x)'
    BY ZenonT(60), <2>2, SameEntries DEF MemoryInv
  <2>4. ASSUME NEW v \in Workers PROVE WorkerMemory(v)'
    <3>1. CASE v = w
      BY ZenonT(60), <1>i, <2>1, <3>1, IdleMemory
    <3>2. CASE v # w
      <4>1. pc[v] \in BusyLabels => job[v].tx \in Tx /\ SameAt(job[v].tx)
        BY ZenonT(60), <2>2 DEF TypeInv, BusyInv, BusyLabels, TaskLabels, ExecuteLabels,
           RunLabels, RecordedLabels, FinishLabels, ValidateLabels, IdleLabels
      <4>2. WorkerMemory(v) /\ SameWorker(v)
        BY ZenonT(60), <2>1, <3>2 DEF MemoryInv
      <4> QED
        BY ZenonT(60), <4>1, <4>2, SameMemory
    <3> QED
      BY ZenonT(60), <3>1, <3>2
  <2> QED
    BY ZenonT(60), <2>3, <2>4 DEF MemoryInv
<1>t. ASSUME NEW t \in Tx, t = job[w].tx, Free(t), status[t] \notin {"Executing", "Validating"},
             NEW label \in {"execute", "validate"}, NEW j, Goto(w, label, j), j.done = {},
             NEW s, SetStatus(t, s), UNCHANGED <<holder, tx_results, specVars>>,
             s \in {"Executing", "Validating"}, Covered(t), s = "Executing" => Estimated(t)
      PROVE  MemoryInv'
  <2>1. /\ pc'[w] = label /\ job'[w] = j
        /\ \A v \in Workers \ {w} : SameWorker(v)
    BY ZenonT(60), <1>t, GotoAt DEF SameWorker
  <2>2. \A v \in Workers \ {w} : pc[v] \in BusyLabels => job[v].tx # t
    BY ZenonT(60), <1>t, NoOwner
  <2>3. status'[t] = s /\ \A x \in Tx \ {t} : status'[x] = status[x]
    BY ZenonT(60), <1>t DEF SetStatus, TypeInv, TypeOK, TxTypeOK
  <2>4. \A x \in Tx \ {t} : SameAt(x)
    BY ZenonT(60), <1>t, <2>3 DEF SameAt
  <2>5. Covered(t)' /\ (s = "Executing" => Estimated(t)')
    BY ZenonT(60), <1>t DEF Covered, Estimated, Written
  <2>6. s # "Initial" /\ s # "Conflict"
    BY ZenonT(60), <1>t
  <2>7. TxMemory(t)'
    BY ZenonT(60), <2>3, <2>5, <2>6 DEF TxMemory
  <2>8. WorkerMemory(w)'
    <3>1. label \notin {"run", "backing", "estimate", "restamp", "recursor", "readd"}
      BY ZenonT(60), <1>t
    <3> QED
      BY ZenonT(60), <1>l, <1>t, <2>1, <3>1 DEF WorkerMemory
  <2> QED
    BY ZenonT(60), <2>1, <2>2, <2>4, <2>7, <2>8, MemoryFrame
<1>1. CASE WorkerExit(w) \/ ClaimValidation(w) \/ AdvanceExecution(w) \/ ReleaseDependents(w)
  BY ZenonT(60), <1>1, <1>d, <1>i, <1>l DEF WorkerExit, ClaimValidation, AdvanceExecution,
     ReleaseDependents
<1>2. CASE ClaimExecution(w)
  BY ZenonT(60), <1>2, <1>d, <1>i, <1>l, <1>m DEF ClaimExecution
<1>3. CASE TakeValidation(w)
  <2>1. PICK t \in Tx : t = job[w].tx
    BY ZenonT(60), <1>3, <1>m DEF TakeValidation
  <2>2. CASE status[t] \in {"Executed", "Unconfirmed"}
    <3>1. Covered(t)
      BY ZenonT(60), <2>2 DEF MemoryInv, TxMemory
    <3>2. /\ Free(t) /\ SetStatus(t, "Validating") /\ pc[w] = "claimed"
          /\ Goto(w, "validate", [job[w] EXCEPT !.incarnation = incarnation[t]])
          /\ UNCHANGED <<holder, tx_results, specVars>>
      BY ZenonT(60), <1>3, <2>1, <2>2 DEF TakeValidation
    <3>3. /\ [job[w] EXCEPT !.incarnation = incarnation[t]].done = {}
          /\ status[t] \notin {"Executing", "Validating"} /\ "Validating" # "Executing"
      BY ZenonT(60), <1>d, <1>m, <2>2, <3>2
    <3> QED
      BY ZenonT(60), <1>t, <2>1, <3>1, <3>2, <3>3
  <2>3. CASE status[t] \notin {"Executed", "Unconfirmed"}
    BY ZenonT(60), <1>3, <1>d, <1>i, <1>l, <2>1, <2>3 DEF TakeValidation
  <2> QED
    BY ZenonT(60), <2>2, <2>3
<1>4. CASE TakeExecution(w)
  BY ZenonT(60), <1>4, <1>m, <1>d, <1>t, <1>i, <1>l DEF TakeExecution, MemoryInv, TxMemory
<1> QED
  BY ZenonT(60), <1>1, <1>2, <1>3, <1>4 DEF ScheduleStep

\* A step of the owner of t is judged by what it leaves of t.
LEMMA OwnerMemory ==
  ASSUME TypeInv, OwnInv, MemoryInv, NEW w \in Workers, ExecuteStep(w) \/ ValidateStep(w),
         NEW t \in Tx, t = job[w].tx, TxMemory(t)', WorkerMemory(w)'
  PROVE  MemoryInv'
BY ZenonT(60), OwnerFrame, MemoryFrame

\* While its execution holds the lock, nothing is asked of the transaction itself.
LEMMA RunningTx ==
  ASSUME NEW t \in Tx, status'[t] = "Executing", holder'[t] # NoOne
  PROVE  TxMemory(t)'
BY ZenonT(60) DEF TxMemory

\* The reads of an execution come before its writes.
LEMMA ReadMemoryKept ==
  ASSUME TypeInv, OwnInv, MemoryInv, NEW w \in Workers,
         ReadMemory(w) \/ ReadBacking(w) \/ ReadBeneficiary(w)
  PROVE  MemoryInv'
<1>p. pc[w] \in {"run", "backing"}
  BY ZenonT(60) DEF ReadMemory, ReadBacking, ReadBeneficiary
<1>t. PICK t \in Tx : t = job[w].tx /\ holder[t] = w /\ w # NoOne /\ status[t] = "Executing"
  BY ZenonT(60), <1>p, RunOwned
<1>m. RunMemory(w) /\ job[w].done = {}
  <2>1. RunMemory(w)
    BY ZenonT(60), <1>p DEF MemoryInv, WorkerMemory
  <2>2. pc[w] = "run" => Step(w).op = "read"
    BY ZenonT(60) DEF ReadMemory, ReadBacking, ReadBeneficiary
  <2> QED
    BY ZenonT(60), <2>1, <2>2 DEF RunMemory
<1>u. UNCHANGED <<status, holder, history, mv_memory, tx_results>>
  BY ZenonT(60) DEF ReadMemory, ReadBacking, ReadBeneficiary
<1>g. ASSUME NEW label \in {"run", "backing"}, NEW j, Goto(w, label, j), j.tx = t, j.done = {}
      PROVE  MemoryInv'
  <2>1. pc'[w] = label /\ job'[w] = j
    BY ZenonT(60), <1>g, GotoIs
  <2>2. RunMemory(w)'
    BY ZenonT(60), <1>g, <1>m, <1>t, <1>u, <2>1 DEF RunMemory, Written
  <2>3. WorkerMemory(w)'
    <3>1. label \notin RecordedLabels \cup {"estimate", "restamp", "recursor", "readd"}
      BY ZenonT(60), <1>g DEF RecordedLabels
    <3> QED
      BY ZenonT(60), <1>g, <2>1, <2>2, <3>1 DEF WorkerMemory
  <2>4. TxMemory(t)'
    BY ZenonT(60), <1>t, <1>u, RunningTx
  <2> QED
    BY ZenonT(60), <1>t, <2>3, <2>4, OwnerMemory DEF ExecuteStep
<1>j. job[w] \in Jobs
  BY ZenonT(60) DEF TypeInv, TypeOK, ThreadTypeOK
<1>r. \A l, val, origins :
        GotRead(w, l, val, origins).tx = t /\ GotRead(w, l, val, origins).done = {}
  BY ZenonT(60), <1>j, <1>t, <1>m DEF GotRead, Jobs
<1>c. \A c : [job[w] EXCEPT !.chain = c].tx = t /\ [job[w] EXCEPT !.chain = c].done = {}
  BY ZenonT(60), <1>j, <1>t, <1>m DEF Jobs
<1>1. CASE ReadMemory(w)
  <2> DEFINE l == Step(w).loc
             p == LatestWriter(l, job[w].tx)
             got == GotRead(w, l, mv_memory[l][p].data, <<<<p, mv_memory[l][p].incarnation>>>>)
  <2>1. \/ Goto(w, "backing", job[w])
        \/ Goto(w, "run", [got EXCEPT !.blocking = IF mv_memory[l][p].estimate
                                                   THEN got.blocking \cup {p} ELSE got.blocking])
    BY ZenonT(60), <1>1 DEF ReadMemory
  <2>2. \A b : [got EXCEPT !.blocking = b].tx = t /\ [got EXCEPT !.blocking = b].done = {}
    BY ZenonT(60), <1>j, <1>t, <1>m DEF GotRead, Jobs
  <2> HIDE DEF got
  <2> QED
    BY ZenonT(60), <1>g, <1>m, <1>t, <2>1, <2>2
<1>2. CASE ReadBacking(w)
  BY ZenonT(60), <1>2, <1>g, <1>r DEF ReadBacking
<1>3. CASE ReadBeneficiary(w)
  <2>1. \/ \E val, origins : Goto(w, "run", GotRead(w, Ben, val, origins))
        \/ \E b : Goto(w, "run", [GotRead(w, Ben, 0, <<>>) EXCEPT !.blocking = b])
        \/ \E c : Goto(w, "run", [job[w] EXCEPT !.chain = c])
    BY ZenonT(60), <1>3 DEF ReadBeneficiary
  <2>2. CASE \E val, origins : Goto(w, "run", GotRead(w, Ben, val, origins))
    BY ZenonT(60), <1>g, <1>r, <2>2
  <2>3. CASE \E b : Goto(w, "run", [GotRead(w, Ben, 0, <<>>) EXCEPT !.blocking = b])
    <3>1. \A b : /\ [GotRead(w, Ben, 0, <<>>) EXCEPT !.blocking = b].tx = t
                 /\ [GotRead(w, Ben, 0, <<>>) EXCEPT !.blocking = b].done = {}
      BY ZenonT(60), <1>j, <1>t, <1>m DEF GotRead, Jobs
    <3> QED
      BY ZenonT(60), <1>g, <2>3, <3>1
  <2>4. CASE \E c : Goto(w, "run", [job[w] EXCEPT !.chain = c])
    BY ZenonT(60), <1>c, <1>g, <2>4
  <2> QED
    BY ZenonT(60), <2>1, <2>2, <2>3, <2>4
<1> QED
  BY ZenonT(60), <1>1, <1>2, <1>3

\* finish_incarnation and mark_mv_estimate: one location after the other gets the entry
\* of this incarnation, and the others keep the estimate of the last one.
LEMMA WriteMemoryKept ==
  ASSUME TypeInv, OwnInv, MemoryInv, NEW w \in Workers,
         PublishWrite(w) \/ PruneWrite(w) \/ MarkFailedWrite(w)
  PROVE  MemoryInv'
<1>p. pc[w] = "run"
  BY ZenonT(60) DEF PublishWrite, PruneWrite, MarkFailedWrite
<1>t. PICK t \in Tx : /\ t = job[w].tx /\ holder[t] = w /\ w # NoOne /\ status[t] = "Executing"
                      /\ job[w].incarnation = incarnation[t]
  BY ZenonT(60), <1>p, RunOwned
<1>y. job[w] \in Jobs /\ MemoryTypeOK /\ tx_results \in [Tx -> TxResults] /\ job[w].done \subseteq Loc
  BY ZenonT(60) DEF TypeInv, TypeOK, ThreadTypeOK, TxTypeOK, Jobs
<1>m. RunMemory(w)
  BY ZenonT(60), <1>p DEF MemoryInv, WorkerMemory
<1>u. UNCHANGED <<status, holder, history, tx_results>>
  BY ZenonT(60) DEF PublishWrite, PruneWrite, MarkFailedWrite
<1>o. Step(w).op # "read" /\ (Step(w).op = "ok" \/ Failed(w)) /\ (Failed(w) => Step(w).op # "ok")
  BY ZenonT(60) DEF PublishWrite, PruneWrite, MarkFailedWrite, Failed
<1>l. PICK l \in Loc :
        /\ MarkDone(w, l) /\ l \notin job[w].done
        /\ \/ /\ Step(w).op = "ok" /\ l \in WriteSet(w)
              /\ \E value : PublishValue(l, t, job[w].incarnation, value, job[w].blocking # {})
           \/ Step(w).op = "ok" /\ l \notin WriteSet(w) /\ RemoveValue(l, t)
           \/ Step(w).op # "ok" /\ l \in tx_results[t].write_set /\ MarkEstimate(l, t)
  <2>1. tx_results[t].write_set \subseteq Loc
    BY ZenonT(60), <1>y DEF TxResults
  <2>2. Step(w).op = "ok" => WriteSet(w) \subseteq Loc
    <3>1. Vals(job[w].reads) \in Readings
      BY ZenonT(60), <1>y, ValsType DEF Jobs
    <3> QED
      BY ZenonT(60), <1>t, <3>1, PublishedType DEF Step, WriteSet
  <2>3. CASE PublishWrite(w)
    BY ZenonT(60), <1>t, <2>2, <2>3 DEF PublishWrite
  <2>4. CASE PruneWrite(w)
    BY ZenonT(60), <1>t, <2>1, <2>4 DEF PruneWrite, StaleSet
  <2>5. CASE MarkFailedWrite(w)
    BY ZenonT(60), <1>t, <1>o, <2>1, <2>5 DEF MarkFailedWrite
  <2> QED
    BY ZenonT(60), <2>3, <2>4, <2>5
<1>j. /\ pc'[w] = "run" /\ job'[w].tx = t /\ job'[w].reads = job[w].reads
      /\ job'[w].done = job[w].done \cup {l} /\ job'[w].blocking = job[w].blocking
  <2>1. PICK j : j = [job[w] EXCEPT !.done = job[w].done \cup {l}]
    BY ZenonT(60)
  <2>2. Goto(w, "run", j)
    BY ZenonT(60), <1>l, <1>p, <2>1 DEF MarkDone
  <2>3. pc'[w] = "run" /\ job'[w] = j
    BY ZenonT(60), <2>2, GotoIs
  <2> QED
    BY ZenonT(60), <1>t, <1>y, <2>1, <2>3 DEF Jobs
<1>s. Step(w)' = Step(w) /\ WriteSet(w)' = WriteSet(w)
  BY ZenonT(60), <1>j, <1>t, SameStep
<1>k. \A k \in Loc \ {l} : mv_memory'[k][t] = mv_memory[k][t]
  <2>1. (\E entry : SetEntry(l, t, entry)) \/ MarkEstimate(l, t)
    BY ZenonT(60), <1>l DEF PublishValue, RemoveValue
  <2> QED
    BY ZenonT(60), <1>y, <2>1, SetEntryAt, MarkEstimateAt
<1>e. IF Step(w).op = "ok"
      THEN IF l \in WriteSet(w)
           THEN Written(l, t)' /\ (mv_memory'[l][t].estimate <=> job[w].blocking # {})
           ELSE ~Written(l, t)'
      ELSE l \in tx_results[t].write_set /\ Written(l, t)' /\ mv_memory'[l][t].estimate
  <2>i. job[w].incarnation > 0
    <3>1. history[t].incarnation < incarnation[t]
      BY ZenonT(60), <1>p, <1>t DEF OwnInv, WorkerOwn, BusyLabels, TaskLabels, ExecuteLabels,
         RunLabels
    <3>2. history[t].incarnation \in Nat /\ incarnation[t] \in Nat
      BY ZenonT(60) DEF TypeInv, TypeOK, TxTypeOK, HistoryTypeOK
    <3> QED
      BY <1>t, <3>1, <3>2
  <2>1. ASSUME NEW value,
               PublishValue(l, t, job[w].incarnation, value, job[w].blocking # {})
        PROVE  Written(l, t)' /\ (mv_memory'[l][t].estimate <=> job[w].blocking # {})
    <3>0. PICK e \in BOOLEAN : e = (job[w].blocking # {})
      BY ZenonT(60)
    <3>1. PICK entry : /\ SetEntry(l, t, entry)
                       /\ entry.incarnation = job[w].incarnation /\ entry.estimate = e
      BY <2>1, <3>0 DEF PublishValue
    <3>2. mv_memory'[l][t] = entry
      BY ZenonT(60), <1>y, <3>1, SetEntryAt
    <3> QED
      BY ZenonT(60), <2>i, <3>0, <3>1, <3>2 DEF Written
  <2>2. ASSUME RemoveValue(l, t) PROVE ~Written(l, t)'
    <3>1. mv_memory'[l][t] = Absent
      BY ZenonT(60), <1>y, <2>2, SetEntryAt DEF RemoveValue
    <3> QED
      BY <3>1 DEF Written, Absent
  <2>3. ASSUME l \in tx_results[t].write_set, MarkEstimate(l, t)
        PROVE  Written(l, t)' /\ mv_memory'[l][t].estimate
    <3>1. Written(l, t)
      BY ZenonT(60), <1>l, <1>m, <1>t, <2>3 DEF RunMemory
    <3>2. mv_memory[l][t].incarnation # 0
      BY <3>1 DEF Written
    <3> QED
      BY ZenonT(60), <1>y, <2>3, <3>1, <3>2, MarkEstimateAt DEF Written
  <2> QED
    BY ZenonT(60), <1>l, <2>1, <2>2, <2>3
<1>r. RunMemory(w)'
  <2>1. \A k \in Loc \ {l} : Written(k, t)' <=> Written(k, t)
    BY ZenonT(60), <1>k DEF Written
  <2>2. ASSUME NEW k \in Loc \ job'[w].done
        PROVE  /\ Written(k, t)' <=> k \in tx_results[t].write_set
               /\ Written(k, t)' => mv_memory'[k][t].estimate
    <3>1. k \in Loc \ {l} /\ k \in Loc \ job[w].done /\ mv_memory'[k][t] = mv_memory[k][t]
      BY ZenonT(60), <1>j, <1>k
    <3>2. /\ Written(k, t) <=> k \in tx_results[t].write_set
          /\ Written(k, t) => mv_memory[k][t].estimate
      BY ZenonT(60), <1>m, <1>t, <3>1 DEF RunMemory
    <3> QED
      BY ZenonT(60), <2>1, <3>1, <3>2
  <2>3. \A k \in job'[w].done :
           IF Step(w).op = "ok"
           THEN IF k \in WriteSet(w)
                THEN Written(k, t)' /\ (mv_memory'[k][t].estimate <=> job[w].blocking # {})
                ELSE ~Written(k, t)'
           ELSE k \in tx_results[t].write_set /\ Written(k, t)' /\ mv_memory'[k][t].estimate
    <3>1. ASSUME NEW k \in job[w].done, k # l
          PROVE  /\ Written(k, t)' <=> Written(k, t)
                 /\ mv_memory'[k][t] = mv_memory[k][t]
      BY ZenonT(60), <1>k, <1>y, <2>1, <3>1
    <3>2. \A k \in job[w].done :
            IF Step(w).op = "ok"
            THEN IF k \in WriteSet(w)
                 THEN Written(k, t) /\ (mv_memory[k][t].estimate <=> job[w].blocking # {})
                 ELSE ~Written(k, t)
            ELSE k \in tx_results[t].write_set /\ Written(k, t) /\ mv_memory[k][t].estimate
      BY ZenonT(60), <1>m, <1>t DEF RunMemory
    <3> QED
      BY ZenonT(60), <1>e, <1>j, <3>1, <3>2
  <2>4. history'[t].value = Estimate
    BY ZenonT(60), <1>m, <1>t, <1>u DEF RunMemory
  <2> QED
    BY ZenonT(60), <1>j, <1>o, <1>s, <1>u, <2>2, <2>3, <2>4 DEF RunMemory
<1>w. WorkerMemory(w)'
  <2>1. "run" \notin RecordedLabels \cup {"estimate", "restamp", "recursor", "readd"}
    BY ZenonT(60) DEF RecordedLabels
  <2> QED
    BY ZenonT(60), <1>j, <1>r, <2>1 DEF WorkerMemory
<1>x. TxMemory(t)'
  BY ZenonT(60), <1>t, <1>u, RunningTx
<1> QED
  BY ZenonT(60), <1>t, <1>w, <1>x, OwnerMemory DEF ExecuteStep

\* The result is stored once the memory has the entries it names; a blocked or failed
\* execution leaves estimates only.
LEMMA RecordMemoryKept ==
  ASSUME TypeInv, OwnInv, MemoryInv, NEW w \in Workers, RecordExecution(w) \/ RecordFailure(w)
  PROVE  MemoryInv'
<1>p. pc[w] = "run"
  BY ZenonT(60) DEF RecordExecution, RecordFailure
<1>t. PICK t \in Tx : t = job[w].tx /\ holder[t] = w /\ w # NoOne /\ status[t] = "Executing"
  BY ZenonT(60), <1>p, RunOwned
<1>y. /\ tx_results \in [Tx -> TxResults]
      /\ history \in [Tx -> [incarnation : Nat, value : Effects]]
  BY ZenonT(60) DEF TypeInv, TypeOK, TxTypeOK, HistoryTypeOK
<1>m. RunMemory(w)
  BY ZenonT(60), <1>p DEF MemoryInv, WorkerMemory
<1>r. Recordable(t, job[w].incarnation)
  BY ZenonT(60), <1>p, <1>t, RecordAccepted
<1>u. UNCHANGED <<status, mv_memory, holder>>
  BY ZenonT(60), <1>r, <1>t DEF RecordExecution, RecordFailure
<1>x. TxMemory(t)'
  BY ZenonT(60), <1>t, <1>u, RunningTx
<1>w. ASSUME NEW label \in {"depend", "key"}, NEW j, Goto(w, label, j), j.tx = t, j.done = {},
             Covered(t)', j.conflict => Estimated(t)'
      PROVE  MemoryInv'
  <2>1. pc'[w] = label /\ job'[w] = j
    BY ZenonT(60), <1>w, GotoIs
  <2>2. label \notin {"run", "backing", "estimate", "restamp", "recursor", "readd"}
    BY ZenonT(60), <1>w
  <2>3. WorkerMemory(w)'
    BY ZenonT(60), <1>w, <2>1, <2>2 DEF WorkerMemory
  <2> QED
    BY ZenonT(60), <1>t, <1>x, <2>3, OwnerMemory DEF ExecuteStep
<1>1. CASE RecordExecution(w)
  <2> DEFINE blocked == job[w].blocking # {}
             j == [Idle EXCEPT
                   !.tx = t, !.incarnation = job[w].incarnation,
                   !.conflict = blocked,
                   !.fresh = tx_results[t].kind = "None" \/ ~(WriteSet(w) \subseteq tx_results[t].write_set),
                   !.dep = LatestUnfinalized(job[w].blocking)]
  <2>1. /\ Step(w).op = "ok" /\ WriteSet(w) \cup StaleSet(w) \subseteq job[w].done
        /\ RecordEntry(t, job[w].incarnation,
             IF blocked THEN Estimate ELSE EffectOf(t, Vals(job[w].reads)))
        /\ tx_results' = [tx_results EXCEPT ![t] =
             [kind |-> "Ok", reads |-> job[w].reads, write_set |-> WriteSet(w)]]
        /\ Goto(w, "depend", j)
    BY ZenonT(60), <1>1, <1>r, <1>t DEF RecordExecution
  <2>2. tx_results'[t].write_set = WriteSet(w)
    BY ZenonT(60), <1>y, <2>1
  <2>3. blocked => history'[t].value = Estimate
    BY ZenonT(60), <1>y, <2>1 DEF RecordEntry
  <2>4. \A l \in Loc : l \notin job[w].done => l \notin WriteSet(w) /\ ~Written(l, t)
    BY ZenonT(60), <1>m, <1>t, <2>1 DEF RunMemory, StaleSet
  <2>5. \A l \in job[w].done : IF l \in WriteSet(w)
                               THEN Written(l, t) /\ (mv_memory[l][t].estimate <=> blocked)
                               ELSE ~Written(l, t)
    BY ZenonT(60), <1>m, <1>t, <2>1 DEF RunMemory
  <2>6. \A l \in Loc : Written(l, t)' <=> Written(l, t)
    BY ZenonT(60), <1>u DEF Written
  <2>7. Covered(t)'
    BY ZenonT(60), <2>2, <2>4, <2>5, <2>6 DEF Covered
  <2>8. blocked => Estimated(t)'
    BY ZenonT(60), <1>u, <2>3, <2>4, <2>5, <2>6 DEF Estimated
  <2>9. j.tx = t /\ j.done = {} /\ (j.conflict <=> blocked)
    BY ZenonT(60) DEF Idle
  <2> HIDE DEF j
  <2> QED
    BY ZenonT(60), <1>w, <2>1, <2>7, <2>8, <2>9
<1>2. CASE RecordFailure(w)
  <2> DEFINE j == [Idle EXCEPT
                   !.tx = t, !.incarnation = job[w].incarnation, !.conflict = TRUE,
                   !.dep = LatestUnfinalized(job[w].blocking)]
             label == IF job[w].blocking # {} THEN "depend" ELSE "key"
  <2>1. /\ Failed(w) /\ tx_results[t].write_set \subseteq job[w].done
        /\ RecordEntry(t, job[w].incarnation, Estimate)
        /\ tx_results' = [tx_results EXCEPT ![t].kind = "Err", ![t].reads = NoReads]
        /\ Goto(w, label, j)
    BY ZenonT(60), <1>2, <1>r, <1>t DEF RecordFailure
  <2>2. tx_results'[t].write_set = tx_results[t].write_set
    BY ZenonT(60), <1>y, <2>1 DEF TxResults
  <2>3. history'[t].value = Estimate
    BY ZenonT(60), <1>y, <2>1 DEF RecordEntry
  <2>4. Step(w).op # "ok"
    BY ZenonT(60), <2>1 DEF Failed
  <2>5. \A l \in Loc : /\ Written(l, t) <=> l \in tx_results[t].write_set
                       /\ Written(l, t) => mv_memory[l][t].estimate
    BY ZenonT(60), <1>m, <1>t, <2>4 DEF RunMemory
  <2>6. Covered(t)' /\ Estimated(t)'
    BY ZenonT(60), <1>u, <2>2, <2>3, <2>5 DEF Covered, Estimated, Written
  <2>7. j.tx = t /\ j.done = {} /\ label \in {"depend", "key"}
    BY ZenonT(60) DEF Idle
  <2> HIDE DEF j, label
  <2> QED
    BY ZenonT(60), <1>w, <2>1, <2>6, <2>7
<1> QED
  BY ZenonT(60), <1>1, <1>2

\* execute_task from its lock to the run, and from the recorded result to the unlock.
LEMMA EndsMemoryKept ==
  ASSUME TypeInv, OwnInv, MemoryInv, NEW w \in Workers,
         \/ BeginExecution(w) \/ Depend(w) \/ HoldKeyTx(w) \/ FinishExecution(w)
         \/ StampExecution(w) \/ RewindExecution(w)
  PROVE  MemoryInv'
<1>p. pc[w] \in {"execute", "depend", "key", "executed", "stamp", "rewind"}
  BY ZenonT(60) DEF BeginExecution, Depend, HoldKeyTx, FinishExecution, StampExecution,
     RewindExecution
<1>b. /\ pc[w] \in BusyLabels
      /\ pc[w] \in {"depend", "key", "executed"} => pc[w] \in RecordedLabels
      /\ pc[w] = "execute" => pc[w] \in ExecuteLabels /\ pc[w] \in TaskLabels
      /\ pc[w] \notin {"run", "scan", "estimate"}
  BY ZenonT(60), <1>p DEF BusyLabels, TaskLabels, ExecuteLabels, RunLabels, RecordedLabels,
     FinishLabels
<1>l. /\ {"next", "task"} \cap BusyLabels = {}
      /\ RecordedLabels = {"depend", "key", "executed"}
  BY ZenonT(60) DEF BusyLabels, TaskLabels, ExecuteLabels, RunLabels, RecordedLabels, FinishLabels,
     ValidateLabels
<1>t. PICK t \in Tx : t = job[w].tx /\ WorkerOwn(w) /\ WorkerMemory(w) /\ TxMemory(t)
  BY ZenonT(60), <1>b, BusyNotFinal DEF OwnInv, MemoryInv
<1>d. job[w].done = {}
  BY ZenonT(60), <1>b, <1>t DEF WorkerMemory
<1>j. job[w] \in Jobs
  BY ZenonT(60) DEF TypeInv, TypeOK, ThreadTypeOK
<1>y. /\ status \in [Tx -> Statuses] /\ holder \in [Tx -> Workers \cup {NoOne}]
  BY ZenonT(60) DEF TypeInv, TypeOK, TxTypeOK
<1>u. UNCHANGED <<history, mv_memory, tx_results>>
  BY ZenonT(60) DEF BeginExecution, Depend, HoldKeyTx, FinishExecution, StampExecution,
     RewindExecution
<1>c. (Covered(t)' <=> Covered(t)) /\ (Estimated(t)' <=> Estimated(t))
  BY ZenonT(60), <1>u DEF Covered, Estimated, Written
<1>o. TxMemory(t)' /\ WorkerMemory(w)' => MemoryInv'
  BY ZenonT(60), <1>t, OwnerMemory DEF ExecuteStep
<1>i. Idle.done = {} /\ (\A x : [Idle EXCEPT !.tx = x].done = {})
      /\ (\A x, i : [Idle EXCEPT !.tx = x, !.incarnation = i].done = {})
  BY ZenonT(60) DEF Idle
<1>q. ASSUME NEW label \in {"next", "task", "validate", "stamp", "rewind"}, NEW j,
             Goto(w, label, j), j.done = {}
      PROVE  WorkerMemory(w)'
  <2>1. pc'[w] = label /\ job'[w] = j
    BY ZenonT(60), <1>q, GotoIs
  <2>2. label \notin RecordedLabels \cup {"run", "backing", "estimate", "restamp", "recursor", "readd"}
    BY ZenonT(60), <1>q DEF RecordedLabels
  <2> QED
    BY ZenonT(60), <1>q, <2>1, <2>2 DEF WorkerMemory
<1>1. CASE BeginExecution(w)
  <2>1. /\ pc[w] = "execute" /\ Free(t) /\ UNCHANGED status
        /\ status[t] = "Executing" /\ incarnation[t] = job[w].incarnation
    BY ZenonT(60), <1>1, <1>b, <1>t DEF BeginExecution, WorkerOwn
  <2>2. Lock(t, w) /\ Goto(w, "run", job[w])
    BY ZenonT(60), <1>1, <1>t, <2>1 DEF BeginExecution
  <2>3. pc'[w] = "run" /\ job'[w] = job[w] /\ holder'[t] = w
    BY ZenonT(60), <1>y, <2>2, GotoIs DEF Lock
  <2>4. Covered(t) /\ Estimated(t)
    BY ZenonT(60), <1>t, <2>1 DEF TxMemory, Free
  <2>5. RunMemory(w)'
    BY ZenonT(60), <1>d, <1>t, <1>u, <2>3, <2>4 DEF RunMemory, Covered, Estimated, Written
  <2>6. "run" \notin RecordedLabels \cup {"estimate", "restamp", "recursor", "readd"}
    BY ZenonT(60) DEF RecordedLabels
  <2>7. WorkerMemory(w)'
    BY ZenonT(60), <2>3, <2>5, <2>6 DEF WorkerMemory
  <2>8. TxMemory(t)'
    BY ZenonT(60), <2>1, <2>3, ThreadAssumption, RunningTx
  <2> QED
    BY ZenonT(60), <1>o, <2>7, <2>8
<1>2. CASE Depend(w) \/ HoldKeyTx(w)
  <2>1. /\ pc[w] \in {"depend", "key"} /\ UNCHANGED <<status, holder>>
        /\ \E n : Goto(w, "executed", [job[w] EXCEPT !.next = n]) \/ Goto(w, "executed", job[w])
    BY ZenonT(60), <1>2 DEF Depend, HoldKeyTx
  <2>2. PICK j : /\ Goto(w, "executed", j)
                 /\ j.tx = t /\ j.done = {} /\ (j.conflict <=> job[w].conflict)
    <3>1. \A n : /\ [job[w] EXCEPT !.next = n].tx = t /\ [job[w] EXCEPT !.next = n].done = {}
                 /\ [job[w] EXCEPT !.next = n].conflict = job[w].conflict
      BY ZenonT(60), <1>d, <1>j, <1>t DEF Jobs
    <3> QED
      BY ZenonT(60), <1>d, <1>t, <2>1, <3>1
  <2>3. pc'[w] = "executed" /\ job'[w] = j
    BY ZenonT(60), <2>2, GotoIs
  <2>4. Covered(t) /\ (job[w].conflict => Estimated(t))
    BY ZenonT(60), <1>b, <1>t, <2>1 DEF WorkerMemory
  <2>5. "executed" \notin {"run", "backing", "estimate", "restamp", "recursor", "readd"}
    BY ZenonT(60)
  <2>6. WorkerMemory(w)'
    BY ZenonT(60), <1>c, <2>2, <2>3, <2>4, <2>5 DEF WorkerMemory
  <2>7. TxMemory(t)'
    BY ZenonT(60), <1>c, <1>t, <2>1 DEF TxMemory
  <2> QED
    BY ZenonT(60), <1>o, <2>6, <2>7
<1>3. CASE FinishExecution(w)
  <2>1. /\ pc[w] \in RecordedLabels
        /\ \/ /\ ~job[w].conflict /\ SetStatus(t, "Validating")
              /\ Goto(w, "validate", [Idle EXCEPT !.tx = t, !.incarnation = job[w].incarnation])
           \/ /\ SetStatus(t, IF job[w].conflict THEN "Conflict" ELSE "Executed")
              /\ Goto(w, "stamp", job[w])
    BY ZenonT(60), <1>3, <1>b, <1>t DEF FinishExecution
  <2>2. Covered(t) /\ (job[w].conflict => Estimated(t))
    BY ZenonT(60), <1>t, <2>1 DEF WorkerMemory
  <2>3. WorkerMemory(w)'
    BY ZenonT(60), <1>d, <1>i, <1>q, <2>1
  <2>4. status'[t] \in {"Validating", "Executed"} \/ (status'[t] = "Conflict" /\ job[w].conflict)
    BY ZenonT(60), <1>y, <2>1 DEF SetStatus
  <2>5. TxMemory(t)'
    BY ZenonT(60), <1>c, <2>2, <2>4 DEF TxMemory
  <2> QED
    BY ZenonT(60), <1>o, <2>3, <2>5
<1>4. CASE StampExecution(w) \/ RewindExecution(w)
  <2>1. /\ UNCHANGED status
        /\ \/ Goto(w, "rewind", job[w]) \/ Goto(w, "next", Idle)
           \/ Goto(w, "task", [Idle EXCEPT !.tx = job[w].next])
    BY ZenonT(60), <1>4 DEF StampExecution, RewindExecution
  <2>2. WorkerMemory(w)'
    BY ZenonT(60), <1>d, <1>i, <1>q, <2>1
  <2>3. status[t] # "Executing"
    BY ZenonT(60), <1>4, <1>b, <1>t DEF StampExecution, RewindExecution, FinishLabels, WorkerOwn
  <2>4. TxMemory(t)'
    BY ZenonT(60), <1>c, <1>t, <2>1, <2>3 DEF TxMemory
  <2> QED
    BY ZenonT(60), <1>o, <2>2, <2>4
<1> QED
  BY ZenonT(60), <1>1, <1>2, <1>3, <1>4

\* validate: its writes become estimates, and the history with them, before it gives up
\* the transaction.
LEMMA ValidateMemoryKept ==
  ASSUME TypeInv, OwnInv, NoParallelError, MemoryInv, NEW w \in Workers, ValidateStep(w)
  PROVE  MemoryInv'
<1>p. pc[w] \in ValidateLabels
  BY ZenonT(60) DEF ValidateStep, BeginValidation, ScanMemory, ScanBeneficiary, Confirm,
     MarkConflictWrite, InvalidateHistory, StampConflict, RewindConflict, AddConflict,
     ValidateLabels
<1>b. pc[w] \in BusyLabels /\ pc[w] \in TaskLabels
  BY ZenonT(60), <1>p DEF BusyLabels, TaskLabels
<1>t. PICK t \in Tx : t = job[w].tx /\ WorkerOwn(w) /\ WorkerMemory(w) /\ TxMemory(t) /\ TxOwn(t)
  BY ZenonT(60), <1>b, BusyNotFinal DEF OwnInv, MemoryInv
<1>s. /\ status[t] = "Validating" /\ incarnation[t] = job[w].incarnation
      /\ history[t].incarnation = incarnation[t] /\ tx_results[t].kind = "Ok"
  BY ZenonT(60), <1>b, <1>p, <1>t DEF WorkerOwn, TxOwn
<1>v. Covered(t)
  BY ZenonT(60), <1>s, <1>t DEF TxMemory
<1>y. /\ job[w] \in Jobs /\ status \in [Tx -> Statuses] /\ MemoryTypeOK
      /\ history \in [Tx -> [incarnation : Nat, value : Effects]]
      /\ tx_results \in [Tx -> TxResults]
  BY ZenonT(60) DEF TypeInv, TypeOK, TxTypeOK, ThreadTypeOK, HistoryTypeOK
<1>o. TxMemory(t)' /\ WorkerMemory(w)' => MemoryInv'
  BY ZenonT(60), <1>t, OwnerMemory
<1>q. ASSUME NEW label \in {"next", "confirm", "scan"}, NEW j, Goto(w, label, j),
             label # "scan" => j.done = {}
      PROVE  WorkerMemory(w)'
  BY ZenonT(60), <1>q, GotoIs DEF RecordedLabels, WorkerMemory
<1>e. ASSUME NEW label \in {"restamp", "recursor", "readd"}, NEW j, Goto(w, label, j),
             j.done = {}, j.tx = t, Estimated(t)'
      PROVE  WorkerMemory(w)'
  BY ZenonT(60), <1>e, GotoIs DEF RecordedLabels, WorkerMemory
<1>m. ASSUME NEW j, Goto(w, "estimate", j), j.tx = t,
             \A l \in j.done : Written(l, t)' => mv_memory'[l][t].estimate
      PROVE  WorkerMemory(w)'
  BY ZenonT(60), <1>m, GotoIs DEF RecordedLabels, WorkerMemory
<1>x. UNCHANGED <<status, mv_memory, tx_results>> => TxMemory(t)'
  BY ZenonT(60), <1>s, <1>v DEF TxMemory, Covered, Written
<1>f. {"tx", "ts", "done"} \subseteq DOMAIN job[w]
  BY ZenonT(60), <1>y DEF Jobs
<1>k. \A l, valid, dep : /\ {"tx", "ts", "done"} \subseteq DOMAIN Checked(w, l, valid, dep)
                          /\ Checked(w, l, valid, dep).tx = t
  BY ZenonT(60), <1>f, <1>t DEF Checked
<1>1. CASE BeginValidation(w) \/ ScanMemory(w) \/ ScanBeneficiary(w)
  <2>1. PICK j : Scanned(w, j) /\ {"tx", "ts", "done"} \subseteq DOMAIN j /\ j.tx = t
    <3>1. CASE BeginValidation(w)
      <4>1. Scanned(w, [job[w] EXCEPT !.ts = logical_clock])
        BY ZenonT(60), <1>s, <1>t, <3>1 DEF BeginValidation
      <4> QED
        BY <1>f, <1>t, <4>1
    <3>2. CASE ScanMemory(w)
      <4>1. PICK l, valid, dep : Scanned(w, Checked(w, l, valid, dep))
        BY ZenonT(60), <3>2 DEF ScanMemory
      <4> QED
        BY ZenonT(60), <1>k, <4>1
    <3>3. CASE ScanBeneficiary(w)
      <4>1. \/ \E l, valid, dep : Scanned(w, Checked(w, l, valid, dep))
            \/ \E c : Scanned(w, [job[w] EXCEPT !.chain = c])
        BY ZenonT(60), <3>3 DEF ScanBeneficiary
      <4>2. CASE \E l, valid, dep : Scanned(w, Checked(w, l, valid, dep))
        BY ZenonT(60), <1>k, <4>2
      <4>3. CASE \E c : Scanned(w, [job[w] EXCEPT !.chain = c])
        BY <1>f, <1>t, <4>3
      <4> QED
        BY ZenonT(60), <4>1, <4>2, <4>3
    <3> QED
      BY ZenonT(60), <1>1, <3>1, <3>2, <3>3
  <2>2. /\ pc'[w] \in {"scan", "estimate", "confirm"} /\ job'[w].tx = t
        /\ pc'[w] # "scan" => job'[w].done = {}
    BY ZenonT(60), <2>1, ScannedAt
  <2>3. pc'[w] \notin RecordedLabels \cup {"run", "backing", "restamp", "recursor", "readd"}
    BY ZenonT(60), <2>2 DEF RecordedLabels
  <2>4. pc'[w] = "estimate" => job'[w].done = {}
    BY ZenonT(60), <2>2
  <2>5. WorkerMemory(w)'
    BY ZenonT(60), <2>2, <2>3, <2>4 DEF WorkerMemory
  <2>6. UNCHANGED <<status, mv_memory, tx_results>>
    BY ZenonT(60), <1>1 DEF BeginValidation, ScanMemory, ScanBeneficiary
  <2> QED
    BY ZenonT(60), <1>o, <1>x, <2>5, <2>6
<1>i. Idle.done = {}
  BY ZenonT(60) DEF Idle
<1>2. CASE Confirm(w)
  <2>1. /\ Goto(w, "next", Idle) /\ SetStatus(t, "Unconfirmed")
        /\ UNCHANGED <<history, mv_memory, tx_results>>
    BY ZenonT(60), <1>2, <1>t DEF Confirm
  <2>2. status'[t] = "Unconfirmed"
    BY ZenonT(60), <1>y, <2>1 DEF SetStatus
  <2>3. Covered(t)'
    BY ZenonT(60), <1>v, <2>1 DEF Covered, Written
  <2>4. TxMemory(t)'
    BY ZenonT(60), <2>2, <2>3 DEF TxMemory
  <2> QED
    BY ZenonT(60), <1>i, <1>o, <1>q, <2>1, <2>4
<1>3. CASE MarkConflictWrite(w)
  <2>1. /\ pc[w] = "estimate" /\ UNCHANGED <<status, history, tx_results>>
        /\ \A l \in job[w].done : Written(l, t) => mv_memory[l][t].estimate
    BY ZenonT(60), <1>3, <1>t DEF MarkConflictWrite, WorkerMemory
  <2>2. PICK l \in Loc : MarkEstimate(l, t) /\ MarkDone(w, l)
    <3>1. tx_results[t].write_set \subseteq Loc
      BY ZenonT(60), <1>y DEF TxResults
    <3> QED
      BY ZenonT(60), <1>3, <1>t, <3>1 DEF MarkConflictWrite
  <2>3. /\ mv_memory'[l][t].incarnation = mv_memory[l][t].incarnation
        /\ mv_memory[l][t].incarnation # 0 => mv_memory'[l][t].estimate
        /\ \A k \in Loc \ {l} : mv_memory'[k][t] = mv_memory[k][t]
    BY ZenonT(60), <1>y, <2>2, MarkEstimateAt
  <2>4. \A k \in Loc : Written(k, t)' <=> Written(k, t)
    BY ZenonT(60), <2>3 DEF Written
  <2>5. TxMemory(t)'
    <3>1. Covered(t)'
      BY ZenonT(60), <1>v, <2>1, <2>4 DEF Covered
    <3>2. status'[t] = "Validating"
      BY ZenonT(60), <1>s, <2>1
    <3> QED
      BY ZenonT(60), <3>1, <3>2 DEF TxMemory
  <2>6. PICK j : Goto(w, "estimate", j) /\ j.tx = t /\ j.done = job[w].done \cup {l}
    <3>1. Goto(w, "estimate", [job[w] EXCEPT !.done = @ \cup {l}])
      BY ZenonT(60), <2>1, <2>2 DEF MarkDone
    <3> QED
      BY <1>f, <1>t, <3>1
  <2>7. \A k \in j.done : Written(k, t)' => mv_memory'[k][t].estimate
    <3>1. job[w].done \subseteq Loc
      BY ZenonT(60), <1>y DEF Jobs
    <3>2. Written(l, t) => mv_memory[l][t].incarnation # 0
      BY DEF Written
    <3> QED
      BY ZenonT(60), <2>1, <2>3, <2>4, <2>6, <3>1, <3>2
  <2> QED
    BY ZenonT(60), <1>m, <1>o, <2>5, <2>6, <2>7
<1>4. CASE InvalidateHistory(w)
  <2>1. /\ pc[w] = "estimate" /\ tx_results[t].write_set \subseteq job[w].done
        /\ \A l \in job[w].done : Written(l, t) => mv_memory[l][t].estimate
        /\ UNCHANGED <<status, mv_memory, tx_results>>
    BY ZenonT(60), <1>4, <1>t DEF InvalidateHistory, WorkerMemory
  <2>2. Invalidatable(t, job[w].incarnation)
    BY ZenonT(60), <1>s DEF Invalidatable
  <2>3. InvalidateEntry(t) /\ Goto(w, "restamp", [job[w] EXCEPT !.done = {}])
    BY ZenonT(60), <1>4, <1>t, <2>2 DEF InvalidateHistory
  <2>4. history'[t].value = Estimate
    BY ZenonT(60), <1>y, <2>3 DEF InvalidateEntry
  <2>5. Estimated(t)'
    BY ZenonT(60), <1>v, <2>1, <2>4 DEF Estimated, Covered, Written
  <2>6. [job[w] EXCEPT !.done = {}].tx = t /\ [job[w] EXCEPT !.done = {}].done = {}
    BY ZenonT(60), <1>f, <1>t
  <2>7. WorkerMemory(w)'
    BY ZenonT(60), <1>e, <2>3, <2>5, <2>6
  <2> QED
    BY ZenonT(60), <1>o, <1>x, <2>1, <2>7
<1>5. CASE StampConflict(w) \/ RewindConflict(w)
  <2>1. /\ pc[w] \in {"restamp", "recursor"} /\ UNCHANGED <<status, history, mv_memory, tx_results>>
        /\ \/ Goto(w, "recursor", job[w])
           \/ \E d : Goto(w, "readd", [job[w] EXCEPT !.dep = d])
    BY ZenonT(60), <1>5 DEF StampConflict, RewindConflict
  <2>2. Estimated(t) /\ job[w].done = {}
    <3>1. pc[w] \notin {"run", "scan", "estimate"}
      BY ZenonT(60), <2>1
    <3> QED
      BY ZenonT(60), <1>t, <2>1, <3>1 DEF WorkerMemory
  <2>3. Estimated(t)'
    BY ZenonT(60), <2>1, <2>2 DEF Estimated, Written
  <2>4. \A d : [job[w] EXCEPT !.dep = d].tx = t /\ [job[w] EXCEPT !.dep = d].done = {}
    BY ZenonT(60), <1>f, <1>t, <2>2
  <2>5. WorkerMemory(w)'
    BY ZenonT(60), <1>e, <1>t, <2>1, <2>2, <2>3, <2>4
  <2> QED
    BY ZenonT(60), <1>o, <1>x, <2>1, <2>5
<1>6. CASE AddConflict(w)
  <2>1. /\ pc[w] = "readd" /\ Goto(w, "next", Idle) /\ SetStatus(t, "Conflict")
        /\ UNCHANGED <<history, mv_memory, tx_results>>
    BY ZenonT(60), <1>6, <1>t DEF AddConflict
  <2>2. status'[t] = "Conflict"
    BY ZenonT(60), <1>y, <2>1 DEF SetStatus
  <2>3. Estimated(t)
    BY ZenonT(60), <1>t, <2>1 DEF WorkerMemory
  <2>4. Covered(t)' /\ Estimated(t)'
    BY ZenonT(60), <1>v, <2>1, <2>3 DEF Covered, Estimated, Written
  <2>5. TxMemory(t)'
    BY ZenonT(60), <2>2, <2>4 DEF TxMemory
  <2> QED
    BY ZenonT(60), <1>i, <1>o, <1>q, <2>1, <2>5
<1> QED
  BY ZenonT(60), <1>1, <1>2, <1>3, <1>4, <1>5, <1>6 DEF ValidateStep

\* A step of no worker keeps what it leaves of the transactions that are not final.
LEMMA CoordinatorMemory ==
  ASSUME TypeInv, OwnInv, MemoryInv, UNCHANGED <<pc, job>>,
         \A x \in Tx : SameAt(x) \/ status'[x] = "Finality",
         \A v \in Workers : pc[v] \in BusyLabels => SameAt(job[v].tx)
  PROVE  MemoryInv'
<1>1. ASSUME NEW x \in Tx PROVE TxMemory(x)'
  BY ZenonT(60), SameEntries DEF TxMemory, MemoryInv
<1>2. ASSUME NEW v \in Workers PROVE WorkerMemory(v)'
  BY ZenonT(60), BusyNotFinal, SameMemory DEF MemoryInv, SameWorker
<1> QED
  BY ZenonT(60), <1>1, <1>2 DEF MemoryInv

\* Every step of every thread keeps what incarnations leave in the memory.
LEMMA MemoryStep ==
  ASSUME Ownership, MemoryInv, [Next]_vars
  PROVE  MemoryInv'
<1>0. TypeInv /\ OwnInv /\ NoParallelError
  BY ZenonT(60) DEF Ownership
<1>b. ASSUME NEW v \in Workers, pc[v] \in BusyLabels
      PROVE  /\ job[v].tx \in Tx /\ status[job[v].tx] # "Finality"
             /\ ~(status[job[v].tx] = "Unconfirmed" /\ holder[job[v].tx] = NoOne)
  BY ZenonT(60), <1>0, <1>b, BusyNotFinal, ThreadAssumption DEF OwnInv, BusyLabels,
     LockedLabels, TaskLabels, ExecuteLabels, RunLabels, ValidateLabels, WorkerOwn
<1>1. ASSUME NEW w \in Workers, WorkerStep(w) PROVE MemoryInv'
  BY ZenonT(60), <1>0, <1>1, ScheduleMemory, ReadMemoryKept, WriteMemoryKept, RecordMemoryKept,
     EndsMemoryKept, ValidateMemoryKept DEF WorkerStep, ExecuteStep
<1>2. CASE FinalityStep
  BY ZenonT(60), <1>0, <1>2, FinalityFrame, <1>b, CoordinatorMemory DEF SameAt
<1>3. CASE CommitStep
  BY ZenonT(60), <1>0, <1>3, CommitFrame, <1>b, CoordinatorMemory DEF SameAt
<1>4. CASE CallerStep \/ Finished \/ UNCHANGED vars
  BY ZenonT(60), <1>4, <1>b, <1>0, CoordinatorMemory DEF CallerStep, PostExecute, ReplayTx,
     ReplayEnd, Finished, vars, SameAt
<1> QED
  BY ZenonT(60), <1>1, <1>2, <1>3, <1>4 DEF Next

\* The memory of a new scheduler is empty.
LEMMA MemoryInitially == Init => MemoryInv
<1> SUFFICES ASSUME Init PROVE MemoryInv
  BY ZenonT(60)
<1>1. /\ \A l \in Loc, x \in Tx : ~Written(l, x)
      /\ \A x \in Tx : history[x].value = Estimate /\ tx_results[x].write_set = {}
  BY DEF Init, MemoryInit, HistoryInit, Absent, NoResult, Written
<1>2. \A w \in Workers : pc[w] = "next" /\ job[w].done = {}
  BY ZenonT(60) DEF Init, Idle
<1>3. "next" \notin RecordedLabels \cup {"run", "backing", "estimate", "restamp", "recursor", "readd"}
  BY ZenonT(60) DEF RecordedLabels
<1>4. \A x \in Tx : TxMemory(x)
  BY ZenonT(60), <1>1 DEF TxMemory, Covered, Estimated
<1>5. \A w \in Workers : WorkerMemory(w)
  BY ZenonT(60), <1>2, <1>3 DEF WorkerMemory
<1> QED
  BY ZenonT(60), <1>4, <1>5 DEF MemoryInv

\* A transaction that needs another execution has left estimates only.
LEMMA MemoryEstimates == Ownership /\ MemoryInv => InvalidatedIsEstimate
<1> SUFFICES ASSUME Ownership, MemoryInv, NEW t \in Tx, Invalidated(t)
             PROVE  /\ history[t].value = Estimate
                    /\ \A l \in Loc : mv_memory[l][t].incarnation > 0 => mv_memory[l][t].estimate
  BY ZenonT(60) DEF InvalidatedIsEstimate
<1>0. TypeInv /\ OwnInv /\ TxMemory(t) /\ TxOwn(t)
  BY ZenonT(60) DEF Ownership, OwnInv, MemoryInv
<1>1. CASE Estimated(t)
  BY ZenonT(60), <1>1 DEF Estimated, Written
<1>2. CASE status[t] = "Executing" /\ holder[t] # NoOne
  <2>1. PICK w \in Workers : holder[t] = w
    BY ZenonT(60), <1>0, <1>2 DEF TypeInv, TypeOK, TxTypeOK
  <2>2. pc[w] \in {"run", "backing"} /\ job[w].done = {} /\ job[w].tx = t
    BY ZenonT(60), <1>2, <1>0, <2>1 DEF Invalidated, TxOwn
  <2>3. RunMemory(w)
    BY ZenonT(60), <2>2 DEF MemoryInv, WorkerMemory
  <2> QED
    BY ZenonT(60), <2>2, <2>3 DEF RunMemory, Written
<1> QED
  BY ZenonT(60), <1>0, <1>1, <1>2 DEF Invalidated, TxMemory
=============================================================================
