------------------------- MODULE SchedulerTypeProofs ------------------------
(***************************************************************************)
(* Type correctness of the scheduler, and that what an incarnation has     *)
(* published is what its result says.  The steps keep both, for every      *)
(* block, every number of workers and every EVM.                           *)
(***************************************************************************)
EXTENDS SchedulerLemmas

USE DEF ctxVars, depVars, specVars, txVars, blockVars, workerVars, finalityVars

-----------------------------------------------------------------------------
(* Greatest elements                                                       *)

\* latest_unfinalized_blocker answers one of the given transactions.
LEMMA LatestUnfinalizedType ==
  ASSUME TypeInv, NEW S, S \subseteq Tx
  PROVE  LatestUnfinalized(S) \in S \cup {NoTx}
<1> DEFINE open == {t \in S : t >= finality}
<1>1. CASE open = {}
  BY ZenonT(60), <1>1 DEF LatestUnfinalized
<1>2. CASE open # {}
  BY ZenonT(60), <1>2, LatestExists DEF LatestUnfinalized
<1> QED
  BY ZenonT(60), <1>1, <1>2

\* The version a reader of t finds belongs to a transaction before t.
LEMMA LatestWriterType ==
  ASSUME TypeInv, NEW l, NEW t \in Tx
  PROVE  LatestWriter(l, t) \in Writers(l, t) \cup {NoTx}
BY ZenonT(60), LatestExists DEF LatestWriter, Writers

-----------------------------------------------------------------------------
(* Values                                                                  *)

\* Applying changes to a state gives a state.
LEMMA ApplyType ==
  ASSUME NEW st \in [Loc -> Val], NEW changes \in Readings, NEW r \in Val
  PROVE  Apply(st, changes, r) \in [Loc -> Val]
<1>1. \A l \in Loc : (IF l \in DOMAIN changes THEN changes[l] ELSE st[l]) \in Val
  BY ZenonT(60) DEF Readings
<1>2. \A l \in Loc : Credit(IF l \in DOMAIN changes THEN changes[l] ELSE st[l], r) \in Val
  BY ZenonT(60), <1>1, CreditType
<1> QED
  BY ZenonT(60), <1>1, <1>2 DEF Apply

\* The recorded effect of an execution on the beneficiary is an effect.
LEMMA EffectType ==
  ASSUME NEW t \in Tx, NEW vals \in Readings, Evm(t, vals).op = "ok"
  PROVE  EffectOf(t, vals) \in Effects
<1>1. Changes(t, vals) \in Readings /\ DeferredReward(t, vals) \in Val
  BY ZenonT(60), ChangesType
<1>2. 0 \in Val
  BY SMTT(60), BlockAssumption
<1>3. Ben \in DOMAIN Changes(t, vals) => Changes(t, vals)[Ben] \in Val
  BY ZenonT(60), <1>1 DEF Readings
<1> QED
  BY ZenonT(60), <1>1, <1>2, <1>3 DEF EffectOf, Effects, Reward, Snapshot, Unchanged

-----------------------------------------------------------------------------
(* The dependency graph                                                    *)

\* The operations of the dependency graph keep it well formed.
LEMMA RemoveType ==
  ASSUME DepTypeOK, NEW t \in Tx, NEW pop_next \in BOOLEAN, Remove(t, pop_next)
  PROVE  DepTypeOK' /\ Handed(t, pop_next) \in Tx \cup {NoTx}
<1>1. N \in Nat
  BY ZenonT(60), BlockAssumption
<1>2. Released(t) \subseteq Tx
  BY ZenonT(60) DEF Released, DepTypeOK
<1>3. Handed(t, pop_next) \in Tx \cup {NoTx}
  BY ZenonT(60), <1>2 DEF Handed
<1>4. index' \in {index} \cup Released(t)
  BY ZenonT(60) DEF Remove
<1>5. index' \in 0 .. N
  BY SMTT(60), <1>1, <1>2, <1>4 DEF DepTypeOK, Tx
<1> QED
  BY ZenonT(60), <1>2, <1>3, <1>5 DEF Remove, DepTypeOK

\* A rewind of the dependency cursor keeps it inside the block (fetch_min).
LEMMA RewoundIndex ==
  ASSUME DepTypeOK, NEW t \in Tx
  PROVE  Min(index, t) \in 0 .. N
BY BlockAssumption DEF DepTypeOK, Min, Tx

\* add keeps the types of the dependency graph.
LEMMA AddType ==
  ASSUME DepTypeOK, NEW t \in Tx, NEW dep \in Tx \cup {NoTx}, Add(t, dep)
  PROVE  DepTypeOK'
<1>1. CASE dep = NoTx
  BY ZenonT(60), <1>1, RewoundIndex DEF Add, AddFree, DepTypeOK
<1>2. CASE dep # NoTx
  <2>1. AddEdge(t, dep) /\ dep \in Tx
    BY ZenonT(60), <1>2 DEF Add
  <2>2. index' \in 0 .. N
    BY ZenonT(60), <2>1, RewoundIndex DEF AddEdge, DepTypeOK
  <2> QED
    BY ZenonT(60), <2>1, <2>2 DEF AddEdge, DepTypeOK
<1> QED
  BY ZenonT(60), <1>1, <1>2

\* key_tx keeps the types of the dependency graph.
LEMMA KeyTxType ==
  ASSUME DepTypeOK, NEW t \in Tx, NEW c \in Nat, KeyTx(t, c)
  PROVE  DepTypeOK'
BY ZenonT(60), RewoundIndex DEF KeyTx, DepTypeOK

\* commit keeps the types of the dependency graph.
LEMMA CommitType ==
  ASSUME DepTypeOK, NEW t \in Int, Commit(t), t + 1 >= 0
  PROVE  DepTypeOK'
<1>1. t + 1 < N => t + 1 \in Tx
  BY SMTT(60), BlockAssumption DEF Tx
<1>2. index' \in 0 .. N
  BY ZenonT(60), <1>1, RewoundIndex DEF Commit, DepTypeOK
<1> QED
  BY ZenonT(60), <1>1, <1>2 DEF Commit, DepTypeOK

-----------------------------------------------------------------------------
(* Aborts, memory, timestamps                                              *)

\* The first abort is kept, and an abort is one of the reasons.
LEMMA AbortType ==
  ASSUME abort_reason \in Reasons, NEW reason \in Reasons, Abort(reason)
  PROVE  abort_reason' \in Reasons
BY ZenonT(60) DEF Abort

\* The reasons the scheduler aborts with name transactions of the block.
LEMMA ReasonType ==
  ASSUME NEW t \in Tx
  PROVE  /\ ParallelError(t) \in Reasons
         /\ CommitError(t) \in Reasons
         /\ FatalEvmError(t) \in Reasons
         /\ FallbackSequential \in Reasons
BY ZenonT(60) DEF ParallelError, CommitError, FatalEvmError, FallbackSequential, Reasons, MaybeTx

\* One entry of the multi-version memory is written.
LEMMA SetEntryType ==
  ASSUME MemoryTypeOK, NEW l \in Loc, NEW t \in Tx, NEW entry \in Entries,
         SetEntry(l, t, entry)
  PROVE  MemoryTypeOK'
BY ZenonT(60) DEF MemoryTypeOK, SetEntry

\* mark_mv_estimate keeps the types of the memory.
LEMMA MarkEstimateType ==
  ASSUME MemoryTypeOK, NEW l \in Loc, NEW t \in Tx, MarkEstimate(l, t)
  PROVE  MemoryTypeOK'
<1> DEFINE entry == IF mv_memory[l][t].incarnation = 0 THEN mv_memory[l][t]
                    ELSE [mv_memory[l][t] EXCEPT !.estimate = TRUE]
<1>1. mv_memory[l][t] \in Entries
  BY ZenonT(60) DEF MemoryTypeOK
<1>2. entry \in Entries
  BY ZenonT(60), <1>1 DEF Entries
<1>3. mv_memory' = [mv_memory EXCEPT ![l][t] = entry]
  BY ZenonT(60) DEF MarkEstimate
<1> QED
  BY ZenonT(60), <1>2, <1>3 DEF MemoryTypeOK

\* A rewind stamps the clock and moves the validation cursor back.
LEMMA StampRewindType ==
  ASSUME NEW i \in Nat, StampRewind(i),
         logical_clock \in Nat \ {0}, lower_timestamps \in [Tx -> Nat]
  PROVE  logical_clock' \in Nat \ {0} /\ lower_timestamps' \in [Tx -> Nat]
<1>1. i < N => i \in Tx
  BY BlockAssumption DEF Tx
<1>2. \A x \in Tx : Max(lower_timestamps[x], logical_clock) \in Nat
  BY ZenonT(60) DEF Max
<1> QED
  BY <1>1, <1>2 DEF StampRewind

\* A rewind of the validation cursor keeps it inside the block (rewind_validation_to).
LEMMA RewindCursorType ==
  ASSUME NEW i \in Nat, RewindCursor(i), validation \in 0 .. N
  PROVE  validation' \in 0 .. N
BY BlockAssumption DEF RewindCursor, Min

-----------------------------------------------------------------------------
(* The workers: every step of an execution keeps the types                 *)

\* A worker between two tasks.
LEMMA IdleType == Idle \in Jobs /\ NoReads \in ReadSets /\ Idle.chain = <<>>
<1>1. 0 \in Val
  BY BlockAssumption
<1>2. <<>> \in Seq(Origin) /\ <<>> \in Seq(Links)
  OBVIOUS
<1>3. NoReads \in ReadSets
  BY ZenonT(60), <1>1, <1>2 DEF NoReads, NotRead, ReadSets
<1> QED
  BY ZenonT(60), <1>2, <1>3 DEF Idle, Jobs, MaybeTx

WorkersOK ==
  /\ pc \in [Workers -> WorkerLabels]
  /\ job \in [Workers -> Jobs]
  /\ BusyInv

\* A worker's jump keeps its local variables typed when the new ones are.
LEMMA GotoType ==
  ASSUME TypeInv, NEW w \in Workers, NEW label \in WorkerLabels, NEW j \in Jobs,
         Goto(w, label, j),
         label \notin IdleLabels =>
           j.tx \in Tx /\ (j.chain = <<>> \/ Len(j.chain) < j.tx)
  PROVE  WorkersOK'
<1>1. pc \in [Workers -> WorkerLabels] /\ job \in [Workers -> Jobs]
  BY ZenonT(60) DEF TypeInv, TypeOK, ThreadTypeOK
<1>2. pc' \in [Workers -> WorkerLabels] /\ job' \in [Workers -> Jobs]
  BY ZenonT(60), <1>1 DEF Goto
<1>3. ASSUME NEW v \in Workers, pc'[v] \notin IdleLabels
      PROVE  /\ job'[v].tx \in Tx
             /\ job'[v].chain = <<>> \/ Len(job'[v].chain) < job'[v].tx
  BY ZenonT(60), <1>1, <1>3 DEF Goto, TypeInv, BusyInv
<1> QED
  BY ZenonT(60), <1>2, <1>3 DEF WorkersOK, BusyInv

\* ... back to the scheduler, or with a new task.
LEMMA GotoIdle ==
  ASSUME TypeInv, NEW w \in Workers, NEW label \in IdleLabels, Goto(w, label, Idle)
  PROVE  WorkersOK'
BY ZenonT(60), GotoType, IdleType DEF IdleLabels, WorkerLabels

\* A worker that starts on a transaction of the block keeps the types of the workers.
LEMMA GotoFresh ==
  ASSUME TypeInv, NEW w \in Workers, NEW label \in WorkerLabels, NEW t \in Tx,
         Goto(w, label, [Idle EXCEPT !.tx = t])
  PROVE  WorkersOK'
BY ZenonT(60), IdleType, GotoType DEF Jobs, MaybeTx, Idle

\* What is known of a worker: its local variables are typed, and the EVM
\* keeps its contract in the execution it drives.
LEMMA WorkerType ==
  ASSUME TypeInv, NEW w \in Workers
  PROVE  /\ pc[w] \in WorkerLabels
         /\ job[w] \in Jobs
         /\ pc[w] \notin IdleLabels =>
              /\ job[w].tx \in Tx
              /\ job[w].chain = <<>> \/ Len(job[w].chain) < job[w].tx
              /\ Vals(job[w].reads) \in Readings
              /\ EvmStep(job[w].tx, Vals(job[w].reads))
<1>1. pc[w] \in WorkerLabels /\ job[w] \in Jobs
  BY ZenonT(60) DEF TypeInv, TypeOK, ThreadTypeOK
<1>2. Vals(job[w].reads) \in Readings
  BY ZenonT(60), <1>1, ValsType DEF Jobs
<1> QED
  BY ZenonT(60), <1>1, <1>2, EvmAssumption DEF TypeInv, BusyInv

\* A worker's step that touches nothing but its own local variables.
LEMMA LocalStep ==
  ASSUME TypeInv, WorkersOK',
         UNCHANGED <<ctxVars, depVars, specVars, txVars, abort_reason, blockVars,
                     finalityVars, commit_pc, phase>>
  PROVE  TypeInv'
BY ZenonT(60) DEF TypeInv, TypeOK, CtxTypeOK, DepTypeOK, HistoryTypeOK, MemoryTypeOK, TxTypeOK,
       BlockTypeOK, ThreadTypeOK, CursorInv, ResultInv, WorkersOK, ctxVars, depVars,
       specVars, txVars, blockVars, finalityVars

\* Scheduler::next and execution_task keep the types.
LEMMA ScheduleType ==
  ASSUME TypeInv, NEW w \in Workers, ScheduleStep(w)
  PROVE  TypeInv'
<1> DEFINE t == job[w].tx
<1>w. /\ pc[w] \in WorkerLabels
      /\ job[w] \in Jobs
      /\ pc[w] \notin IdleLabels =>
           t \in Tx /\ (job[w].chain = <<>> \/ Len(job[w].chain) < t)
  BY ZenonT(60), WorkerType
<1>n. N \in Nat
  BY ZenonT(60), BlockAssumption
<1>1. CASE WorkerExit(w)
  BY ZenonT(60), <1>1, GotoIdle, LocalStep DEF WorkerExit, IdleLabels
<1>2. CASE ClaimValidation(w)
  <2>1. validation \in Tx
    BY SMTT(60), <1>2, <1>n DEF ClaimValidation, ValidationClaimable, BelowFrontier, Tx,
                      TypeInv, TypeOK, CtxTypeOK
  <2>2. WorkersOK'
    BY ZenonT(60), <1>2, GotoFresh, <2>1 DEF ClaimValidation, WorkerLabels
  <2>3. CtxTypeOK'
    BY SMTT(60), <1>2, <1>n, <2>1 DEF ClaimValidation, TypeInv, TypeOK, CtxTypeOK, Tx
  <2> QED
    BY ZenonT(60), <1>2, <2>2, <2>3 DEF ClaimValidation, TypeInv, TypeOK, DepTypeOK,
       HistoryTypeOK, MemoryTypeOK, TxTypeOK, BlockTypeOK, ThreadTypeOK, WorkersOK, CursorInv,
       ResultInv
<1>3. CASE TakeValidation(w)
  <2>1. WorkersOK'
    <3>1. [job[w] EXCEPT !.incarnation = incarnation[t]] \in Jobs
      BY ZenonT(60), <1>3, <1>w DEF TakeValidation, Jobs, TypeInv, TypeOK, TxTypeOK, IdleLabels
    <3>2. Goto(w, "validate", [job[w] EXCEPT !.incarnation = incarnation[t]]) => WorkersOK'
      BY ZenonT(60), <1>3, <1>w, <3>1, GotoType DEF TakeValidation, Jobs, IdleLabels, WorkerLabels
    <3> QED
      BY ZenonT(60), <1>3, GotoIdle, <3>2 DEF TakeValidation, IdleLabels
  <2>2. TxTypeOK'
    BY ZenonT(60), <1>3 DEF TakeValidation, SetStatus, Statuses, TypeInv, TypeOK, TxTypeOK
  <2> QED
    BY ZenonT(60), <1>3, <2>1, <2>2 DEF TakeValidation, TypeInv, TypeOK, CtxTypeOK, DepTypeOK,
       HistoryTypeOK, MemoryTypeOK, BlockTypeOK, ThreadTypeOK, WorkersOK, CursorInv, ResultInv
<1>4. CASE AdvanceExecution(w)
  <2>1. index \in 0 .. N
    BY ZenonT(60) DEF TypeInv, TypeOK, DepTypeOK
  <2>2. WorkersOK'
    BY SMTT(60), <1>4, GotoIdle, GotoFresh, <1>n, <2>1 DEF AdvanceExecution, IdleLabels,
       WorkerLabels, Tx
  <2>3. DepTypeOK'
    BY SMTT(60), <1>4, <1>n, <2>1 DEF AdvanceExecution, AdvanceIndex, TypeInv, TypeOK, DepTypeOK
  <2> QED
    BY ZenonT(60), <1>4, <2>2, <2>3 DEF AdvanceExecution, TypeInv, TypeOK, CtxTypeOK,
       HistoryTypeOK, MemoryTypeOK, TxTypeOK, BlockTypeOK, ThreadTypeOK, WorkersOK, CursorInv,
       ResultInv
<1>5. CASE ClaimExecution(w)
  <2>1. WorkersOK'
    BY ZenonT(60), <1>5, GotoIdle, <1>w, GotoType DEF ClaimExecution, IdleLabels, WorkerLabels
  <2>2. DepTypeOK'
    BY ZenonT(60), <1>5 DEF ClaimExecution, Claim, Claimable, TypeInv, TypeOK, DepTypeOK
  <2> QED
    BY ZenonT(60), <1>5, <2>1, <2>2 DEF ClaimExecution, TypeInv, TypeOK, CtxTypeOK,
       HistoryTypeOK, MemoryTypeOK, TxTypeOK, BlockTypeOK, ThreadTypeOK, WorkersOK, CursorInv,
       ResultInv
<1>6. CASE TakeExecution(w)
  <2>1. TxTypeOK'
    BY SMTT(60), <1>6 DEF TakeExecution, SetStatus, Statuses, TypeInv, TypeOK, TxTypeOK
  <2>2. WorkersOK'
    <3>0. incarnation[t] + 1 \in Nat
      BY SMTT(60), <1>6, <1>w DEF TakeExecution, TypeInv, TypeOK, TxTypeOK, IdleLabels
    <3>1. [job[w] EXCEPT !.incarnation = incarnation[t] + 1] \in Jobs
      BY ZenonT(60), <1>w, <3>0 DEF Jobs
    <3>2. Goto(w, "execute", [job[w] EXCEPT !.incarnation = incarnation[t] + 1]) => WorkersOK'
      BY ZenonT(60), <1>6, <1>w, <3>1, GotoType DEF TakeExecution, Jobs, IdleLabels, WorkerLabels
    <3>3. Goto(w, "release", job[w]) => WorkersOK'
      BY ZenonT(60), <1>6, <1>w, GotoType DEF TakeExecution, IdleLabels, WorkerLabels
    <3> QED
      BY ZenonT(60), <1>6, GotoIdle, <3>2, <3>3 DEF TakeExecution, IdleLabels
  <2> QED
    BY ZenonT(60), <1>6, <2>1, <2>2 DEF TakeExecution, TypeInv, TypeOK, CtxTypeOK, DepTypeOK,
       HistoryTypeOK, MemoryTypeOK, BlockTypeOK, ThreadTypeOK, WorkersOK, CursorInv, ResultInv
<1>7. CASE ReleaseDependents(w)
  <2>1. WorkersOK'
    BY ZenonT(60), <1>7, GotoIdle DEF ReleaseDependents, IdleLabels
  <2>2. DepTypeOK'
    BY ZenonT(60), <1>7, <1>w, RemoveType DEF ReleaseDependents, IdleLabels, TypeInv, TypeOK
  <2> QED
    BY ZenonT(60), <1>7, <2>1, <2>2 DEF ReleaseDependents, TypeInv, TypeOK, CtxTypeOK,
       HistoryTypeOK, MemoryTypeOK, TxTypeOK, BlockTypeOK, ThreadTypeOK, WorkersOK, CursorInv,
       ResultInv
<1> QED
  BY ZenonT(60), <1>1, <1>2, <1>3, <1>4, <1>5, <1>6, <1>7 DEF ScheduleStep

-----------------------------------------------------------------------------
(* execute_task                                                            *)

\* A read bound in the worker's read set keeps the worker's task.
LEMMA GotReadType ==
  ASSUME TypeInv, NEW w \in Workers, NEW l \in Loc, NEW val \in Val,
         NEW origins \in Seq(Origin)
  PROVE  /\ GotRead(w, l, val, origins) \in Jobs
         /\ GotRead(w, l, val, origins).tx = job[w].tx
         /\ GotRead(w, l, val, origins).chain = <<>>
<1>1. job[w] \in Jobs
  BY ZenonT(60), WorkerType
<1>2. ReadAs(val, origins) \in [read : BOOLEAN, val : Val, origins : Seq(Origin)]
  BY ZenonT(60) DEF ReadAs
<1>3. [job[w].reads EXCEPT ![l] = ReadAs(val, origins)] \in ReadSets
  BY ZenonT(60), <1>1, <1>2 DEF Jobs, ReadSets
<1>4. <<>> \in Seq(Links)
  OBVIOUS
<1> QED
  BY ZenonT(60), <1>1, <1>3, <1>4 DEF GotRead, Jobs

\* One more location done.
LEMMA MarkDoneType ==
  ASSUME TypeInv, NEW w \in Workers, NEW l \in Loc, MarkDone(w, l),
         pc[w] \notin IdleLabels
  PROVE  WorkersOK'
<1>1. /\ pc[w] \in WorkerLabels
      /\ job[w] \in Jobs
      /\ job[w].tx \in Tx
      /\ job[w].chain = <<>> \/ Len(job[w].chain) < job[w].tx
  BY ZenonT(60), WorkerType
<1> DEFINE j == [job[w] EXCEPT !.done = @ \cup {l}]
<1>2. j \in Jobs /\ j.tx = job[w].tx /\ j.chain = job[w].chain
  BY ZenonT(60), <1>1 DEF Jobs
<1>3. Goto(w, pc[w], j)
  BY ZenonT(60) DEF MarkDone
<1> QED
  BY ZenonT(60), <1>1, <1>2, <1>3, GotoType

\* IncarnationDb's reads keep the types: a location of the state is bound to
\* a value of a preceding transaction, of the store or of the history.
LEMMA ReadType ==
  ASSUME TypeInv, NEW w \in Workers,
         ReadMemory(w) \/ ReadBacking(w) \/ ReadBeneficiary(w)
  PROVE  TypeInv'
<1> DEFINE t == job[w].tx
           l == Step(w).loc
<1>p. pc[w] \in {"run", "backing"}
  BY ZenonT(60) DEF ReadMemory, ReadBacking, ReadBeneficiary
<1>w. /\ pc[w] \in WorkerLabels
      /\ job[w] \in Jobs
      /\ t \in Tx
      /\ job[w].chain = <<>> \/ Len(job[w].chain) < t
      /\ Vals(job[w].reads) \in Readings
      /\ EvmStep(t, Vals(job[w].reads))
  BY ZenonT(60), <1>p, WorkerType DEF IdleLabels
<1>r. Step(w).op = "read" => l \in Loc
  BY ZenonT(60), <1>w DEF Step, EvmStep
<1>j. WorkersOK' => TypeInv'
  BY ZenonT(60), LocalStep DEF ReadMemory, ReadBacking, ReadBeneficiary
<1>g. ASSUME NEW j \in Jobs, j.tx = t, j.chain = <<>> \/ Len(j.chain) < t,
             Goto(w, "run", j)
      PROVE  WorkersOK'
  BY ZenonT(60), <1>w, <1>g, GotoType DEF WorkerLabels
<1>1. CASE ReadMemory(w)
  <2> DEFINE p == LatestWriter(l, t)
             entry == mv_memory[l][p]
             read == GotRead(w, l, entry.data, <<<<p, entry.incarnation>>>>)
  <2>1. l \in Loc
    BY ZenonT(60), <1>1, <1>r DEF ReadMemory
  <2>2. CASE p = NoTx
    <3>1. Goto(w, "backing", job[w])
      BY ZenonT(60), <1>1, <2>2 DEF ReadMemory
    <3>2. WorkersOK'
      BY ZenonT(60), <1>w, <3>1, GotoType DEF WorkerLabels
    <3> QED
      BY ZenonT(60), <3>2, <1>j
  <2>3. CASE p # NoTx
    <3>1. p \in Tx
      BY ZenonT(60), <1>w, <2>3, LatestWriterType DEF Writers
    <3>2. entry \in Entries
      BY ZenonT(60), <2>1, <3>1 DEF TypeInv, TypeOK, MemoryTypeOK
    <3>3. entry.data \in Val /\ <<<<p, entry.incarnation>>>> \in Seq(Origin)
      BY SMTT(60), <3>1, <3>2 DEF Entries, Origin
    <3>4. read \in Jobs /\ read.tx = t /\ read.chain = <<>>
      BY ZenonT(60), <2>1, <3>3, GotReadType
    <3> DEFINE j == [read EXCEPT !.blocking = IF entry.estimate THEN @ \cup {p} ELSE @]
    <3>5. Goto(w, "run", j)
      BY ZenonT(60), <1>1, <2>3 DEF ReadMemory
    <3>6. j \in Jobs /\ j.tx = t /\ j.chain = <<>>
      <4> HIDE DEF read
      <4> QED BY ZenonT(60), <3>1, <3>4 DEF Jobs
    <3> QED
      BY ZenonT(60), <3>5, <3>6, <1>g, <1>j
  <2> QED
    BY ZenonT(60), <2>2, <2>3
<1>2. CASE ReadBacking(w)
  <2>1. Goto(w, "run", GotRead(w, l, store[l], <<>>))
    BY ZenonT(60), <1>2 DEF ReadBacking
  <2>2. CASE l \in Loc
    <3>1. store[l] \in Val /\ <<>> \in Seq(Origin)
      BY SMTT(60), <2>2 DEF TypeInv, TypeOK, BlockTypeOK
    <3> QED
      BY ZenonT(60), <2>1, <2>2, <3>1, <1>g, <1>j, GotReadType
  <2>3. CASE l \notin Loc
    <3>1. <<>> \in Seq(Links)
      BY SMTT(60)
    <3>2. [job[w].reads EXCEPT ![l] = ReadAs(store[l], <<>>)] = job[w].reads
      BY ZenonT(60), <1>w, <2>3 DEF Jobs, ReadSets
    <3>3. GotRead(w, l, store[l], <<>>) = [job[w] EXCEPT !.chain = <<>>]
      BY ZenonT(60), <1>w, <3>2 DEF GotRead, Jobs
    <3>4. [job[w] EXCEPT !.chain = <<>>] \in Jobs
      BY ZenonT(60), <1>w, <3>1 DEF Jobs
    <3> QED
      BY ZenonT(60), <1>w, <2>1, <3>3, <3>4, <1>g, <1>j DEF Jobs
  <2> QED
    BY ZenonT(60), <2>2, <2>3
<1>3. CASE ReadBeneficiary(w)
  <2> DEFINE writer == (t - Len(job[w].chain)) - 1
             chain == Append(job[w].chain, Link(writer))
  <2>0. Ben \in Loc /\ 0 \in Val /\ InitStore[Ben] \in Val /\ <<>> \in Seq(Origin)
    BY SMTT(60), BlockAssumption
  <2>1. CASE t = 0
    BY ZenonT(60), <1>3, <2>0, <2>1, <1>g, <1>j, GotReadType DEF ReadBeneficiary
  <2>2. CASE t # 0
    <3>1. writer \in Tx /\ writer = t - (Len(job[w].chain) + 1) /\ Len(job[w].chain) \in Nat
      <4>1. job[w].chain \in Seq(Links)
        BY ZenonT(60), <1>w DEF Jobs
      <4>2. Len(job[w].chain) \in Nat /\ Len(job[w].chain) < t
        BY ZenonT(60), <1>w, <2>2, <4>1, ScanPosition
      <4> QED
        BY ZenonT(60), <1>w, <4>2, ScanPosition
    <3>2. Link(writer) \in Links
      BY ZenonT(60), <3>1 DEF Link, Links, TypeInv, TypeOK, HistoryTypeOK
    <3>3. /\ chain \in Seq(Links)
          /\ Len(chain) = Len(job[w].chain) + 1
      BY SMTT(60), <1>w, <3>2 DEF Jobs
    <3>4. CASE history[writer].value = Estimate
      <4> DEFINE read == GotRead(w, Ben, 0, <<>>)
                 j == [read EXCEPT !.blocking = @ \cup {writer}]
      <4>1. Goto(w, "run", j)
        BY ZenonT(60), <1>3, <2>2, <3>4 DEF ReadBeneficiary
      <4>2. read \in Jobs /\ read.tx = t /\ read.chain = <<>>
        BY ZenonT(60), <2>0, GotReadType
      <4>3. j \in Jobs /\ j.tx = t /\ j.chain = <<>>
        <5> HIDE DEF read, writer
        <5> QED BY ZenonT(60), <3>1, <4>2 DEF Jobs
      <4> QED
        BY ZenonT(60), <4>1, <4>3, <1>g, <1>j
    <3>5. CASE history[writer].value # Estimate /\ ScanEndsAt(writer)
      <4>1. PICK balances \in [0 .. Len(chain) -> Val] :
              Goto(w, "run", GotRead(w, Ben, balances[Len(chain)], Origins(chain)))
        BY ZenonT(60), <1>3, <2>2, <3>5 DEF ReadBeneficiary
      <4>2. balances[Len(chain)] \in Val
        BY SMTT(60), <3>1, <3>3
      <4>3. Origins(chain) \in Seq(Origin)
        BY ZenonT(60), <3>3, OriginsType
      <4> DEFINE j == GotRead(w, Ben, balances[Len(chain)], Origins(chain))
      <4>4. j \in Jobs /\ j.tx = t /\ j.chain = <<>>
        BY ZenonT(60), <2>0, <4>2, <4>3, GotReadType
      <4> QED
        BY ZenonT(60), <4>1, <4>4, <1>g, <1>j
    <3>6. CASE history[writer].value # Estimate /\ ~ScanEndsAt(writer)
      <4> DEFINE j == [job[w] EXCEPT !.chain = chain]
      <4>1. Goto(w, "run", j)
        BY ZenonT(60), <1>3, <2>2, <3>6 DEF ReadBeneficiary
      <4>2. j \in Jobs /\ j.tx = t /\ j.chain = chain
        BY ZenonT(60), <1>w, <3>3 DEF Jobs
      <4>3. Len(chain) < t
        <5>1. PICK n \in Nat : n = Len(chain) /\ writer = t - n /\ writer # 0 /\ writer \in Tx
          <6>1. writer # 0
            BY ZenonT(60), <3>6 DEF ScanEndsAt
          <6>2. Len(chain) \in Nat
            BY <3>3
          <6> QED
            BY ZenonT(60), <3>1, <3>3, <6>1, <6>2
        <5>2. t \in Tx /\ t - n \in Tx /\ t - n # 0
          BY ZenonT(60), <1>w, <5>1
        <5>3. n < t
          BY ZenonT(60), <5>1, <5>2, ScanPosition
        <5> QED
          BY ZenonT(60), <5>1, <5>3
      <4> QED
        BY ZenonT(60), <4>1, <4>2, <4>3, <1>g, <1>j
    <3> QED
      BY ZenonT(60), <3>4, <3>5, <3>6
  <2> QED
    BY ZenonT(60), <2>1, <2>2
<1> QED
  BY ZenonT(60), <1>1, <1>2, <1>3

\* execute_task keeps the types until its result is recorded.
LEMMA PublishType ==
  ASSUME TypeInv, NEW w \in Workers,
         \/ BeginExecution(w) \/ PublishWrite(w) \/ PruneWrite(w)
         \/ MarkFailedWrite(w)
  PROVE  TypeInv'
<1> DEFINE t == job[w].tx
           vals == Vals(job[w].reads)
<1>p. pc[w] \in {"execute", "run"}
  BY ZenonT(60) DEF BeginExecution, PublishWrite, PruneWrite, MarkFailedWrite
<1>w. /\ pc[w] \in WorkerLabels
      /\ job[w] \in Jobs
      /\ t \in Tx
      /\ job[w].chain = <<>> \/ Len(job[w].chain) < t
      /\ vals \in Readings
      /\ EvmStep(t, vals)
  BY ZenonT(60), <1>p, WorkerType DEF IdleLabels
<1>n. pc[w] \notin IdleLabels
  BY ZenonT(60), <1>p DEF IdleLabels
<1>1. CASE BeginExecution(w)
  <2>1. WorkersOK'
    BY ZenonT(60), <1>w, GotoType, <1>1, GotoIdle DEF WorkerLabels, BeginExecution, GiveUp,
       IdleLabels
  <2>2. TxTypeOK'
    BY ZenonT(60), <1>1 DEF BeginExecution, Lock, TypeInv, TypeOK, TxTypeOK
  <2>3. abort_reason' \in Reasons
    BY ZenonT(60), <1>1, <1>w, AbortType, ReasonType
       DEF BeginExecution, GiveUp, TypeInv, TypeOK, BlockTypeOK
  <2> QED
    BY ZenonT(60), <1>1, <2>1, <2>2, <2>3 DEF BeginExecution, TypeInv, TypeOK, CtxTypeOK,
       DepTypeOK, HistoryTypeOK, MemoryTypeOK, BlockTypeOK, ThreadTypeOK, WorkersOK,
       CursorInv, ResultInv
<1>m. ASSUME WorkersOK', MemoryTypeOK',
             UNCHANGED <<ctxVars, depVars, history, txVars, abort_reason, blockVars,
                         finalityVars, commit_pc, phase>>
      PROVE  TypeInv'
  BY ZenonT(60), <1>m DEF TypeInv, TypeOK, CtxTypeOK, DepTypeOK, HistoryTypeOK, TxTypeOK,
     BlockTypeOK, ThreadTypeOK, WorkersOK, CursorInv, ResultInv
<1>2. CASE PublishWrite(w)
  <2>1. Evm(t, vals).op = "ok"
    BY ZenonT(60), <1>2 DEF PublishWrite, Step
  <2>2. PICK l \in WriteSet(w) :
          /\ PublishValue(l, t, job[w].incarnation, Changes(t, vals)[l],
                          job[w].blocking # {})
          /\ MarkDone(w, l)
    BY ZenonT(60), <1>2 DEF PublishWrite
  <2>3. l \in Loc /\ Changes(t, vals)[l] \in Val
    BY ZenonT(60), <1>w, <2>1, PublishedType DEF WriteSet
  <2>4. [incarnation |-> job[w].incarnation, data |-> Changes(t, vals)[l],
         estimate |-> job[w].blocking # {}] \in Entries
    BY ZenonT(60), <1>w, <2>3 DEF Entries, Jobs
  <2>5. MemoryTypeOK'
    BY ZenonT(60), <1>w, <2>2, <2>3, <2>4, SetEntryType DEF PublishValue, TypeInv, TypeOK
  <2>6. WorkersOK'
    BY ZenonT(60), <1>n, <2>2, <2>3, MarkDoneType
  <2> QED
    BY ZenonT(60), <1>2, <1>m, <2>5, <2>6 DEF PublishWrite
<1>r. tx_results[t].write_set \in SUBSET Loc
  BY ZenonT(60), <1>w DEF TypeInv, TypeOK, TxTypeOK, TxResults
<1>3. CASE PruneWrite(w)
  <2>1. PICK l \in StaleSet(w) : RemoveValue(l, t) /\ MarkDone(w, l)
    BY ZenonT(60), <1>3 DEF PruneWrite
  <2>2. l \in Loc
    BY ZenonT(60), <1>r DEF StaleSet
  <2>3. Absent \in Entries
    BY SMTT(60), BlockAssumption DEF Absent, Entries
  <2>4. MemoryTypeOK'
    BY ZenonT(60), <1>w, <2>1, <2>2, <2>3, SetEntryType DEF RemoveValue, TypeInv, TypeOK
  <2>5. WorkersOK'
    BY ZenonT(60), <1>n, <2>1, <2>2, MarkDoneType
  <2> QED
    BY ZenonT(60), <1>3, <1>m, <2>4, <2>5 DEF PruneWrite
<1>4. CASE MarkFailedWrite(w)
  <2>1. PICK l \in tx_results[t].write_set : MarkEstimate(l, t) /\ MarkDone(w, l)
    BY ZenonT(60), <1>4 DEF MarkFailedWrite
  <2>2. l \in Loc
    BY ZenonT(60), <1>r
  <2>3. MemoryTypeOK'
    BY ZenonT(60), <1>w, <2>1, <2>2, MarkEstimateType DEF TypeInv, TypeOK
  <2>4. WorkersOK'
    BY ZenonT(60), <1>n, <2>1, <2>2, MarkDoneType
  <2> QED
    BY ZenonT(60), <1>4, <1>m, <2>3, <2>4 DEF MarkFailedWrite
<1> QED
  BY ZenonT(60), <1>1, <1>2, <1>3, <1>4

\* Recording the result of an execution keeps the types, and a successful
\* result is that of an execution that ended well.
LEMMA RecordType ==
  ASSUME TypeInv, NEW w \in Workers, RecordExecution(w) \/ RecordFailure(w)
  PROVE  TypeInv'
<1> DEFINE t == job[w].tx
           vals == Vals(job[w].reads)
<1>w. /\ pc[w] \in WorkerLabels
      /\ job[w] \in Jobs
      /\ t \in Tx
      /\ vals \in Readings
      /\ EvmStep(t, vals)
  BY ZenonT(60), WorkerType DEF RecordExecution, RecordFailure, IdleLabels
<1>e. Estimate \in Effects
  BY SMTT(60), BlockAssumption DEF Estimate, Effects
<1>d. LatestUnfinalized(job[w].blocking) \in MaybeTx
  BY ZenonT(60), <1>w, LatestUnfinalizedType DEF Jobs, MaybeTx
<1>a. abort_reason \in Reasons
  BY ZenonT(60) DEF TypeInv, TypeOK, BlockTypeOK
<1>j. ASSUME NEW label \in WorkerLabels, NEW conflict \in BOOLEAN, NEW fresh \in BOOLEAN,
             Goto(w, label, [Idle EXCEPT !.tx = t, !.incarnation = job[w].incarnation,
                               !.conflict = conflict, !.fresh = fresh,
                               !.dep = LatestUnfinalized(job[w].blocking)])
      PROVE  WorkersOK'
  <2> DEFINE j == [Idle EXCEPT !.tx = t, !.incarnation = job[w].incarnation,
                     !.conflict = conflict, !.fresh = fresh,
                     !.dep = LatestUnfinalized(job[w].blocking)]
  <2>1. j \in Jobs /\ j.tx = t /\ j.chain = <<>>
    <3>1. t \in MaybeTx /\ job[w].incarnation \in Nat
      BY ZenonT(60), <1>w DEF Jobs, MaybeTx
    <3>2. Idle \in Jobs
      BY ZenonT(60), IdleType
    <3>3. j \in Jobs
      BY ZenonT(60), <1>d, <1>j, <3>1, <3>2 DEF Jobs
    <3>4. j.tx = t /\ j.chain = <<>>
      BY ZenonT(60) DEF Idle
    <3> QED
      BY ZenonT(60), <3>3, <3>4
  <2> HIDE DEF j
  <2> QED
    BY ZenonT(60), <1>j, <1>w, <2>1, GotoType DEF j
<1>g. ASSUME GiveUp(w) /\ Unlock(t) /\ UNCHANGED <<history, tx_results>>,
             UNCHANGED <<ctxVars, depVars, mv_memory, status, incarnation, blockVars,
                         finalityVars, commit_pc, phase>>
      PROVE  TypeInv'
  <2>1. WorkersOK'
    BY ZenonT(60), <1>g, GotoIdle DEF GiveUp, IdleLabels
  <2>2. abort_reason' \in Reasons
    BY ZenonT(60), <1>a, <1>g, <1>w, AbortType, ReasonType DEF GiveUp
  <2>3. TxTypeOK'
    BY ZenonT(60), <1>g DEF Unlock, TypeInv, TypeOK, TxTypeOK
  <2> QED
    BY ZenonT(60), <1>g, <2>1, <2>2, <2>3 DEF TypeInv, TypeOK, CtxTypeOK, DepTypeOK, HistoryTypeOK,
       MemoryTypeOK, BlockTypeOK, ThreadTypeOK, WorkersOK, CursorInv, ResultInv
<1>q. ASSUME WorkersOK', HistoryTypeOK', TxTypeOK', ResultInv', abort_reason' \in Reasons,
             UNCHANGED <<ctxVars, depVars, mv_memory, status, incarnation, blockVars,
                         finalityVars, commit_pc, phase>>
      PROVE  TypeInv'
  BY ZenonT(60), <1>q DEF TypeInv, TypeOK, CtxTypeOK, DepTypeOK, MemoryTypeOK, BlockTypeOK,
     ThreadTypeOK, WorkersOK, CursorInv
<1>h. ASSUME NEW value \in Effects, RecordEntry(t, job[w].incarnation, value)
      PROVE  HistoryTypeOK'
  BY ZenonT(60), <1>h, <1>w DEF RecordEntry, HistoryTypeOK, TypeInv, TypeOK, Jobs
<1>1. CASE RecordExecution(w) /\ Recordable(t, job[w].incarnation)
  <2>1. Evm(t, vals).op = "ok"
    BY ZenonT(60), <1>1 DEF RecordExecution, Step
  <2>2. EffectOf(t, vals) \in Effects
    BY ZenonT(60), <1>w, <2>1, EffectType
  <2>3. HistoryTypeOK'
    BY ZenonT(60), <1>1, <1>h, <1>e, <2>2 DEF RecordExecution
  <2>4. WriteSet(w) \in SUBSET Loc
    BY ZenonT(60), <1>w, <2>1, PublishedType DEF WriteSet
  <2> DEFINE result == [kind |-> "Ok", reads |-> job[w].reads, write_set |-> WriteSet(w)]
  <2>5. result \in TxResults
    BY ZenonT(60), <1>w, <2>4 DEF TxResults, Jobs
  <2>6. tx_results' = [tx_results EXCEPT ![t] = result] /\ UNCHANGED <<holder, abort_reason>>
    BY ZenonT(60), <1>1 DEF RecordExecution
  <2>7. TxTypeOK'
    <3> HIDE DEF result
    <3> QED BY ZenonT(60), <1>1, <1>w, <2>5, <2>6 DEF RecordExecution, TypeInv, TypeOK, TxTypeOK
  <2>8. ResultInv'
    <3>1. tx_results \in [Tx -> TxResults]
      BY ZenonT(60) DEF TypeInv, TypeOK, TxTypeOK
    <3>2. tx_results'[t] = result /\ \A x \in Tx \ {t} : tx_results'[x] = tx_results[x]
      BY ZenonT(60), <1>w, <2>6, <3>1
    <3>3. tx_results'[t].reads = job[w].reads
      BY SMTT(60), <3>2
    <3> QED
      BY ZenonT(60), <2>1, <3>2, <3>3 DEF TypeInv, ResultInv
  <2>9. WorkersOK'
    BY ZenonT(60), <1>1, <1>j DEF RecordExecution, WorkerLabels
  <2> QED
    BY ZenonT(60), <1>1, <1>a, <1>q, <2>3, <2>6, <2>7, <2>8, <2>9 DEF RecordExecution
<1>2. CASE RecordExecution(w) /\ ~Recordable(t, job[w].incarnation)
  BY ZenonT(60), <1>2, <1>g DEF RecordExecution
<1>3. CASE RecordFailure(w) /\ Recordable(t, job[w].incarnation)
  <2>1. HistoryTypeOK'
    BY ZenonT(60), <1>3, <1>h, <1>e DEF RecordFailure
  <2>2. /\ tx_results' = [tx_results EXCEPT ![t].kind = "Err", ![t].reads = NoReads]
        /\ UNCHANGED holder
    BY ZenonT(60), <1>3 DEF RecordFailure
  <2>3. tx_results \in [Tx -> TxResults]
    BY ZenonT(60) DEF TypeInv, TypeOK, TxTypeOK
  <2>4. tx_results' \in [Tx -> TxResults] /\ tx_results'[t].kind = "Err"
    BY ZenonT(60), <1>w, <2>2, <2>3, IdleType DEF TxResults
  <2>5. TxTypeOK'
    BY ZenonT(60), <1>3, <2>2, <2>4 DEF RecordFailure, TypeInv, TypeOK, TxTypeOK
  <2>6. ResultInv'
    <3>1. \A x \in Tx \ {t} : tx_results'[x] = tx_results[x]
      BY ZenonT(60), <2>2, <2>3
    <3> QED
      BY ZenonT(60), <2>4, <3>1 DEF TypeInv, ResultInv
  <2>7. abort_reason' \in Reasons
    BY ZenonT(60), <1>3, <1>a, <1>w, AbortType, ReasonType DEF RecordFailure
  <2>8. WorkersOK'
    <3> DEFINE j == [Idle EXCEPT !.tx = t, !.incarnation = job[w].incarnation,
                       !.conflict = TRUE, !.dep = LatestUnfinalized(job[w].blocking)]
               label == IF job[w].blocking # {} THEN "depend" ELSE "key"
    <3>1. Goto(w, label, j)
      BY ZenonT(60), <1>3 DEF RecordFailure
    <3>2. j \in Jobs /\ j.tx = t /\ j.chain = <<>>
      BY ZenonT(60), <1>w, <1>d, IdleType DEF Jobs, MaybeTx, Idle
    <3>3. label \in WorkerLabels
      BY ZenonT(60) DEF WorkerLabels
    <3> QED
      BY ZenonT(60), <1>w, <3>1, <3>2, <3>3, GotoType
  <2> QED
    BY ZenonT(60), <1>3, <1>q, <2>1, <2>5, <2>6, <2>7, <2>8 DEF RecordFailure
<1>4. CASE RecordFailure(w) /\ ~Recordable(t, job[w].incarnation)
  BY ZenonT(60), <1>4, <1>g DEF RecordFailure
<1> QED
  BY ZenonT(60), <1>1, <1>2, <1>3, <1>4

-----------------------------------------------------------------------------
(* The end of execute_task                                                 *)

\* The end of execute_task, with the lock held, keeps the types.
LEMMA FinishType ==
  ASSUME TypeInv, NEW w \in Workers,
         \/ Depend(w) \/ HoldKeyTx(w) \/ FinishExecution(w) \/ StampExecution(w)
         \/ RewindExecution(w)
  PROVE  TypeInv'
<1> DEFINE t == job[w].tx
<1>p. pc[w] \in {"depend", "key", "executed", "stamp", "rewind"}
  BY ZenonT(60) DEF Depend, HoldKeyTx, FinishExecution, StampExecution, RewindExecution
<1>w. /\ pc[w] \in WorkerLabels
      /\ job[w] \in Jobs
      /\ t \in Tx
      /\ job[w].chain = <<>> \/ Len(job[w].chain) < t
  BY ZenonT(60), <1>p, WorkerType DEF IdleLabels
<1>g. \A label \in WorkerLabels : Goto(w, label, job[w]) => WorkersOK'
  BY ZenonT(60), <1>w, GotoType
<1>t. RewindTarget(w) \in Nat
  <2>1. t \in Nat
    BY SMTT(60), <1>w DEF Tx
  <2>2. RewindTarget(w) \in {t, t + 1}
    BY ZenonT(60) DEF RewindTarget
  <2> HIDE DEF t
  <2> QED
    BY SMTT(60), <2>1, <2>2
<1>1. CASE Depend(w)
  <2>1. CASE job[w].conflict
    <3>1. Add(t, job[w].dep) /\ Goto(w, "executed", job[w])
      BY ZenonT(60), <1>1, <2>1 DEF Depend
    <3>2. DepTypeOK'
      BY ZenonT(60), <1>w, <3>1, AddType DEF Jobs, MaybeTx, TypeInv, TypeOK
    <3>3. WorkersOK'
      BY ZenonT(60), <1>g, <3>1 DEF WorkerLabels
    <3> QED
      BY ZenonT(60), <1>1, <3>2, <3>3 DEF Depend, TypeInv, TypeOK, CtxTypeOK, HistoryTypeOK,
         MemoryTypeOK, TxTypeOK, BlockTypeOK, ThreadTypeOK, WorkersOK, CursorInv,
         ResultInv
  <2>2. CASE ~job[w].conflict
    <3> DEFINE j == [job[w] EXCEPT !.next = Handed(t, TRUE)]
    <3>1. Remove(t, TRUE) /\ Goto(w, "executed", j)
      BY ZenonT(60), <1>1, <2>2 DEF Depend
    <3>2. DepTypeOK' /\ Handed(t, TRUE) \in MaybeTx
      BY ZenonT(60), <1>w, <3>1, RemoveType DEF MaybeTx, TypeInv, TypeOK
    <3>3. j \in Jobs /\ j.tx = t /\ j.chain = job[w].chain
      BY ZenonT(60), <1>w, <3>2 DEF Jobs
    <3>4. WorkersOK'
      BY ZenonT(60), <1>w, <3>1, <3>3, GotoType DEF WorkerLabels
    <3> QED
      BY ZenonT(60), <1>1, <3>2, <3>4 DEF Depend, TypeInv, TypeOK, CtxTypeOK, HistoryTypeOK,
         MemoryTypeOK, TxTypeOK, BlockTypeOK, ThreadTypeOK, WorkersOK, CursorInv,
         ResultInv
  <2> QED
    BY ZenonT(60), <2>1, <2>2
<1>2. CASE HoldKeyTx(w)
  <2>1. committed \in Nat
    BY SMTT(60) DEF TypeInv, TypeOK, CtxTypeOK
  <2>2. DepTypeOK'
    BY ZenonT(60), <1>2, <1>w, <2>1, KeyTxType DEF HoldKeyTx, TypeInv, TypeOK
  <2>3. WorkersOK'
    BY ZenonT(60), <1>2, <1>g DEF HoldKeyTx, WorkerLabels
  <2> QED
    BY ZenonT(60), <1>2, <2>2, <2>3 DEF HoldKeyTx, TypeInv, TypeOK, CtxTypeOK, HistoryTypeOK,
       MemoryTypeOK, TxTypeOK, BlockTypeOK, ThreadTypeOK, WorkersOK, CursorInv,
       ResultInv
<1>3. CASE FinishExecution(w)
  <2> DEFINE j == [Idle EXCEPT !.tx = t, !.incarnation = job[w].incarnation]
  <2>1. j \in Jobs /\ j.tx = t /\ j.chain = <<>>
    BY ZenonT(60), <1>w, IdleType DEF Jobs, MaybeTx, Idle
  <2>2. WorkersOK'
    BY ZenonT(60), <1>w, <2>1, GotoType, <1>3, <1>g DEF WorkerLabels, FinishExecution
  <2>3. TxTypeOK'
    BY ZenonT(60), <1>3 DEF FinishExecution, SetStatus, Unlock, Statuses, TypeInv, TypeOK, TxTypeOK
  <2>4. CtxTypeOK'
    BY ZenonT(60), <1>3 DEF FinishExecution, TypeInv, TypeOK, CtxTypeOK
  <2> QED
    BY ZenonT(60), <1>3, <2>2, <2>3, <2>4 DEF FinishExecution, TypeInv, TypeOK, DepTypeOK,
       HistoryTypeOK, MemoryTypeOK, BlockTypeOK, ThreadTypeOK, WorkersOK, CursorInv,
       ResultInv
<1>4. CASE StampExecution(w)
  <2>1. logical_clock' \in Nat \ {0} /\ lower_timestamps' \in [Tx -> Nat]
    BY ZenonT(60), <1>4, <1>t, StampRewindType DEF StampExecution, TypeInv, TypeOK, CtxTypeOK
  <2>2. WorkersOK'
    BY ZenonT(60), <1>4, <1>g DEF StampExecution, WorkerLabels
  <2> QED
    BY ZenonT(60), <1>4, <2>1, <2>2 DEF StampExecution, TypeInv, TypeOK, CtxTypeOK, DepTypeOK,
       HistoryTypeOK, MemoryTypeOK, TxTypeOK, BlockTypeOK, ThreadTypeOK, WorkersOK,
       CursorInv, ResultInv
<1>5. CASE RewindExecution(w)
  <2>1. validation' \in 0 .. N
    BY ZenonT(60), <1>5, <1>t, RewindCursorType DEF RewindExecution, TypeInv, TypeOK, CtxTypeOK
  <2>2. WorkersOK'
    BY ZenonT(60), <1>w, <1>5, GotoIdle, GotoFresh DEF Jobs, MaybeTx, RewindExecution,
       IdleLabels, WorkerLabels
  <2>3. TxTypeOK'
    BY ZenonT(60), <1>5 DEF RewindExecution, Unlock, TypeInv, TypeOK, TxTypeOK
  <2> QED
    BY ZenonT(60), <1>5, <2>1, <2>2, <2>3 DEF RewindExecution, TypeInv, TypeOK, CtxTypeOK,
       DepTypeOK,
       HistoryTypeOK, MemoryTypeOK, BlockTypeOK, ThreadTypeOK, WorkersOK, CursorInv,
       ResultInv
<1> QED
  BY ZenonT(60), <1>1, <1>2, <1>3, <1>4, <1>5

-----------------------------------------------------------------------------
(* validate                                                                *)

\* The verdict on a read keeps the worker's task.
LEMMA CheckedType ==
  ASSUME TypeInv, NEW w \in Workers, NEW l \in Loc, NEW valid \in BOOLEAN,
         NEW dependency \in MaybeTx
  PROVE  LET j == Checked(w, l, valid, dependency)
         IN  j \in Jobs /\ j.tx = job[w].tx /\ j.chain = <<>>
<1>1. job[w] \in Jobs
  BY ZenonT(60), WorkerType
<1>2. <<>> \in Seq(Links)
  BY SMTT(60)
<1>3. job[w].dep \in MaybeTx
  BY ZenonT(60), <1>1 DEF Jobs
<1>4. (IF dependency = NoTx THEN job[w].dep ELSE MaxTx(job[w].dep, dependency)) \in MaybeTx
  BY ZenonT(60), <1>3 DEF MaxTx, Max, MaybeTx
<1> QED
  BY ZenonT(60), <1>1, <1>2, <1>4 DEF Checked, Jobs

\* The end of a scan of the read set keeps the types of the workers (validate).
LEMMA ScannedType ==
  ASSUME TypeInv, NEW w \in Workers, NEW j \in Jobs, Scanned(w, j),
         j.tx \in Tx, j.chain = <<>> \/ Len(j.chain) < j.tx
  PROVE  WorkersOK'
<1> DEFINE k == [j EXCEPT !.done = {}]
<1>1. k \in Jobs /\ k.tx = j.tx /\ k.chain = j.chain
  BY ZenonT(60) DEF Jobs
<1>2. \/ Goto(w, "estimate", k)
      \/ Goto(w, "confirm", k)
      \/ Goto(w, "scan", j)
  BY ZenonT(60) DEF Scanned
<1>3. {"estimate", "confirm", "scan"} \subseteq WorkerLabels
  BY ZenonT(60) DEF WorkerLabels
<1>4. CASE Goto(w, "estimate", k) \/ Goto(w, "confirm", k)
  <2> HIDE DEF k
  <2> QED BY ZenonT(60), <1>1, <1>3, <1>4, GotoType
<1>5. CASE Goto(w, "scan", j)
  BY ZenonT(60), <1>3, <1>5, GotoType
<1> QED
  BY ZenonT(60), <1>2, <1>4, <1>5

\* validate keeps the types.
LEMMA ValidateType ==
  ASSUME TypeInv, NEW w \in Workers, ValidateStep(w)
  PROVE  TypeInv'
<1> DEFINE t == job[w].tx
<1>p. pc[w] \in ValidateLabels
  BY ZenonT(60) DEF ValidateStep, BeginValidation, ScanMemory, ScanBeneficiary, Confirm,
         MarkConflictWrite, InvalidateHistory, StampConflict, RewindConflict,
         AddConflict, ValidateLabels
<1>n. pc[w] \notin IdleLabels
  BY ZenonT(60), <1>p DEF ValidateLabels, IdleLabels
<1>w. /\ pc[w] \in WorkerLabels
      /\ job[w] \in Jobs
      /\ t \in Tx
      /\ job[w].chain = <<>> \/ Len(job[w].chain) < t
  BY ZenonT(60), <1>n, WorkerType
<1>g. \A label \in WorkerLabels : Goto(w, label, job[w]) => WorkersOK'
  BY ZenonT(60), <1>w, GotoType
<1>t. t + 1 \in Nat
  BY SMTT(60), <1>w, BlockAssumption DEF Tx
<1>i. Goto(w, "next", Idle) => WorkersOK'
  BY ZenonT(60), GotoIdle DEF IdleLabels
<1>a. abort_reason \in Reasons
  BY ZenonT(60) DEF TypeInv, TypeOK, BlockTypeOK
<1>1. CASE BeginValidation(w)
  <2>1. logical_clock \in Nat \ {0}
    BY ZenonT(60) DEF TypeInv, TypeOK, CtxTypeOK
  <2>2. WorkersOK'
    <3> DEFINE j == [job[w] EXCEPT !.ts = logical_clock]
    <3>1. j \in Jobs /\ j.tx = t /\ j.chain = job[w].chain
      BY ZenonT(60), <1>w, <2>1 DEF Jobs
    <3>2. Scanned(w, j) => WorkersOK'
      <4> HIDE DEF j
      <4> QED BY ZenonT(60), <1>w, <3>1, ScannedType
    <3> QED
      BY ZenonT(60), <1>1, <1>i, <3>2 DEF BeginValidation, GiveUp
  <2>3. logical_clock' \in Nat \ {0}
    BY SMTT(60), <1>1, <2>1 DEF BeginValidation
  <2>4. TxTypeOK'
    BY ZenonT(60), <1>1 DEF BeginValidation, Lock, TypeInv, TypeOK, TxTypeOK
  <2>5. abort_reason' \in Reasons
    BY ZenonT(60), <1>1, <1>a, <1>w, AbortType, ReasonType DEF BeginValidation, GiveUp
  <2> QED
    BY ZenonT(60), <1>1, <2>2, <2>3, <2>4, <2>5 DEF BeginValidation, TypeInv, TypeOK, CtxTypeOK,
       DepTypeOK, HistoryTypeOK, MemoryTypeOK, BlockTypeOK, ThreadTypeOK, WorkersOK,
       CursorInv, ResultInv
<1>2. CASE ScanMemory(w)
  <2>1. PICK l \in Loc : \E valid \in BOOLEAN :
          Scanned(w, Checked(w, l, valid, LatestWriter(l, t)))
    BY ZenonT(60), <1>2 DEF ScanMemory, ReadLocs
  <2>2. PICK valid \in BOOLEAN : Scanned(w, Checked(w, l, valid, LatestWriter(l, t)))
    BY ZenonT(60), <2>1
  <2>3. LatestWriter(l, t) \in MaybeTx
    BY ZenonT(60), <1>w, LatestWriterType DEF Writers, MaybeTx
  <2> DEFINE j == Checked(w, l, valid, LatestWriter(l, t))
  <2>4. j \in Jobs /\ j.tx = t /\ j.chain = <<>>
    BY ZenonT(60), <2>3, CheckedType
  <2>5. WorkersOK'
    BY ZenonT(60), <1>w, <2>2, <2>4, ScannedType
  <2> QED
    BY ZenonT(60), <1>2, <2>5, LocalStep DEF ScanMemory
<1>3. CASE ScanBeneficiary(w)
  <2> DEFINE writer == (t - Len(job[w].chain)) - 1
             chain == Append(job[w].chain, Link(writer))
             expected == ReadSet(w)[Ben].origins
  <2>0. Ben \in Loc
    BY ZenonT(60), BlockAssumption
  <2>c. ASSUME NEW valid \in BOOLEAN, NEW dependency \in MaybeTx,
               Scanned(w, Checked(w, Ben, valid, dependency))
        PROVE  WorkersOK'
    BY ZenonT(60), <1>w, <2>0, <2>c, CheckedType, ScannedType
  <2>1. CASE t = 0
    BY ZenonT(60), <1>3, <2>1, <2>c, LocalStep DEF ScanBeneficiary, MaybeTx
  <2>2. CASE t # 0
    <3>1. /\ writer \in Tx
          /\ writer = t - (Len(job[w].chain) + 1)
          /\ Len(job[w].chain) \in Nat
      BY ZenonT(60), <1>w, <2>2, ScanPosition DEF Jobs
    <3>2. CASE history[writer].value = Estimate
      BY ZenonT(60), <1>3, <2>2, <3>2, <2>c, <3>1, LocalStep DEF ScanBeneficiary, MaybeTx
    <3>3. CASE history[writer].value # Estimate /\ ScanEndsAt(writer)
      <4>1. Scanned(w, Checked(w, Ben, expected = Origins(chain), t - 1))
        BY ZenonT(60), <1>3, <2>2, <3>3 DEF ScanBeneficiary
      <4>2. t - 1 \in MaybeTx
        BY SMTT(60), <1>w, <2>2, BlockAssumption DEF Tx, MaybeTx
      <4>3. WorkersOK'
        BY ZenonT(60), <2>c, <4>1, <4>2
      <4> QED
        BY ZenonT(60), <1>3, <4>3, LocalStep DEF ScanBeneficiary
    <3>4. CASE history[writer].value # Estimate /\ ~ScanEndsAt(writer)
      <4> DEFINE j == [job[w] EXCEPT !.chain = chain]
      <4>1. Scanned(w, j)
        BY ZenonT(60), <1>3, <2>2, <3>4 DEF ScanBeneficiary
      <4>2. Link(writer) \in Links
        BY ZenonT(60), <3>1 DEF Link, Links, TypeInv, TypeOK, HistoryTypeOK
      <4>3. chain \in Seq(Links) /\ Len(chain) = Len(job[w].chain) + 1
        <5>1. job[w].chain \in Seq(Links)
          BY ZenonT(60), <1>w DEF Jobs
        <5> HIDE DEF writer
        <5> QED BY SMTT(60), <4>2, <5>1
      <4>4. j \in Jobs /\ j.tx = t /\ j.chain = chain
        <5> HIDE DEF chain
        <5> QED BY ZenonT(60), <1>w, <4>3 DEF Jobs
      <4>5. Len(chain) < t
        <5>1. writer # 0
          BY ZenonT(60), <3>4 DEF ScanEndsAt
        <5>2. writer \in Nat /\ t \in Nat
          BY SMTT(60), <1>w, <3>1 DEF Tx
        <5> HIDE DEF t, writer, chain
        <5> QED BY SMTT(60), <3>1, <4>3, <5>1, <5>2
      <4>6. WorkersOK'
        <5> HIDE DEF j, chain
        <5> QED BY ZenonT(60), <1>w, <4>1, <4>4, <4>5, ScannedType
      <4> QED
        BY ZenonT(60), <1>3, <4>6, LocalStep DEF ScanBeneficiary
    <3> QED
      BY ZenonT(60), <3>2, <3>3, <3>4
  <2> QED
    BY ZenonT(60), <2>1, <2>2
<1>4. CASE Confirm(w)
  <2>1. WorkersOK'
    BY ZenonT(60), <1>4, <1>i DEF Confirm
  <2>2. TxTypeOK'
    BY ZenonT(60), <1>4 DEF Confirm, SetStatus, Unlock, Statuses, TypeInv, TypeOK, TxTypeOK
  <2>3. unconfirmed_timestamps' \in [Tx -> Nat]
    <3>1. job[w].ts \in Nat /\ unconfirmed_timestamps \in [Tx -> Nat]
      BY ZenonT(60), <1>w DEF Jobs, TypeInv, TypeOK, CtxTypeOK
    <3>2. \A x \in Tx : Max(unconfirmed_timestamps[x], job[w].ts) \in Nat
      BY ZenonT(60), <3>1 DEF Max
    <3> QED
      BY ZenonT(60), <1>4, <3>1, <3>2 DEF Confirm, Unconfirm
  <2> QED
    BY ZenonT(60), <1>4, <2>1, <2>2, <2>3 DEF Confirm, TypeInv, TypeOK, CtxTypeOK, DepTypeOK,
       HistoryTypeOK, MemoryTypeOK, BlockTypeOK, ThreadTypeOK, WorkersOK, CursorInv,
       ResultInv
<1>5. CASE MarkConflictWrite(w)
  <2>1. PICK l \in tx_results[t].write_set : MarkEstimate(l, t) /\ MarkDone(w, l)
    BY ZenonT(60), <1>5 DEF MarkConflictWrite
  <2>2. l \in Loc
    BY ZenonT(60), <1>w DEF TypeInv, TypeOK, TxTypeOK, TxResults
  <2>3. MemoryTypeOK'
    BY ZenonT(60), <1>w, <2>1, <2>2, MarkEstimateType DEF TypeInv, TypeOK
  <2>4. WorkersOK'
    BY ZenonT(60), <1>n, <2>1, <2>2, MarkDoneType
  <2> QED
    BY ZenonT(60), <1>5, <2>3, <2>4 DEF MarkConflictWrite, TypeInv, TypeOK, CtxTypeOK, DepTypeOK,
       HistoryTypeOK, TxTypeOK, BlockTypeOK, ThreadTypeOK, WorkersOK, CursorInv,
       ResultInv
<1>6. CASE InvalidateHistory(w)
  <2>1. WorkersOK'
    <3> DEFINE j == [job[w] EXCEPT !.done = {}]
    <3>1. j \in Jobs /\ j.tx = t /\ j.chain = job[w].chain
      BY ZenonT(60), <1>w DEF Jobs
    <3>2. Goto(w, "restamp", j) => WorkersOK'
      <4> HIDE DEF j
      <4> QED BY ZenonT(60), <1>w, <3>1, GotoType DEF WorkerLabels
    <3> QED
      BY ZenonT(60), <1>6, <1>i, <3>2 DEF InvalidateHistory, GiveUp
  <2>2. HistoryTypeOK'
    <3>1. Estimate \in Effects
      BY SMTT(60), BlockAssumption DEF Estimate, Effects
    <3>2. history \in [Tx -> [incarnation : Nat, value : Effects]]
      BY ZenonT(60) DEF TypeInv, TypeOK, HistoryTypeOK
    <3> QED
      BY ZenonT(60), <1>6, <3>1, <3>2 DEF InvalidateHistory, InvalidateEntry, HistoryTypeOK
  <2>3. TxTypeOK'
    BY ZenonT(60), <1>6 DEF InvalidateHistory, Unlock, TypeInv, TypeOK, TxTypeOK
  <2>4. abort_reason' \in Reasons
    BY ZenonT(60), <1>6, <1>a, <1>w, AbortType, ReasonType DEF InvalidateHistory, GiveUp
  <2> QED
    BY ZenonT(60), <1>6, <2>1, <2>2, <2>3, <2>4 DEF InvalidateHistory, TypeInv, TypeOK, CtxTypeOK,
       DepTypeOK, MemoryTypeOK, BlockTypeOK, ThreadTypeOK, WorkersOK, CursorInv,
       ResultInv
<1>7. CASE StampConflict(w)
  <2>1. logical_clock' \in Nat \ {0} /\ lower_timestamps' \in [Tx -> Nat]
    BY ZenonT(60), <1>7, <1>t, StampRewindType DEF StampConflict, TypeInv, TypeOK, CtxTypeOK
  <2>2. WorkersOK'
    BY ZenonT(60), <1>7, <1>g DEF StampConflict, WorkerLabels
  <2> QED
    BY ZenonT(60), <1>7, <2>1, <2>2 DEF StampConflict, TypeInv, TypeOK, CtxTypeOK, DepTypeOK,
       HistoryTypeOK, MemoryTypeOK, TxTypeOK, BlockTypeOK, ThreadTypeOK, WorkersOK,
       CursorInv, ResultInv
<1>8. CASE RewindConflict(w)
  <2>1. validation' \in 0 .. N
    BY ZenonT(60), <1>8, <1>t, RewindCursorType DEF RewindConflict, TypeInv, TypeOK, CtxTypeOK
  <2>2. WorkersOK'
    <3> DEFINE dep == LatestUnfinalized({job[w].dep} \ {NoTx})
               j == [job[w] EXCEPT !.dep = dep]
    <3>1. {job[w].dep} \ {NoTx} \in SUBSET Tx
      BY ZenonT(60), <1>w DEF Jobs, MaybeTx
    <3>2. dep \in MaybeTx
      BY ZenonT(60), <3>1, LatestUnfinalizedType DEF MaybeTx
    <3>3. j \in Jobs /\ j.tx = t /\ j.chain = job[w].chain
      <4> HIDE DEF dep
      <4> QED BY ZenonT(60), <1>w, <3>2 DEF Jobs
    <3>4. Goto(w, "readd", j)
      BY ZenonT(60), <1>8 DEF RewindConflict
    <3> QED
      BY ZenonT(60), <1>w, <3>3, <3>4, GotoType DEF WorkerLabels
  <2> QED
    BY ZenonT(60), <1>8, <2>1, <2>2 DEF RewindConflict, TypeInv, TypeOK, CtxTypeOK, DepTypeOK,
       HistoryTypeOK, MemoryTypeOK, TxTypeOK, BlockTypeOK, ThreadTypeOK, WorkersOK,
       CursorInv, ResultInv
<1>9. CASE AddConflict(w)
  <2>1. DepTypeOK'
    BY ZenonT(60), <1>9, <1>w, AddType DEF AddConflict, Jobs, MaybeTx, TypeInv, TypeOK
  <2>2. WorkersOK'
    BY ZenonT(60), <1>9, <1>i DEF AddConflict
  <2>3. TxTypeOK'
    BY ZenonT(60), <1>9 DEF AddConflict, SetStatus, Unlock, Statuses, TypeInv, TypeOK, TxTypeOK
  <2> QED
    BY ZenonT(60), <1>9, <2>1, <2>2, <2>3 DEF AddConflict, TypeInv, TypeOK, CtxTypeOK,
       HistoryTypeOK, MemoryTypeOK, BlockTypeOK, ThreadTypeOK, WorkersOK, CursorInv,
       ResultInv
<1> QED
  BY ZenonT(60), <1>1, <1>2, <1>3, <1>4, <1>5, <1>6, <1>7, <1>8, <1>9 DEF ValidateStep

-----------------------------------------------------------------------------
(* The coordinators and the caller                                         *)

\* run_finality_loop keeps the types.
LEMMA FinalityType ==
  ASSUME TypeInv, FinalityStep
  PROVE  TypeInv'
<1>n. N \in Nat
  BY ZenonT(60), BlockAssumption
<1>1. CASE FinalityCheck
  <2>1. /\ finality_pc' \in {"outer", "inner", "lock", "publish", "done"}
        /\ finality_pc' \in {"lock", "publish"} => finality < N
    BY ZenonT(60), <1>1 DEF FinalityCheck
  <2> QED
    BY ZenonT(60), <1>1, <2>1 DEF FinalityCheck, TypeInv, TypeOK, CtxTypeOK, DepTypeOK,
       HistoryTypeOK, MemoryTypeOK, TxTypeOK, BlockTypeOK, ThreadTypeOK, BusyInv,
       CursorInv, ResultInv
<1>2. CASE FinalityLock
  <2>1. finality \in Tx
    BY SMTT(60), <1>2, <1>n DEF FinalityLock, Tx, TypeInv, TypeOK, CtxTypeOK, CursorInv
  <2>2. Max(lower_ts, lower_timestamps[finality]) \in Nat
    BY ZenonT(60), <2>1 DEF Max, TypeInv, TypeOK, CtxTypeOK, ThreadTypeOK
  <2>3. lower_ts' \in Nat
    BY ZenonT(60), <1>2, <2>2 DEF FinalityLock, TypeInv, TypeOK, ThreadTypeOK
  <2>4. TxTypeOK'
    BY ZenonT(60), <1>2 DEF FinalityLock, SetStatus, Statuses, TypeInv, TypeOK, TxTypeOK
  <2>5. /\ finality_pc' \in {"outer", "inner", "lock", "publish", "done"}
        /\ finality_pc' \in {"lock", "publish"} => finality < N
    BY ZenonT(60), <1>2 DEF FinalityLock, TypeInv, CursorInv
  <2> QED
    BY ZenonT(60), <1>2, <2>3, <2>4, <2>5 DEF FinalityLock, TypeInv, TypeOK, CtxTypeOK, DepTypeOK,
       HistoryTypeOK, MemoryTypeOK, BlockTypeOK, ThreadTypeOK, BusyInv, CursorInv,
       ResultInv
<1>3. CASE FinalityPublish
  <2>1. finality' \in 0 .. N /\ finality' = finality + 1
    BY SMTT(60), <1>3, <1>n DEF FinalityPublish, TypeInv, TypeOK, CtxTypeOK, CursorInv
  <2>2. CursorInv'
    BY SMTT(60), <1>3, <1>n, <2>1 DEF FinalityPublish, TypeInv, TypeOK, CtxTypeOK, CursorInv
  <2> QED
    BY ZenonT(60), <1>3, <2>1, <2>2 DEF FinalityPublish, TypeInv, TypeOK, CtxTypeOK, DepTypeOK,
       HistoryTypeOK, MemoryTypeOK, TxTypeOK, BlockTypeOK, ThreadTypeOK, BusyInv,
       ResultInv
<1> QED
  BY ZenonT(60), <1>1, <1>2, <1>3 DEF FinalityStep

\* An outcome appended to the outcomes gives outcomes.
LEMMA OutcomeType ==
  ASSUME NEW outs \in Seq(Outcomes), NEW vals \in Readings
  PROVE  /\ Append(outs, Executed(vals)) \in Seq(Outcomes)
         /\ Append(outs, Skipped) \in Seq(Outcomes)
<1>1. Executed(vals) \in Outcomes
  BY ZenonT(60) DEF Executed, Outcomes
<1>2. Nothing \in [{} -> Val] /\ {} \in SUBSET Loc
  BY ZenonT(60) DEF Nothing
<1>3. Nothing \in Readings
  BY ZenonT(60), <1>2 DEF Readings
<1>4. Skipped \in Outcomes
  BY ZenonT(60), <1>3 DEF Skipped, Outcomes
<1> QED
  BY SMTT(60), <1>1, <1>4

\* run_commit_loop and OrderedCommitter::commit keep the types.
LEMMA CommitStepType ==
  ASSUME TypeInv, CommitStep
  PROVE  TypeInv'
<1>n. N \in Nat
  BY ZenonT(60), BlockAssumption
<1>1. CASE CommitCheck
  BY ZenonT(60), <1>1 DEF CommitCheck, TypeInv, TypeOK, CtxTypeOK, DepTypeOK, HistoryTypeOK,
     MemoryTypeOK, TxTypeOK, BlockTypeOK, ThreadTypeOK, BusyInv, CursorInv, ResultInv
<1>2. CASE CommitTx
  <2> DEFINE t == committed
             vals == Vals(tx_results[t].reads)
  <2>1. t \in Tx
    BY SMTT(60), <1>2, <1>n DEF CommitTx, Tx, TypeInv, TypeOK, CtxTypeOK
  <2>2. tx_results[t] \in TxResults /\ NoResult \in TxResults
    BY ZenonT(60), <2>1, IdleType DEF TypeInv, TypeOK, TxTypeOK, NoResult, TxResults
  <2>3. vals \in Readings
    BY ZenonT(60), <2>2, ValsType DEF TxResults
  <2>4. TxTypeOK'
    BY ZenonT(60), <1>2, <2>2 DEF CommitTx, TypeInv, TypeOK, TxTypeOK
  <2>5. ResultInv'
    BY ZenonT(60), <1>2 DEF CommitTx, NoResult, TypeInv, TypeOK, TxTypeOK, ResultInv
  <2>6. BlockTypeOK'
    <3>1. CASE /\ tx_results[t].kind = "Ok" /\ NonceOk(t, store)
               /\ store' = Apply(store, Changes(t, vals), DeferredReward(t, vals))
               /\ output' = Append(output, Executed(vals))
               /\ commit_pc' = "publish"
               /\ UNCHANGED <<abort_reason, error>>
      <4>1. Evm(t, vals).op = "ok"
        BY ZenonT(60), <2>1, <3>1 DEF TypeInv, ResultInv
      <4>2. Changes(t, vals) \in Readings /\ DeferredReward(t, vals) \in Val
        BY ZenonT(60), <2>1, <2>3, <4>1, ChangesType
      <4>3. store' \in [Loc -> Val]
        BY ZenonT(60), <3>1, <4>2, ApplyType DEF TypeInv, TypeOK, BlockTypeOK
      <4>4. output' \in Seq(Outcomes)
        BY ZenonT(60), <3>1, <2>3, OutcomeType DEF TypeInv, TypeOK, BlockTypeOK
      <4> QED
        BY ZenonT(60), <1>2, <3>1, <4>3, <4>4 DEF CommitTx, TypeInv, TypeOK, BlockTypeOK
    <3>2. CASE \E reason \in {ParallelError(t), CommitError(t), FallbackSequential} :
                 StopCommit(reason) /\ (error' = t \/ UNCHANGED error)
      <4>1. \E reason \in Reasons : StopCommit(reason)
        BY ZenonT(60), <2>1, <3>2, ReasonType
      <4>2. abort_reason' \in Reasons /\ UNCHANGED <<store, output>>
        BY ZenonT(60), <4>1, AbortType DEF StopCommit, TypeInv, TypeOK, BlockTypeOK
      <4>3. error' \in MaybeTx /\ UNCHANGED results
        BY ZenonT(60), <1>2, <2>1, <3>2 DEF CommitTx, TypeInv, TypeOK, BlockTypeOK, MaybeTx
      <4> QED
        BY ZenonT(60), <4>2, <4>3 DEF TypeInv, TypeOK, BlockTypeOK
    <3> QED
      BY ZenonT(60), <1>2, <3>1, <3>2 DEF CommitTx
  <2>7. commit_pc' \in {"publish", "done"}
    BY ZenonT(60), <1>2 DEF CommitTx, StopCommit
  <2>8. CursorInv'
    BY ZenonT(60), <1>2, <2>7 DEF CommitTx, TypeInv, CursorInv
  <2> QED
    BY ZenonT(60), <1>2, <2>4, <2>5, <2>6, <2>7, <2>8 DEF CommitTx, TypeInv, TypeOK, CtxTypeOK,
       DepTypeOK, HistoryTypeOK, MemoryTypeOK, ThreadTypeOK, BusyInv
<1>3. CASE PublishCommit
  <2>1. committed' \in 0 .. N /\ committed' <= finality /\ committed' > 0
    BY SMTT(60), <1>3, <1>n DEF PublishCommit, TypeInv, TypeOK, CtxTypeOK, CursorInv
  <2> QED
    BY ZenonT(60), <1>3, <2>1 DEF PublishCommit, TypeInv, TypeOK, CtxTypeOK, DepTypeOK,
       HistoryTypeOK, MemoryTypeOK, TxTypeOK, BlockTypeOK, ThreadTypeOK, BusyInv,
       CursorInv, ResultInv
<1>4. CASE ReleaseSuccessor
  <2>1. committed - 1 \in Int /\ (committed - 1) + 1 >= 0
    BY SMTT(60), <1>n DEF TypeInv, TypeOK, CtxTypeOK
  <2>2. DepTypeOK'
    BY ZenonT(60), <1>4, <2>1, CommitType DEF ReleaseSuccessor, TypeInv, TypeOK
  <2> QED
    BY ZenonT(60), <1>4, <2>2 DEF ReleaseSuccessor, TypeInv, TypeOK, CtxTypeOK, HistoryTypeOK,
       MemoryTypeOK, TxTypeOK, BlockTypeOK, ThreadTypeOK, BusyInv, CursorInv, ResultInv
<1> QED
  BY ZenonT(60), <1>1, <1>2, <1>3, <1>4 DEF CommitStep

\* post_execute and the sequential replay keep the types.
LEMMA CallerType ==
  ASSUME TypeInv, CallerStep
  PROVE  TypeInv'
<1>b. ASSUME BlockTypeOK', phase' \in {"parallel", "replay", "done"},
             UNCHANGED <<ctxVars, depVars, specVars, txVars, workerVars, finalityVars,
                         commit_pc>>
      PROVE  TypeInv'
  BY ZenonT(60), <1>b DEF TypeInv, TypeOK, CtxTypeOK, DepTypeOK, HistoryTypeOK, MemoryTypeOK,
     TxTypeOK, ThreadTypeOK, BusyInv, CursorInv, ResultInv
<1>o. /\ output \in Seq(Outcomes)
      /\ results \in Seq(Outcomes)
      /\ store \in [Loc -> Val]
      /\ error \in MaybeTx
      /\ abort_reason \in Reasons
  BY ZenonT(60) DEF TypeInv, TypeOK, BlockTypeOK
<1>1. CASE PostExecute
  <2>1. abort_reason.tx \in MaybeTx
    BY ZenonT(60), <1>o DEF Reasons
  <2>2. error' \in MaybeTx /\ phase' \in {"parallel", "replay", "done"}
    BY ZenonT(60), <1>1, <1>o, <2>1 DEF PostExecute
  <2>3. BlockTypeOK'
    <3>1. results' = output /\ output' = <<>> /\ UNCHANGED <<store, abort_reason>>
      BY ZenonT(60), <1>1 DEF PostExecute
    <3>2. <<>> \in Seq(Outcomes)
      BY SMTT(60)
    <3> QED
      BY ZenonT(60), <1>o, <2>2, <3>1, <3>2 DEF BlockTypeOK
  <2> QED
    BY ZenonT(60), <1>1, <1>b, <2>2, <2>3 DEF PostExecute
<1>2. CASE ReplayTx
  <2> DEFINE t == Replayed
  <2>1. t \in Tx
    <3>1. Len(results) \in Nat /\ Len(output) \in Nat
      BY SMTT(60), <1>o
    <3>2. Replayed < N
      BY ZenonT(60), <1>2 DEF ReplayTx
    <3> QED
      BY SMTT(60), <3>1, <3>2, BlockAssumption DEF Replayed, Tx
  <2>2. PICK vals \in Readings :
          /\ Run(t, store, vals)
          /\ \/ t \in DbFail /\ ReplayFail(t)
             \/ IF ~NonceOk(t, store) \/ Evm(t, vals).op = "invalid" THEN ReplaySkip
                ELSE IF Evm(t, vals).op = "fatal" THEN ReplayFail(t)
                ELSE ReplayOk(t, vals)
    BY ZenonT(60), <1>2 DEF ReplayTx
  <2>3. CASE ReplayFail(t)
    BY ZenonT(60), <1>2, <1>o, <2>1, <2>3, <1>b DEF ReplayTx, ReplayFail, BlockTypeOK, MaybeTx,
       TypeInv, TypeOK, ThreadTypeOK
  <2>4. CASE ReplaySkip
    BY ZenonT(60), <1>2, <1>o, <2>2, <2>4, OutcomeType, <1>b DEF ReplayTx, ReplaySkip,
       BlockTypeOK, TypeInv, TypeOK, ThreadTypeOK
  <2>5. CASE Evm(t, vals).op \notin {"invalid", "fatal"} /\ ReplayOk(t, vals)
    <3>1. Evm(t, vals).op = "ok"
      BY ZenonT(60), <2>1, <2>2, <2>5, EvmAssumption DEF Run, EvmStep
    <3>2. Changes(t, vals) \in Readings /\ DeferredReward(t, vals) \in Val
      BY ZenonT(60), <2>1, <3>1, ChangesType
    <3>3. store' \in [Loc -> Val]
      BY ZenonT(60), <1>o, <2>5, <3>2, ApplyType DEF ReplayOk
    <3>4. output' \in Seq(Outcomes)
      BY ZenonT(60), <1>o, <2>5, OutcomeType DEF ReplayOk
    <3>5. BlockTypeOK'
      BY ZenonT(60), <1>2, <1>o, <2>5, <3>3, <3>4 DEF ReplayTx, ReplayOk, BlockTypeOK
    <3> QED
      BY ZenonT(60), <1>2, <1>b, <3>5 DEF ReplayTx, TypeInv, TypeOK, ThreadTypeOK
  <2> QED
    BY ZenonT(60), <2>2, <2>3, <2>4, <2>5
<1>3. CASE ReplayEnd
  <2>1. results \o output \in Seq(Outcomes)
    BY SMTT(60), <1>o
  <2>2. BlockTypeOK' /\ phase' = "done"
    BY SMTT(60), <1>3, <1>o, <2>1 DEF ReplayEnd, BlockTypeOK
  <2> QED
    BY ZenonT(60), <1>3, <1>b, <2>2 DEF ReplayEnd
<1> QED
  BY ZenonT(60), <1>1, <1>2, <1>3 DEF CallerStep

-----------------------------------------------------------------------------
(* All steps                                                               *)

\* Every step of the scheduler keeps the types.
LEMMA TypeStep == TypeInv /\ [Next]_vars => TypeInv'
<1> SUFFICES ASSUME TypeInv, [Next]_vars PROVE TypeInv'
  BY ZenonT(60)
<1>1. ASSUME NEW w \in Workers, ExecuteStep(w) PROVE TypeInv'
  BY ZenonT(60), <1>1, ReadType, PublishType, RecordType, FinishType DEF ExecuteStep
<1>2. CASE UNCHANGED vars
  BY ZenonT(60), <1>2 DEF vars, TypeInv, TypeOK, CtxTypeOK, DepTypeOK, HistoryTypeOK,
     MemoryTypeOK, TxTypeOK, BlockTypeOK, ThreadTypeOK, BusyInv, CursorInv, ResultInv
<1> QED
  BY ZenonT(60), <1>1, <1>2, ScheduleType, ValidateType, FinalityType, CommitStepType, CallerType
     DEF Next, WorkerStep, Finished

\* The initial state is well typed.
LEMMA TypeInitially == ASSUME Init, PositionsOrdered PROVE TypeInv
<1>1. 0 \in Val /\ N \in Nat /\ InitStore \in [Loc -> Val]
  BY SMTT(60), BlockAssumption
<1>2. CtxTypeOK
  BY SMTT(60), <1>1 DEF Init, CtxInit, CtxTypeOK
<1>3. DepTypeOK
  BY SMTT(60), <1>1 DEF Init, DepInit, DepTypeOK
<1>4. HistoryTypeOK
  BY ZenonT(60), <1>1 DEF Init, HistoryInit, HistoryTypeOK, Estimate, Effects
<1>5. MemoryTypeOK
  BY ZenonT(60), <1>1 DEF Init, MemoryInit, MemoryTypeOK, Absent, Entries
<1>6. TxTypeOK
  BY ZenonT(60), IdleType DEF Init, TxTypeOK, Statuses, NoResult, TxResults
<1>7. BlockTypeOK
  BY SMTT(60), <1>1 DEF Init, BlockTypeOK, NoAbort, Reasons, MaybeTx
<1>8. ThreadTypeOK
  BY ZenonT(60), IdleType DEF Init, ThreadTypeOK, WorkerLabels
<1>9. BusyInv /\ ResultInv
  BY ZenonT(60) DEF Init, BusyInv, ResultInv, IdleLabels, NoResult
<1>10. CursorInv
  BY SMTT(60), <1>1 DEF Init, CtxInit, CursorInv
<1> QED
  BY ZenonT(60), <1>2, <1>3, <1>4, <1>5, <1>6, <1>7, <1>8, <1>9, <1>10 DEF TypeInv, TypeOK

-----------------------------------------------------------------------------
(* What an incarnation has published                                       *)

\* A transaction that a step leaves alone.
LEMMA SameValue ==
  ASSUME NEW x \in Tx, SameAt(x), incarnation'[x] = incarnation[x],
         Uncommitted(x)' => Uncommitted(x)
  PROVE  /\ Exact(x)' <=> Exact(x)
         /\ TxValue(x) => TxValue(x)'
BY ZenonT(60) DEF SameAt, Exact, Written, TxValue

\* A worker that is not concerned.
LEMMA SameWorkerValue ==
  ASSUME TypeInv, NEW v \in Workers, WorkerValue(v), SameWorker(v),
         pc[v] \in BusyLabels => /\ SameAt(job[v].tx)
                                 /\ incarnation'[job[v].tx] = incarnation[job[v].tx]
  PROVE  WorkerValue(v)'
<1>1. {"run", "backing", "scan", "confirm"} \cup RecordedLabels \subseteq BusyLabels
  BY ZenonT(60) DEF BusyLabels, TaskLabels, ExecuteLabels, RunLabels, RecordedLabels, ValidateLabels
<1>2. pc'[v] = pc[v] /\ job'[v] = job[v]
  BY ZenonT(60) DEF SameWorker
<1>3. Step(v)' = Step(v) /\ WriteSet(v)' = WriteSet(v)
  BY ZenonT(60), <1>2, SameStep
<1>4. CASE pc[v] \notin BusyLabels
  <2>1. pc[v] \notin {"run", "backing", "scan", "confirm"} \cup RecordedLabels /\ pc[v] # "run"
    BY ZenonT(60), <1>1, <1>4
  <2> QED
    BY ZenonT(60), <1>2, <2>1 DEF WorkerValue
<1>5. CASE pc[v] \in BusyLabels
  <2>1. PICK t : t = job[v].tx
    BY ZenonT(60)
  <2>t. t \in Tx
    BY ZenonT(60), <1>5, <2>1 DEF TypeInv, BusyInv, BusyLabels, TaskLabels, ExecuteLabels,
       RunLabels,
       RecordedLabels, FinishLabels, ValidateLabels, IdleLabels
  <2>2. SameAt(t) /\ incarnation'[t] = incarnation[t]
    BY ZenonT(60), <1>5, <2>1
  <2>3. Exact(t)' <=> Exact(t)
    BY ZenonT(60), <2>2 DEF SameAt, Exact, Written
  <2>4. \A l \in Loc : mv_memory'[l][t] = mv_memory[l][t]
    BY ZenonT(60), <2>2 DEF SameAt
  <2>5. job'[v].tx = t
    BY ZenonT(60), <1>2, <2>1
  <2>6. ASSUME pc[v] \in {"run", "backing"}
        PROVE  \A l \in Loc \ job[v].done : mv_memory'[l][t].incarnation < incarnation'[t]
    BY ZenonT(60), <2>1, <2>6, <2>2, <2>4 DEF WorkerValue
  <2>7. ASSUME pc[v] = "run", Step(v).op = "ok"
        PROVE  \A l \in job[v].done \cap WriteSet(v) :
                 mv_memory'[l][t].data = Changes(t, Vals(job[v].reads))[l]
    BY ZenonT(60), <2>1, <2>7, <2>4 DEF WorkerValue, TypeInv, TypeOK, ThreadTypeOK, Jobs
  <2>8. \/ pc[v] \in {"scan", "confirm"}
        \/ pc[v] \in RecordedLabels /\ ~job[v].conflict
        => Exact(t)'
    BY ZenonT(60), <2>1, <2>3 DEF WorkerValue
  <2> QED
    BY ZenonT(60), <1>2, <1>3, <2>1, <2>5, <2>6, <2>7, <2>8 DEF WorkerValue
<1> QED
  BY ZenonT(60), <1>4, <1>5

\* A step of a worker of the transaction t.
LEMMA ValueFrame ==
  ASSUME TypeInv, NEW w \in Workers, NEW t \in Tx,
         \A x \in Tx : TxValue(x), \A v \in Workers : WorkerValue(v),
         \A v \in Workers \ {w} : SameWorker(v),
         \A v \in Workers \ {w} : pc[v] \in BusyLabels => job[v].tx # t,
         \A x \in Tx \ {t} : SameAt(x) /\ incarnation'[x] = incarnation[x],
         UNCHANGED <<committed, commit_pc>>,
         TxValue(t)', WorkerValue(w)'
  PROVE  (\A x \in Tx : TxValue(x)') /\ (\A v \in Workers : WorkerValue(v)')
<1>1. ASSUME NEW x \in Tx PROVE TxValue(x)'
  <2>1. Uncommitted(x)' => Uncommitted(x)
    BY ZenonT(60) DEF Uncommitted
  <2> QED
    BY ZenonT(60), <2>1, SameValue
<1>2. ASSUME NEW v \in Workers PROVE WorkerValue(v)'
  <2>1. CASE v = w
    BY ZenonT(60), <2>1
  <2>2. CASE v # w
    BY ZenonT(60), <2>2, SameWorkerValue DEF TypeInv, BusyInv, BusyLabels, TaskLabels,
       ExecuteLabels, RunLabels, RecordedLabels, FinishLabels, ValidateLabels, IdleLabels
  <2> QED
    BY ZenonT(60), <2>1, <2>2
<1> QED
  BY ZenonT(60), <1>1, <1>2

\* A worker between two tasks, or before or after what it publishes.
LEMMA IdleValue ==
  ASSUME NEW w \in Workers,
         pc'[w] \notin {"run", "backing", "scan", "confirm", "depend", "key", "executed"}
  PROVE  WorkerValue(w)'
BY ZenonT(60) DEF WorkerValue, RecordedLabels

\* A step that changes no transaction.
LEMMA QuietValue ==
  ASSUME TypeInv, NEW w \in Workers,
         \A x \in Tx : TxValue(x), \A v \in Workers : WorkerValue(v),
         \A v \in Workers \ {w} : SameWorker(v),
         \A x \in Tx : SameAt(x) /\ incarnation'[x] = incarnation[x],
         UNCHANGED <<committed, commit_pc>>, WorkerValue(w)'
  PROVE  (\A x \in Tx : TxValue(x)') /\ (\A v \in Workers : WorkerValue(v)')
<1>1. ASSUME NEW x \in Tx PROVE TxValue(x)'
  BY ZenonT(60), SameValue DEF Uncommitted
<1>2. ASSUME NEW v \in Workers \ {w} PROVE WorkerValue(v)'
  BY ZenonT(60), SameWorkerValue DEF TypeInv, BusyInv, BusyLabels, TaskLabels, ExecuteLabels,
     RunLabels, RecordedLabels, FinishLabels, ValidateLabels, IdleLabels
<1> QED
  BY ZenonT(60), <1>1, <1>2

\* Scheduler::next and execution_task: a new incarnation has published nothing, and a
\* validation starts from what the execution has left.
LEMMA ScheduleValue ==
  ASSUME TypeInv, OwnInv, NEW w \in Workers, ScheduleStep(w),
         \A x \in Tx : TxValue(x), \A v \in Workers : WorkerValue(v)
  PROVE  (\A x \in Tx : TxValue(x)') /\ (\A v \in Workers : WorkerValue(v)')
<1>y. status \in [Tx -> Statuses] /\ incarnation \in [Tx -> Nat] /\ MemoryTypeOK
  BY ZenonT(60) DEF TypeInv, TypeOK, TxTypeOK
<1>q. UNCHANGED <<committed, commit_pc, holder, tx_results, history, mv_memory>>
  BY ZenonT(60) DEF ScheduleStep, WorkerExit, ClaimValidation, TakeValidation,
     AdvanceExecution, ClaimExecution, TakeExecution, ReleaseDependents
<1>g. PICK label, j : /\ Goto(w, label, j)
                      /\ label \in {"done", "claimed", "validate", "pick", "claim", "next", "task",
                                    "execute", "release"}
  BY ZenonT(60) DEF ScheduleStep, WorkerExit, ClaimValidation, TakeValidation,
     AdvanceExecution, ClaimExecution, TakeExecution, ReleaseDependents
<1>w. WorkerValue(w)' /\ \A v \in Workers \ {w} : SameWorker(v)
  BY ZenonT(60), <1>g, GotoAt, IdleValue DEF SameWorker
<1>1. CASE UNCHANGED <<status, incarnation>>
  BY ZenonT(60), <1>1, <1>q, <1>w, QuietValue DEF SameAt
<1>2. CASE ~UNCHANGED <<status, incarnation>>
  <2>1. PICK t : /\ t = job[w].tx /\ Free(t) /\ pc[w] \in {"claimed", "task"}
                 /\ \/ /\ status[t] \in {"Executed", "Unconfirmed"}
                       /\ SetStatus(t, "Validating") /\ UNCHANGED incarnation
                    \/ /\ status[t] \in {"Initial", "Conflict"} /\ SetStatus(t, "Executing")
                       /\ incarnation' = [incarnation EXCEPT ![t] = incarnation[t] + 1]
    BY ZenonT(60), <1>2 DEF ScheduleStep, WorkerExit, ClaimValidation, TakeValidation,
       AdvanceExecution, ClaimExecution, TakeExecution, ReleaseDependents
  <2>t. t \in Tx
    BY ZenonT(60), <2>1 DEF TypeInv, BusyInv, IdleLabels
  <2>2. /\ \A x \in Tx \ {t} : SameAt(x) /\ incarnation'[x] = incarnation[x]
        /\ \/ /\ status[t] \in {"Executed", "Unconfirmed"} /\ status'[t] = "Validating"
              /\ incarnation'[t] = incarnation[t]
           \/ status'[t] = "Executing" /\ incarnation'[t] = incarnation[t] + 1
    BY ZenonT(60), <1>q, <1>y, <2>1, <2>t DEF SetStatus, SameAt
  <2>3. \A v \in Workers \ {w} : pc[v] \in BusyLabels => job[v].tx # t
    BY ZenonT(60), <2>1, <2>t, NoOwner
  <2>4. Exact(t)' <=> Exact(t)
    BY ZenonT(60), <1>q DEF Exact, Written
  <2>5. \A l \in Loc : mv_memory[l][t].incarnation <= incarnation[t]
    BY ZenonT(60), <2>t DEF TxValue
  <2>6. TxValue(t)'
    <3>1. CASE /\ status[t] \in {"Executed", "Unconfirmed"} /\ status'[t] = "Validating"
               /\ incarnation'[t] = incarnation[t]
      BY ZenonT(60), <1>q, <2>4, <2>5, <2>t, <3>1 DEF TxValue
    <3>2. CASE status'[t] = "Executing" /\ incarnation'[t] = incarnation[t] + 1
      <4>1. \A l \in Loc : mv_memory[l][t].incarnation \in Nat
        BY ZenonT(60), <1>y, <2>t DEF MemoryTypeOK, Entries
      <4>2. \A l \in Loc : /\ mv_memory[l][t].incarnation <= incarnation[t] + 1
                           /\ mv_memory[l][t].incarnation < incarnation[t] + 1
        BY <1>y, <2>5, <2>t, <4>1
      <4> QED
        BY ZenonT(60), <1>q, <3>2, <4>2 DEF TxValue
    <3> QED
      BY ZenonT(60), <2>2, <3>1, <3>2
  <2> QED
    BY ZenonT(60), <1>q, <1>w, <2>t, <2>2, <2>3, <2>6, ValueFrame
<1> QED
  BY ZenonT(60), <1>1, <1>2

\* A step of the owner of t is judged by what it leaves of t.
LEMMA OwnerValue ==
  ASSUME TypeInv, OwnInv, NEW w \in Workers, ExecuteStep(w) \/ ValidateStep(w),
         \A x \in Tx : TxValue(x), \A v \in Workers : WorkerValue(v),
         NEW t \in Tx, t = job[w].tx, TxValue(t)', WorkerValue(w)'
  PROVE  (\A x \in Tx : TxValue(x)') /\ (\A v \in Workers : WorkerValue(v)')
BY ZenonT(60), OwnerFrame, OwnerIncarnation, ValueFrame

\* While a worker holds the lock of a transaction, its versions are all that is asked of
\* the transaction itself.
LEMMA HeldValue ==
  ASSUME NEW t \in Tx, status'[t] \in {"Executing", "Validating", "Conflict"},
         status'[t] = "Conflict" \/ holder'[t] # NoOne,
         \A l \in Loc : mv_memory'[l][t].incarnation <= incarnation'[t]
  PROVE  TxValue(t)'
BY ZenonT(60) DEF TxValue

\* Before its first write an execution has no entry of its own.
LEMMA ReadsValue ==
  ASSUME TypeInv, OwnInv, MemoryInv, NEW w \in Workers,
         \/ BeginExecution(w) \/ ReadMemory(w) \/ ReadBacking(w) \/ ReadBeneficiary(w),
         \A x \in Tx : TxValue(x), \A v \in Workers : WorkerValue(v)
  PROVE  (\A x \in Tx : TxValue(x)') /\ (\A v \in Workers : WorkerValue(v)')
<1>p. pc[w] \in {"execute", "run", "backing"}
  BY ZenonT(60) DEF BeginExecution, ReadMemory, ReadBacking, ReadBeneficiary
<1>t. PICK t \in Tx : t = job[w].tx /\ status[t] = "Executing" /\ w # NoOne
                      /\ (pc[w] # "execute" => holder[t] = w)
  <2>1. pc[w] \in BusyLabels /\ pc[w] \in ExecuteLabels
        /\ (pc[w] # "execute" => pc[w] \in LockedLabels)
    BY ZenonT(60), <1>p DEF BusyLabels, TaskLabels, ExecuteLabels, RunLabels, LockedLabels
  <2>2. WorkerOwn(w) /\ job[w].tx \in Tx
    BY ZenonT(60), <2>1, BusyNotFinal DEF OwnInv
  <2> QED
    BY ZenonT(60), <2>1, <2>2, ThreadAssumption DEF WorkerOwn
<1>y. job[w] \in Jobs
  BY ZenonT(60) DEF TypeInv, TypeOK, ThreadTypeOK
<1>u. UNCHANGED <<status, mv_memory, history, tx_results, incarnation>>
  BY ZenonT(60) DEF BeginExecution, ReadMemory, ReadBacking, ReadBeneficiary
<1>d. job[w].done = {}
  <2>1. WorkerMemory(w)
    BY ZenonT(60) DEF MemoryInv
  <2>2. pc[w] = "run" => Step(w).op = "read"
    BY ZenonT(60), <1>p DEF BeginExecution, ReadMemory, ReadBacking, ReadBeneficiary
  <2>3. pc[w] \in {"run", "backing"} => RunMemory(w)
    BY ZenonT(60), <2>1 DEF WorkerMemory
  <2>4. pc[w] = "execute" => pc[w] \notin {"run", "scan", "estimate"}
    BY ZenonT(60)
  <2> QED
    BY ZenonT(60), <1>p, <2>1, <2>2, <2>3, <2>4 DEF WorkerMemory, RunMemory
<1>e. \/ pc[w] # "execute" \/ holder[t] = NoOne
      => \A l \in Loc : mv_memory[l][t].incarnation < incarnation[t]
  BY ZenonT(60), <1>t, <1>d, <1>p DEF TxValue, WorkerValue
<1>h. UNCHANGED holder \/ holder'[t] = w
  BY ZenonT(60), <1>t DEF BeginExecution, ReadMemory, ReadBacking, ReadBeneficiary, Lock,
     TypeInv, TypeOK, TxTypeOK
<1>x. TxValue(t)'
  BY ZenonT(60), <1>u, <1>t, HeldValue, <1>h DEF Exact, Written, TxValue
<1>g. ASSUME NEW label \in {"run", "backing"}, NEW j, Goto(w, label, j), j.tx = t, j.done = {},
             pc[w] # "execute" \/ holder[t] = NoOne
      PROVE  WorkerValue(w)'
  <2>1. pc'[w] = label /\ job'[w] = j
    BY ZenonT(60), <1>g, GotoIs
  <2>2. label \notin {"scan", "confirm"} \cup RecordedLabels
    BY ZenonT(60), <1>g DEF RecordedLabels
  <2>3. \A l \in Loc : mv_memory'[l][t].incarnation < incarnation'[t]
    BY ZenonT(60), <1>e, <1>g, <1>u
  <2>4. j.done \cap WriteSet(w)' = {}
    BY ZenonT(60), <1>g
  <2> QED
    BY ZenonT(60), <1>g, <2>1, <2>2, <2>3, <2>4 DEF WorkerValue
<1>r. \A l, val, origins :
        GotRead(w, l, val, origins).tx = t /\ GotRead(w, l, val, origins).done = {}
  BY ZenonT(60), <1>y, <1>t, <1>d DEF GotRead, Jobs
<1>w. WorkerValue(w)'
  <2>1. CASE BeginExecution(w)
    <3>1. \/ Goto(w, "next", Idle)
          \/ Goto(w, "run", job[w]) /\ holder[t] = NoOne
      BY ZenonT(60), <1>t, <2>1 DEF BeginExecution, GiveUp, Free
    <3>2. Goto(w, "next", Idle) => pc'[w] = "next"
      BY ZenonT(60), GotoAt
    <3>3. "next" \notin {"run", "backing", "scan", "confirm", "depend", "key", "executed"}
      BY ZenonT(60)
    <3> QED
      BY ZenonT(60), <1>d, <1>g, <1>t, <3>1, <3>2, <3>3, IdleValue
  <2>2. CASE ReadMemory(w)
    <3> DEFINE l == Step(w).loc
               p == LatestWriter(l, job[w].tx)
               got == GotRead(w, l, mv_memory[l][p].data, <<<<p, mv_memory[l][p].incarnation>>>>)
    <3>1. \/ Goto(w, "backing", job[w])
          \/ \E b : Goto(w, "run", [got EXCEPT !.blocking = b])
      BY ZenonT(60), <2>2 DEF ReadMemory
    <3>2. pc[w] # "execute"
      BY ZenonT(60), <2>2 DEF ReadMemory
    <3>3. \A b : [got EXCEPT !.blocking = b].tx = t /\ [got EXCEPT !.blocking = b].done = {}
      BY ZenonT(60), <1>y, <1>t, <1>d DEF GotRead, Jobs
    <3> HIDE DEF got
    <3> QED
      BY ZenonT(60), <1>d, <1>g, <1>t, <3>1, <3>2, <3>3
  <2>3. CASE ReadBacking(w)
    <3>1. pc[w] # "execute"
      BY ZenonT(60), <2>3 DEF ReadBacking
    <3> QED
      BY ZenonT(60), <1>g, <1>r, <2>3, <3>1 DEF ReadBacking
  <2>4. CASE ReadBeneficiary(w)
    <3>1. \/ \E val, origins : Goto(w, "run", GotRead(w, Ben, val, origins))
          \/ \E b : Goto(w, "run", [GotRead(w, Ben, 0, <<>>) EXCEPT !.blocking = b])
          \/ \E c : Goto(w, "run", [job[w] EXCEPT !.chain = c])
      BY ZenonT(60), <2>4 DEF ReadBeneficiary
    <3>2. pc[w] # "execute"
      BY ZenonT(60), <2>4 DEF ReadBeneficiary
    <3>3. PICK j : Goto(w, "run", j) /\ j.tx = t /\ j.done = {}
      <4>1. CASE \E val, origins : Goto(w, "run", GotRead(w, Ben, val, origins))
        BY ZenonT(60), <4>1, <1>r
      <4>2. CASE \E b : Goto(w, "run", [GotRead(w, Ben, 0, <<>>) EXCEPT !.blocking = b])
        <5>1. PICK b : Goto(w, "run", [GotRead(w, Ben, 0, <<>>) EXCEPT !.blocking = b])
          BY ZenonT(60), <4>2
        <5>2. /\ [GotRead(w, Ben, 0, <<>>) EXCEPT !.blocking = b].tx = t
              /\ [GotRead(w, Ben, 0, <<>>) EXCEPT !.blocking = b].done = {}
          BY ZenonT(60), <1>y, <1>t, <1>d DEF GotRead, Jobs
        <5> QED
          BY ZenonT(60), <5>1, <5>2
      <4>3. CASE \E c : Goto(w, "run", [job[w] EXCEPT !.chain = c])
        <5>1. PICK c : Goto(w, "run", [job[w] EXCEPT !.chain = c])
          BY ZenonT(60), <4>3
        <5>2. [job[w] EXCEPT !.chain = c].tx = t /\ [job[w] EXCEPT !.chain = c].done = {}
          BY ZenonT(60), <1>y, <1>t, <1>d DEF Jobs
        <5> QED
          BY ZenonT(60), <5>1, <5>2
      <4> QED
        BY ZenonT(60), <3>1, <4>1, <4>2, <4>3
    <3> QED
      BY ZenonT(60), <1>g, <3>2, <3>3
  <2> QED
    BY ZenonT(60), <2>1, <2>2, <2>3, <2>4
<1> QED
  BY ZenonT(60), <1>t, <1>w, <1>x, OwnerValue DEF ExecuteStep

\* The entries of an execution that ended well hold the changes it made.
LEMMA WriteValue ==
  ASSUME TypeInv, OwnInv, NEW w \in Workers,
         PublishWrite(w) \/ PruneWrite(w) \/ MarkFailedWrite(w),
         \A x \in Tx : TxValue(x), \A v \in Workers : WorkerValue(v)
  PROVE  (\A x \in Tx : TxValue(x)') /\ (\A v \in Workers : WorkerValue(v)')
<1>t. PICK t \in Tx, l \in Loc : WritesAt(w, t, l)
  BY ZenonT(60), RunWriteAt
<1>s. Step(w)' = Step(w) /\ WriteSet(w)' = WriteSet(w)
  BY ZenonT(60), <1>t, SameStep DEF WritesAt
<1>n. incarnation[t] \in Nat /\ incarnation[t] <= incarnation[t] /\ 0 <= incarnation[t]
  <2>1. incarnation[t] \in Nat
    BY ZenonT(60) DEF TypeInv, TypeOK, TxTypeOK
  <2> QED
    BY <2>1
<1>x. TxValue(t)'
  BY ZenonT(60), <1>n, <1>t, HeldValue DEF TxValue, WritesAt
<1>w. WorkerValue(w)'
  <2>1. ASSUME NEW k \in Loc \ job'[w].done
        PROVE  mv_memory'[k][t].incarnation < incarnation'[t]
    <3>1. /\ k \in Loc \ {l} /\ k \notin job[w].done /\ mv_memory'[k][t] = mv_memory[k][t]
          /\ incarnation'[t] = incarnation[t] /\ pc[w] = "run" /\ t = job[w].tx
      BY ZenonT(60), <1>t DEF WritesAt
    <3>2. mv_memory[k][t].incarnation < incarnation[t]
      BY ZenonT(60), <3>1 DEF WorkerValue
    <3> QED
      BY ZenonT(60), <3>1, <3>2
  <2>2. ASSUME Step(w).op = "ok", NEW k \in job'[w].done \cap WriteSet(w)
        PROVE  mv_memory'[k][t].data = Changes(t, Vals(job[w].reads))[k]
    <3>1. CASE k = l
      BY ZenonT(60), <1>t, <2>2, <3>1 DEF WritesAt
    <3>2. CASE k # l
      <4>1. k \in Loc /\ k \in job[w].done
        BY ZenonT(60), <1>t, <3>2 DEF WritesAt, TypeInv, TypeOK, ThreadTypeOK, Jobs
      <4>2. mv_memory[k][t].data = Changes(t, Vals(job[w].reads))[k]
        BY ZenonT(60), <1>t, <2>2, <4>1 DEF WorkerValue, WritesAt
      <4> QED
        BY ZenonT(60), <1>t, <3>2, <4>1, <4>2 DEF WritesAt
    <3> QED
      BY ZenonT(60), <3>1, <3>2
  <2>3. "run" \notin {"scan", "confirm"} \cup RecordedLabels
    BY ZenonT(60) DEF RecordedLabels
  <2> QED
    BY ZenonT(60), <1>s, <1>t, <2>1, <2>2, <2>3 DEF WorkerValue, WritesAt
<1> QED
  BY ZenonT(60), <1>t, <1>w, <1>x, OwnerValue DEF ExecuteStep, WritesAt

\* A clean execution leaves its transaction as its result says; a blocked or failed one
\* is a conflict.
LEMMA RecordValue ==
  ASSUME TypeInv, OwnInv, MemoryInv, NEW w \in Workers, RecordExecution(w) \/ RecordFailure(w),
         \A x \in Tx : TxValue(x), \A v \in Workers : WorkerValue(v)
  PROVE  (\A x \in Tx : TxValue(x)') /\ (\A v \in Workers : WorkerValue(v)')
<1>p. pc[w] = "run"
  BY ZenonT(60) DEF RecordExecution, RecordFailure
<1>t. PICK t \in Tx : /\ t = job[w].tx /\ holder[t] = w /\ w # NoOne /\ status[t] = "Executing"
                      /\ job[w].incarnation = incarnation[t]
  BY ZenonT(60), <1>p, RunOwned
<1>y. /\ tx_results \in [Tx -> TxResults]
      /\ history \in [Tx -> [incarnation : Nat, value : Effects]]
  BY ZenonT(60) DEF TypeInv, TypeOK, TxTypeOK, HistoryTypeOK
<1>m. RunMemory(w)
  BY ZenonT(60), <1>p DEF MemoryInv, WorkerMemory
<1>r. Recordable(t, job[w].incarnation)
  BY ZenonT(60), <1>p, <1>t, RecordAccepted
<1>u. UNCHANGED <<status, mv_memory, holder, incarnation>>
  BY ZenonT(60), <1>r, <1>t DEF RecordExecution, RecordFailure
<1>x. TxValue(t)'
  BY ZenonT(60), <1>u, <1>t, HeldValue DEF TxValue
<1>w. ASSUME NEW label \in {"depend", "key"}, NEW j, Goto(w, label, j), j.tx = t,
             j.conflict \/ Exact(t)'
      PROVE  WorkerValue(w)'
  <2>1. pc'[w] = label /\ job'[w] = j
    BY ZenonT(60), <1>w, GotoIs
  <2>2. job'[w].tx = t /\ (job'[w].conflict \/ Exact(t)') /\ pc'[w] \notin {"run", "backing", "scan", "confirm"}
    BY ZenonT(60), <1>w, <2>1
  <2> QED
    BY ZenonT(60), <2>2 DEF WorkerValue
<1>1. CASE RecordExecution(w)
  <2> DEFINE blocked == job[w].blocking # {}
             j == [Idle EXCEPT
                   !.tx = t, !.incarnation = job[w].incarnation,
                   !.conflict = blocked,
                   !.fresh = tx_results[t].kind = "None" \/ ~(WriteSet(w) \subseteq tx_results[t].write_set),
                   !.dep = LatestUnfinalized(job[w].blocking)]
  <2>1. /\ Step(w).op = "ok" /\ WriteSet(w) \cup StaleSet(w) \subseteq job[w].done
        /\ RecordEntry(t, job[w].incarnation,
             IF blocked THEN Estimate ELSE EffectOf(t, Vals(job[w].reads)))
        /\ tx_results' = [tx_results EXCEPT ![t] =
             [kind |-> "Ok", reads |-> job[w].reads, write_set |-> WriteSet(w)]]
        /\ Goto(w, "depend", j)
    BY ZenonT(60), <1>1, <1>r, <1>t DEF RecordExecution
  <2>2. tx_results'[t].reads = job[w].reads
    BY ZenonT(60), <1>y, <2>1
  <2>3. ~blocked => history'[t].value = EffectOf(t, Vals(job[w].reads))
    <3>1. PICK effect : effect = EffectOf(t, Vals(job[w].reads))
      BY ZenonT(60)
    <3>2. ~blocked => RecordEntry(t, job[w].incarnation, effect)
      BY ZenonT(60), <2>1, <3>1
    <3> QED
      BY <1>y, <3>1, <3>2 DEF RecordEntry
  <2>4. \A l \in Loc : l \notin job[w].done => l \notin WriteSet(w) /\ ~Written(l, t)
    BY ZenonT(60), <1>m, <1>t, <2>1 DEF RunMemory, StaleSet
  <2>5. \A l \in job[w].done : IF l \in WriteSet(w) THEN Written(l, t) ELSE ~Written(l, t)
    BY ZenonT(60), <1>m, <1>t, <2>1 DEF RunMemory
  <2>6. \A l \in job[w].done \cap WriteSet(w) :
          mv_memory[l][t].data = Changes(t, Vals(job[w].reads))[l]
    BY ZenonT(60), <1>p, <1>t, <2>1 DEF WorkerValue
  <2>7. WriteSet(w) = Published(t, Vals(job[w].reads))
    BY ZenonT(60), <1>t DEF WriteSet
  <2>8. \A l \in Loc : Written(l, t)' <=> Written(l, t)
    BY ZenonT(60), <1>u DEF Written
  <2>9. ~blocked => Exact(t)'
    BY ZenonT(60), <1>u, <2>2, <2>3, <2>4, <2>5, <2>6, <2>7, <2>8 DEF Exact
  <2>10. j.tx = t /\ (j.conflict <=> blocked)
    BY ZenonT(60) DEF Idle
  <2> HIDE DEF j
  <2> QED
    BY ZenonT(60), <1>t, <1>w, <1>x, <2>1, <2>9, <2>10, OwnerValue DEF ExecuteStep
<1>2. CASE RecordFailure(w)
  <2> DEFINE j == [Idle EXCEPT
                   !.tx = t, !.incarnation = job[w].incarnation, !.conflict = TRUE,
                   !.dep = LatestUnfinalized(job[w].blocking)]
             label == IF job[w].blocking # {} THEN "depend" ELSE "key"
  <2>1. Goto(w, label, j)
    BY ZenonT(60), <1>2, <1>r, <1>t DEF RecordFailure
  <2>2. j.tx = t /\ j.conflict /\ label \in {"depend", "key"}
    BY ZenonT(60) DEF Idle
  <2> HIDE DEF j, label
  <2> QED
    BY ZenonT(60), <1>t, <1>w, <1>x, <2>1, <2>2, OwnerValue DEF ExecuteStep
<1> QED
  BY ZenonT(60), <1>1, <1>2

\* What is recorded of t is kept by the steps that release it.
LEMMA ReleaseValue ==
  ASSUME TypeInv, OwnInv, NEW w \in Workers, Depend(w) \/ HoldKeyTx(w),
         \A x \in Tx : TxValue(x), \A v \in Workers : WorkerValue(v)
  PROVE  (\A x \in Tx : TxValue(x)') /\ (\A v \in Workers : WorkerValue(v)')
<1>p. pc[w] \in {"depend", "key"}
  BY ZenonT(60) DEF Depend, HoldKeyTx
<1>t. PICK t \in Tx : t = job[w].tx /\ holder[t] = w /\ w # NoOne /\ status[t] = "Executing"
  BY ZenonT(60), <1>p, RunOwned
<1>u. UNCHANGED <<status, mv_memory, holder, incarnation, history, tx_results>>
  BY ZenonT(60) DEF Depend, HoldKeyTx
<1>j. pc'[w] = "executed" /\ job'[w].tx = t /\ job'[w].conflict = job[w].conflict
  <2>1. \E n : Goto(w, "executed", job[w]) \/ Goto(w, "executed", [job[w] EXCEPT !.next = n])
    BY ZenonT(60) DEF Depend, HoldKeyTx
  <2>2. job[w] \in Jobs
    BY ZenonT(60) DEF TypeInv, TypeOK, ThreadTypeOK
  <2>3. PICK j : Goto(w, "executed", j) /\ j.tx = t /\ j.conflict = job[w].conflict
    <3>1. PICK n : Goto(w, "executed", job[w]) \/ Goto(w, "executed", [job[w] EXCEPT !.next = n])
      BY ZenonT(60), <2>1
    <3>2. [job[w] EXCEPT !.next = n].tx = t /\ [job[w] EXCEPT !.next = n].conflict = job[w].conflict
      BY ZenonT(60), <1>t, <2>2 DEF Jobs
    <3> QED
      BY ZenonT(60), <1>t, <3>1, <3>2
  <2> QED
    BY ZenonT(60), <2>3, GotoAt
<1>x. TxValue(t)'
  BY ZenonT(60), <1>u, <1>t, HeldValue DEF TxValue
<1>w. WorkerValue(w)'
  <2>1. pc[w] \in RecordedLabels /\ "executed" \notin {"run", "backing", "scan", "confirm"}
    BY ZenonT(60), <1>p DEF RecordedLabels
  <2>2. ~job[w].conflict => Exact(t)
    BY ZenonT(60), <1>t, <2>1 DEF WorkerValue
  <2>3. Exact(t)' <=> Exact(t)
    BY ZenonT(60), <1>u DEF Exact, Written
  <2>4. job'[w].tx = t /\ (job'[w].conflict \/ Exact(t)') /\ pc'[w] \notin {"run", "backing", "scan", "confirm"}
    BY ZenonT(60), <1>j, <2>1, <2>2, <2>3
  <2> QED
    BY ZenonT(60), <2>4 DEF WorkerValue
<1> QED
  BY ZenonT(60), <1>t, <1>w, <1>x, OwnerValue DEF ExecuteStep

\* finish_execution gives the transaction the status its result calls for.
LEMMA EndsValue ==
  ASSUME TypeInv, OwnInv, NEW w \in Workers,
         FinishExecution(w) \/ StampExecution(w) \/ RewindExecution(w),
         \A x \in Tx : TxValue(x), \A v \in Workers : WorkerValue(v)
  PROVE  (\A x \in Tx : TxValue(x)') /\ (\A v \in Workers : WorkerValue(v)')
<1>p. pc[w] \in {"executed", "stamp", "rewind"}
  BY ZenonT(60) DEF FinishExecution, StampExecution, RewindExecution
<1>b. pc[w] \in BusyLabels /\ (pc[w] = "executed" => pc[w] \in RecordedLabels)
      /\ (pc[w] # "executed" => pc[w] \in FinishLabels)
  BY ZenonT(60), <1>p DEF BusyLabels, TaskLabels, ExecuteLabels, RunLabels, RecordedLabels,
     FinishLabels
<1>t. PICK t \in Tx : t = job[w].tx /\ WorkerOwn(w)
  BY ZenonT(60), <1>b, BusyNotFinal DEF OwnInv
<1>y. status \in [Tx -> Statuses] /\ holder \in [Tx -> Workers \cup {NoOne}]
  BY ZenonT(60) DEF TypeInv, TypeOK, TxTypeOK
<1>u. UNCHANGED <<history, mv_memory, tx_results, incarnation>>
  BY ZenonT(60) DEF FinishExecution, StampExecution, RewindExecution
<1>c. Exact(t)' <=> Exact(t)
  BY ZenonT(60), <1>u DEF Exact, Written
<1>v. TxValue(t) /\ WorkerValue(w)
  BY ZenonT(60)
<1>k. \A l \in Loc : mv_memory'[l][t].incarnation <= incarnation'[t]
  BY ZenonT(60), <1>u, <1>v DEF TxValue
<1>w. WorkerValue(w)'
  <2>1. PICK label \in {"validate", "stamp", "rewind", "next", "task"}, j \in {job'[w]} : Goto(w, label, j)
    <3>1. \E label \in {"validate", "stamp", "rewind", "next", "task"} : \E j : Goto(w, label, j)
      BY ZenonT(60) DEF FinishExecution, StampExecution, RewindExecution
    <3> QED
      BY ZenonT(60), <3>1, GotoAt
  <2>2. pc'[w] = label
    BY ZenonT(60), <2>1, GotoIs
  <2>3. label \notin {"run", "backing", "scan", "confirm"} \cup RecordedLabels
    BY ZenonT(60), <2>1 DEF RecordedLabels
  <2> QED
    BY ZenonT(60), <2>2, <2>3 DEF WorkerValue
<1>x. TxValue(t)'
  <2>1. CASE FinishExecution(w)
    <3>1. pc[w] = "executed"
      BY ZenonT(60), <2>1 DEF FinishExecution
    <3>2. ~job[w].conflict => Exact(t)
      BY ZenonT(60), <1>b, <1>t, <1>v, <3>1 DEF WorkerValue
    <3>3. \/ ~job[w].conflict /\ SetStatus(t, "Validating")
          \/ job[w].conflict /\ SetStatus(t, "Conflict")
          \/ ~job[w].conflict /\ SetStatus(t, "Executed")
      BY ZenonT(60), <1>t, <2>1 DEF FinishExecution
    <3>4. \/ ~job[w].conflict /\ status'[t] \in {"Validating", "Executed"}
          \/ status'[t] = "Conflict"
      BY ZenonT(60), <1>y, <3>3 DEF SetStatus
    <3>5. status'[t] # "Executing"
      BY ZenonT(60), <3>4
    <3>6. status'[t] = "Conflict" \/ Exact(t)'
      BY ZenonT(60), <1>c, <3>2, <3>4
    <3> QED
      BY ZenonT(60), <1>k, <3>5, <3>6, HeldValue DEF TxValue
  <2>2. CASE StampExecution(w) \/ RewindExecution(w)
    <3>1. pc[w] # "executed" /\ UNCHANGED status
      BY ZenonT(60), <2>2 DEF StampExecution, RewindExecution
    <3>2. status[t] \in {"Executed", "Conflict"}
      BY ZenonT(60), <1>b, <1>t, <3>1 DEF WorkerOwn
    <3>3. status'[t] # "Executing" /\ (status'[t] = "Conflict" \/ status'[t] = "Executed")
      BY ZenonT(60), <3>1, <3>2
    <3>4. status'[t] = "Executed" => Exact(t)'
      BY ZenonT(60), <1>c, <1>v, <3>1 DEF TxValue
    <3> QED
      BY ZenonT(60), <1>k, <3>3, <3>4, HeldValue DEF TxValue
  <2> QED
    BY ZenonT(60), <2>1, <2>2
<1> QED
  BY ZenonT(60), <1>t, <1>w, <1>x, OwnerValue DEF ExecuteStep

\* A validation leaves its transaction as the result says until it finds a conflict.
LEMMA ValidateValue ==
  ASSUME TypeInv, OwnInv, NEW w \in Workers, ValidateStep(w),
         \A x \in Tx : TxValue(x), \A v \in Workers : WorkerValue(v)
  PROVE  (\A x \in Tx : TxValue(x)') /\ (\A v \in Workers : WorkerValue(v)')
<1>p. pc[w] \in ValidateLabels
  BY ZenonT(60) DEF ValidateStep, BeginValidation, ScanMemory, ScanBeneficiary, Confirm,
     MarkConflictWrite, InvalidateHistory, StampConflict, RewindConflict, AddConflict,
     ValidateLabels
<1>b. pc[w] \in BusyLabels /\ pc[w] \in TaskLabels
      /\ (pc[w] # "validate" => pc[w] \in LockedLabels)
  BY ZenonT(60), <1>p DEF BusyLabels, TaskLabels, ValidateLabels, LockedLabels
<1>t. PICK t \in Tx : t = job[w].tx /\ WorkerOwn(w) /\ TxOwn(t)
  BY ZenonT(60), <1>b, BusyNotFinal DEF OwnInv
<1>s. /\ status[t] = "Validating" /\ incarnation[t] = job[w].incarnation
      /\ history[t].incarnation = incarnation[t] /\ tx_results[t].kind = "Ok"
      /\ pc[w] # "validate" => holder[t] = w
  BY ZenonT(60), <1>b, <1>p, <1>t DEF WorkerOwn, TxOwn
<1>n. w # NoOne
  BY ZenonT(60), ThreadAssumption
<1>y. /\ job[w] \in Jobs /\ status \in [Tx -> Statuses] /\ MemoryTypeOK
      /\ holder \in [Tx -> Workers \cup {NoOne}] /\ tx_results \in [Tx -> TxResults]
  BY ZenonT(60) DEF TypeInv, TypeOK, TxTypeOK, ThreadTypeOK
<1>u. UNCHANGED <<tx_results, incarnation>>
  BY ZenonT(60) DEF ValidateStep, BeginValidation, ScanMemory, ScanBeneficiary, Confirm,
     MarkConflictWrite, InvalidateHistory, StampConflict, RewindConflict, AddConflict
<1>v. TxValue(t) /\ WorkerValue(w)
  BY ZenonT(60)
<1>o. TxValue(t)' /\ WorkerValue(w)' =>
        (\A x \in Tx : TxValue(x)') /\ (\A v \in Workers : WorkerValue(v)')
  BY ZenonT(60), <1>t, OwnerValue
<1>k. UNCHANGED mv_memory => \A l \in Loc : mv_memory'[l][t].incarnation <= incarnation'[t]
  BY ZenonT(60), <1>u, <1>v DEF TxValue
<1>c. UNCHANGED <<mv_memory, history>> => (Exact(t)' <=> Exact(t))
  BY ZenonT(60), <1>u DEF Exact, Written
<1>q. ASSUME NEW label \in {"next", "estimate", "restamp", "recursor", "readd"}, NEW j,
             Goto(w, label, j)
      PROVE  WorkerValue(w)'
  BY ZenonT(60), <1>q, GotoIs DEF RecordedLabels, WorkerValue
<1>f. {"tx", "ts", "done"} \subseteq DOMAIN job[w]
  BY ZenonT(60), <1>y DEF Jobs
<1>1. CASE BeginValidation(w) \/ ScanMemory(w) \/ ScanBeneficiary(w)
  <2>k. \A l, valid, dep : /\ {"tx", "ts", "done"} \subseteq DOMAIN Checked(w, l, valid, dep)
                          /\ Checked(w, l, valid, dep).tx = t
    BY ZenonT(60), <1>f, <1>t DEF Checked
  <2>1. PICK j : Scanned(w, j) /\ {"tx", "ts", "done"} \subseteq DOMAIN j /\ j.tx = t
    <3>1. CASE BeginValidation(w)
      <4>1. Scanned(w, [job[w] EXCEPT !.ts = logical_clock])
        BY ZenonT(60), <1>s, <1>t, <3>1 DEF BeginValidation
      <4> QED
        BY <1>f, <1>t, <4>1
    <3>2. CASE ScanMemory(w)
      <4>1. PICK l, valid, dep : Scanned(w, Checked(w, l, valid, dep))
        BY ZenonT(60), <3>2 DEF ScanMemory
      <4> QED
        BY ZenonT(60), <2>k, <4>1
    <3>3. CASE ScanBeneficiary(w)
      <4>1. \/ \E l, valid, dep : Scanned(w, Checked(w, l, valid, dep))
            \/ \E c : Scanned(w, [job[w] EXCEPT !.chain = c])
        BY ZenonT(60), <3>3 DEF ScanBeneficiary
      <4>2. CASE \E l, valid, dep : Scanned(w, Checked(w, l, valid, dep))
        BY ZenonT(60), <2>k, <4>2
      <4>3. CASE \E c : Scanned(w, [job[w] EXCEPT !.chain = c])
        BY <1>f, <1>t, <4>3
      <4> QED
        BY ZenonT(60), <4>1, <4>2, <4>3
    <3> QED
      BY ZenonT(60), <1>1, <3>1, <3>2, <3>3
  <2>2. pc'[w] \in {"scan", "estimate", "confirm"} /\ job'[w].tx = t
    BY ZenonT(60), <2>1, ScannedAt
  <2>3. pc'[w] \notin RecordedLabels \cup {"run", "backing"}
    BY ZenonT(60), <2>2 DEF RecordedLabels
  <2>4. /\ UNCHANGED <<status, mv_memory, history>>
        /\ \/ pc[w] = "scan" /\ UNCHANGED holder
           \/ pc[w] = "validate" /\ Free(t) /\ Lock(t, w)
    BY ZenonT(60), <1>1, <1>s, <1>t DEF BeginValidation, ScanMemory, ScanBeneficiary
  <2>5. Exact(t)
    BY ZenonT(60), <1>s, <1>t, <1>v, <2>4 DEF Free, TxValue, WorkerValue
  <2>6. holder'[t] = w
    <3>1. pc[w] = "scan" => pc[w] # "validate"
      BY ZenonT(60)
    <3> QED
      BY ZenonT(60), <1>s, <1>y, <2>4, <3>1 DEF Lock
  <2>7. WorkerValue(w)'
    BY ZenonT(60), <1>c, <2>2, <2>3, <2>4, <2>5 DEF WorkerValue
  <2>8. TxValue(t)'
    BY ZenonT(60), <1>k, <1>n, <1>s, <2>4, <2>6, HeldValue
  <2> QED
    BY ZenonT(60), <1>o, <2>7, <2>8
<1>2. CASE Confirm(w)
  <2>1. /\ Goto(w, "next", Idle) /\ SetStatus(t, "Unconfirmed") /\ pc[w] = "confirm"
        /\ UNCHANGED <<history, mv_memory>>
    BY ZenonT(60), <1>2, <1>t DEF Confirm
  <2>2. status'[t] = "Unconfirmed" /\ status'[t] # "Executing"
    <3>1. status'[t] = "Unconfirmed"
      BY ZenonT(60), <1>y, <2>1 DEF SetStatus
    <3> QED
      BY ZenonT(60), <3>1
  <2>3. Exact(t)'
    BY ZenonT(60), <1>c, <1>t, <1>v, <2>1 DEF WorkerValue
  <2>4. TxValue(t)'
    BY ZenonT(60), <1>k, <2>1, <2>2, <2>3 DEF TxValue
  <2> QED
    BY ZenonT(60), <1>o, <1>q, <2>1, <2>4
<1>3. CASE MarkConflictWrite(w)
  <2>1. pc[w] = "estimate" /\ UNCHANGED <<status, holder>>
    BY ZenonT(60), <1>3 DEF MarkConflictWrite
  <2>2. PICK l \in Loc : MarkEstimate(l, t) /\ MarkDone(w, l)
    <3>1. tx_results[t].write_set \subseteq Loc
      BY ZenonT(60), <1>y DEF TxResults
    <3> QED
      BY ZenonT(60), <1>3, <1>t, <3>1 DEF MarkConflictWrite
  <2>3. \A k \in Loc : mv_memory'[k][t].incarnation = mv_memory[k][t].incarnation
    BY ZenonT(60), <1>y, <2>2, MarkEstimateAt
  <2>4. \A k \in Loc : mv_memory'[k][t].incarnation <= incarnation'[t]
    BY ZenonT(60), <1>u, <1>v, <2>3 DEF TxValue
  <2>5. pc[w] # "validate"
    BY ZenonT(60), <2>1
  <2>6. TxValue(t)'
    BY ZenonT(60), <1>n, <1>s, <2>1, <2>4, <2>5, HeldValue
  <2>7. \E j : Goto(w, "estimate", j)
    BY ZenonT(60), <2>1, <2>2 DEF MarkDone
  <2> QED
    BY ZenonT(60), <1>o, <1>q, <2>6, <2>7
<1>4. CASE InvalidateHistory(w) \/ StampConflict(w) \/ RewindConflict(w)
  <2>1. Invalidatable(t, job[w].incarnation)
    BY ZenonT(60), <1>s DEF Invalidatable
  <2>2. /\ pc[w] \in {"estimate", "restamp", "recursor"}
        /\ UNCHANGED <<status, holder, mv_memory>>
        /\ \E label \in {"restamp", "recursor", "readd"} : \E j : Goto(w, label, j)
    BY ZenonT(60), <1>4, <1>t, <2>1 DEF InvalidateHistory, StampConflict, RewindConflict
  <2>3. pc[w] # "validate"
    BY ZenonT(60), <2>2
  <2>4. TxValue(t)'
    BY ZenonT(60), <1>k, <1>n, <1>s, <2>2, <2>3, HeldValue
  <2> QED
    BY ZenonT(60), <1>o, <1>q, <2>2, <2>4
<1>5. CASE AddConflict(w)
  <2>1. Goto(w, "next", Idle) /\ SetStatus(t, "Conflict") /\ UNCHANGED mv_memory
    BY ZenonT(60), <1>5, <1>t DEF AddConflict
  <2>2. status'[t] = "Conflict"
    BY ZenonT(60), <1>y, <2>1 DEF SetStatus
  <2>3. TxValue(t)'
    BY ZenonT(60), <1>k, <2>1, <2>2, HeldValue
  <2> QED
    BY ZenonT(60), <1>o, <1>q, <2>1, <2>3
<1> QED
  BY ZenonT(60), <1>1, <1>2, <1>3, <1>4, <1>5 DEF ValidateStep

\* run_finality_loop: a candidate that becomes final is as its result says.
LEMMA FinalityValue ==
  ASSUME TypeInv, OwnInv, FinalityStep,
         \A x \in Tx : TxValue(x), \A v \in Workers : WorkerValue(v)
  PROVE  (\A x \in Tx : TxValue(x)') /\ (\A v \in Workers : WorkerValue(v)')
<1>1. /\ UNCHANGED <<pc, job, mv_memory, history, tx_results, holder>>
      /\ \A x \in Tx : status'[x] # status[x] =>
           status[x] = "Unconfirmed" /\ status'[x] = "Finality"
  BY ZenonT(60), FinalityFrame
<1>2. UNCHANGED <<incarnation, committed, commit_pc>>
  BY ZenonT(60) DEF FinalityStep, FinalityCheck, FinalityLock, FinalityPublish
<1>3. \A x : Exact(x)' <=> Exact(x)
  BY ZenonT(60), <1>1 DEF Exact, Written
<1>4. ASSUME NEW x \in Tx PROVE TxValue(x)'
  <2>1. CASE status'[x] = status[x]
    <3>1. Uncommitted(x)' <=> Uncommitted(x)
      BY ZenonT(60), <1>2 DEF Uncommitted
    <3> QED
      BY ZenonT(60), <1>1, <1>2, <1>3, <2>1, <3>1 DEF TxValue
  <2>2. CASE status'[x] # status[x]
    BY ZenonT(60), <1>1, <2>2, <1>3, <1>2 DEF TxValue
  <2> QED
    BY ZenonT(60), <2>1, <2>2
<1>5. ASSUME NEW v \in Workers PROVE WorkerValue(v)'
  <2>1. Step(v)' = Step(v) /\ WriteSet(v)' = WriteSet(v)
    BY ZenonT(60), <1>1, SameStep
  <2> QED
    BY ZenonT(60), <1>1, <1>2, <1>3, <2>1 DEF WorkerValue
<1> QED
  BY ZenonT(60), <1>4, <1>5

\* The commit thread takes results of committed transactions only.
LEMMA CommitTakes ==
  ASSUME TypeInv, CommitStep, NEW x \in Tx
  PROVE  /\ Uncommitted(x)' => Uncommitted(x)
         /\ tx_results'[x] = tx_results[x] \/ ~Uncommitted(x)'
<1>y. tx_results \in [Tx -> TxResults] /\ committed \in 0 .. N
  BY ZenonT(60) DEF TypeInv, TypeOK, TxTypeOK, CtxTypeOK
<1>x. x \in Nat /\ committed \in Nat
  BY <1>y, BlockAssumption DEF Tx
<1>1. CASE CommitCheck \/ ReleaseSuccessor
  <2>1. UNCHANGED <<committed, tx_results>> /\ commit_pc \in {"outer", "inner", "release"}
    BY ZenonT(60), <1>1 DEF CommitCheck, ReleaseSuccessor
  <2>2. commit_pc \notin {"publish", "done"}
    BY ZenonT(60), <2>1
  <2> QED
    BY ZenonT(60), <2>1, <2>2 DEF Uncommitted
<1>2. CASE CommitTx
  <2>1. /\ UNCHANGED committed /\ commit_pc = "inner" /\ commit_pc' \in {"publish", "done"}
        /\ tx_results' = [tx_results EXCEPT ![committed] = NoResult]
    BY ZenonT(60), <1>2 DEF CommitTx, StopCommit
  <2>2. tx_results'[x] = tx_results[x] \/ x = committed
    BY ZenonT(60), <1>y, <2>1
  <2>3. Uncommitted(x)' => x > committed
    BY ZenonT(60), <2>1 DEF Uncommitted
  <2>4. x = committed => ~(x > committed)
    BY <1>x
  <2> QED
    BY ZenonT(60), <2>2, <2>3, <2>4 DEF Uncommitted
<1>3. CASE PublishCommit
  <2>1. committed' = committed + 1 /\ UNCHANGED tx_results
    BY ZenonT(60), <1>3 DEF PublishCommit
  <2>2. (x > committed' \/ x = committed') => x > committed
    BY <1>x, <2>1
  <2> QED
    BY ZenonT(60), <2>1, <2>2 DEF Uncommitted
<1> QED
  BY ZenonT(60), <1>1, <1>2, <1>3 DEF CommitStep

\* OrderedCommitter: nobody needs the result it takes.
LEMMA CommitValue ==
  ASSUME TypeInv, OwnInv, CommitStep,
         \A x \in Tx : TxValue(x), \A v \in Workers : WorkerValue(v)
  PROVE  (\A x \in Tx : TxValue(x)') /\ (\A v \in Workers : WorkerValue(v)')
<1>1. /\ UNCHANGED <<pc, job, mv_memory, history, status, holder>>
      /\ \A x \in Tx : tx_results'[x] # tx_results[x] => status[x] = "Finality"
  BY ZenonT(60), CommitFrame
<1>2. UNCHANGED incarnation
  BY ZenonT(60) DEF CommitStep, CommitCheck, CommitTx, PublishCommit, ReleaseSuccessor
<1>3. \A x \in Tx : tx_results'[x] = tx_results[x] => (Exact(x)' <=> Exact(x))
  BY ZenonT(60), <1>1 DEF Exact, Written
<1>4. ASSUME NEW x \in Tx PROVE TxValue(x)'
  <2>1. /\ Uncommitted(x)' => Uncommitted(x)
        /\ tx_results'[x] = tx_results[x] \/ ~Uncommitted(x)'
    BY ZenonT(60), CommitTakes
  <2>2. CASE tx_results'[x] = tx_results[x]
    BY ZenonT(60), <1>1, <1>2, <1>3, <2>1, <2>2 DEF TxValue
  <2>3. CASE tx_results'[x] # tx_results[x]
    <3>1. status[x] = "Finality" /\ ~Uncommitted(x)'
      BY ZenonT(60), <1>1, <2>1, <2>3
    <3>2. status'[x] \notin {"Executing", "Executed", "Unconfirmed", "Validating"}
      BY ZenonT(60), <1>1, <3>1
    <3>3. status'[x] # "Executing" /\ status'[x] # "Validating"
      BY ZenonT(60), <3>2
    <3> QED
      BY ZenonT(60), <1>1, <1>2, <3>1, <3>2, <3>3 DEF TxValue
  <2> QED
    BY ZenonT(60), <2>2, <2>3
<1>5. ASSUME NEW v \in Workers PROVE WorkerValue(v)'
  <2>1. Step(v)' = Step(v) /\ WriteSet(v)' = WriteSet(v)
    BY ZenonT(60), <1>1, SameStep
  <2>2. pc[v] \in {"scan", "confirm"} \cup RecordedLabels => (Exact(job[v].tx)' <=> Exact(job[v].tx))
    <3> SUFFICES ASSUME pc[v] \in {"scan", "confirm"} \cup RecordedLabels
                 PROVE  Exact(job[v].tx)' <=> Exact(job[v].tx)
      BY ZenonT(60)
    <3>1. /\ pc[v] \in BusyLabels
          /\ pc[v] \in ValidateLabels \/ pc[v] \in ExecuteLabels
      BY ZenonT(60) DEF BusyLabels, TaskLabels, ValidateLabels, ExecuteLabels, RecordedLabels
    <3>2. job[v].tx \in Tx /\ status[job[v].tx] \in {"Validating", "Executing"}
      BY ZenonT(60), <3>1, BusyNotFinal DEF OwnInv, WorkerOwn
    <3>3. status[job[v].tx] # "Finality"
      BY ZenonT(60), <3>2
    <3>4. PICK x \in Tx : x = job[v].tx
      BY ZenonT(60), <3>2
    <3>5. Exact(x)' <=> Exact(x)
      BY ZenonT(60), <1>1, <1>3, <3>3, <3>4
    <3>6. job'[v].tx = x
      BY ZenonT(60), <1>1, <3>4
    <3> QED
      BY ZenonT(60), <3>4, <3>5, <3>6
  <2> QED
    BY ZenonT(60), <1>1, <1>2, <2>1, <2>2 DEF WorkerValue
<1> QED
  BY ZenonT(60), <1>4, <1>5

\* Every step of every thread keeps what is said of the entries.
LEMMA ValuesKept ==
  ASSUME TypeInv, OwnInv, MemoryInv, [Next]_vars,
         \A x \in Tx : TxValue(x), \A v \in Workers : WorkerValue(v)
  PROVE  (\A x \in Tx : TxValue(x)') /\ (\A v \in Workers : WorkerValue(v)')
<1>1. ASSUME NEW w \in Workers, WorkerStep(w)
      PROVE  (\A x \in Tx : TxValue(x)') /\ (\A v \in Workers : WorkerValue(v)')
  <2>1. CASE ScheduleStep(w)
    BY ZenonT(60), <2>1, ScheduleValue
  <2>2. CASE BeginExecution(w) \/ ReadMemory(w) \/ ReadBacking(w) \/ ReadBeneficiary(w)
    BY ZenonT(60), <2>2, ReadsValue
  <2>3. CASE PublishWrite(w) \/ PruneWrite(w) \/ MarkFailedWrite(w)
    BY ZenonT(60), <2>3, WriteValue
  <2>4. CASE RecordExecution(w) \/ RecordFailure(w)
    BY ZenonT(60), <2>4, RecordValue
  <2>5. CASE Depend(w) \/ HoldKeyTx(w)
    BY ZenonT(60), <2>5, ReleaseValue
  <2>6. CASE FinishExecution(w) \/ StampExecution(w) \/ RewindExecution(w)
    BY ZenonT(60), <2>6, EndsValue
  <2>7. CASE ValidateStep(w)
    BY ZenonT(60), <2>7, ValidateValue
  <2> QED
    BY ZenonT(60), <1>1, <2>1, <2>2, <2>3, <2>4, <2>5, <2>6, <2>7 DEF WorkerStep, ExecuteStep
<1>2. ASSUME CallerStep \/ UNCHANGED vars
      PROVE  (\A x \in Tx : TxValue(x)') /\ (\A v \in Workers : WorkerValue(v)')
  <2>1. UNCHANGED <<pc, job, mv_memory, history, tx_results, status, holder, incarnation,
                    committed, commit_pc>>
    BY ZenonT(60), <1>2 DEF CallerStep, PostExecute, ReplayTx, ReplayEnd, vars
  <2>2. \A x : Exact(x)' <=> Exact(x)
    BY ZenonT(60), <2>1 DEF Exact, Written
  <2>3. \A x : Uncommitted(x)' <=> Uncommitted(x)
    BY ZenonT(60), <2>1 DEF Uncommitted
  <2>4. ASSUME NEW v \in Workers PROVE WorkerValue(v)'
    BY ZenonT(60), <2>1, SameStep, <2>2 DEF WorkerValue
  <2> QED
    BY ZenonT(60), <2>1, <2>2, <2>3, <2>4 DEF TxValue
<1> QED
  BY ZenonT(60), <1>1, <1>2, FinalityValue, CommitValue DEF Next, Finished
=============================================================================
