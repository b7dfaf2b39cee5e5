----------------------------- MODULE Lifecycle -----------------------------
(***************************************************************************)
(* The life of one Scheduler (src/scheduler/control.rs, and the parts of   *)
(* scheduler.rs and fallback.rs that start, stop, join and replay): who    *)
(* may execute, how the threads are released when one of them panics, and  *)
(* what the caller is left with.  Transactions are counted: the scheduling *)
(* of the block is the module Scheduler.                                   *)
(***************************************************************************)
EXTENDS Naturals, Sequences, Functions

CONSTANTS
  Callers,      \* threads that share the scheduler
  WorkerNames,  \* the worker threads, in the order they are joined
  block_size,
  MaxPanics     \* bound on the panics of one execution

\* The threads are different, and none is called like the caller.
ASSUME LifecycleAssumption ==
  /\ block_size \in Nat
  /\ WorkerNames \in Seq(STRING)
  /\ \A i, j \in DOMAIN WorkerNames : WorkerNames[i] = WorkerNames[j] => i = j
  /\ {"finality", "commit", "caller", "none"} \cap Range(WorkerNames) = {}

VARIABLES
  started,      \* AtomicBool
  answer,       \* [caller -> what its call returned]
  phase,        \* the position of the elected caller
  role,         \* [thread -> "unspawned", "running", "done", "panicked"]
  payload,      \* the panic that the caller will resume
  joined,       \* threads joined so far
  aborted,      \* the abort flag of the control
  reason,
  ready,        \* validated prefix
  finality_idx, committed_idx,
  state_end,    \* transactions applied to the state
  commit,       \* locals of the commit loop: position, outcomes, error
  outcomes,     \* locals of the replay
  results,      \* installed outcomes
  panics

run == <<role, payload, joined, panics>>
progress == <<ready, finality_idx, committed_idx, state_end, commit>>
lifeVars == <<started, answer, phase, run, aborted, reason, progress, outcomes, results>>

SpawnOrder == <<"finality", "commit">> \o WorkerNames
JoinOrder == <<"commit", "finality">> \o WorkerNames
Roles == Range(JoinOrder)

LifeInit ==
  /\ started = FALSE
  /\ answer = [c \in Callers |-> "none"]
  /\ phase = "none"
  /\ role = [r \in Roles |-> "unspawned"]
  /\ payload = "none" /\ joined = 0 /\ panics = 0
  /\ aborted = FALSE /\ reason = "none"
  /\ ready = 0 /\ finality_idx = 0 /\ committed_idx = 0 /\ state_end = 0
  /\ commit = [pc |-> "loop", outcomes |-> 0, error |-> FALSE]
  /\ outcomes = 0 /\ results = 0

-----------------------------------------------------------------------------
(* The elected caller                                                      *)

\* run_once, from parallel_execute or from fallback_sequential; a short block
\* and force_sequential replay from the start as well.
Elect(c) ==
  /\ answer[c] = "none"
  /\ ~started
  /\ started' = TRUE
  /\ answer' = [answer EXCEPT ![c] = "executing"]
  /\ phase' \in {"setup", "replay"}
  /\ UNCHANGED <<run, aborted, reason, progress, outcomes, results>>

\* run_once: the scheduler has been used.
Refuse(c) ==
  /\ answer[c] = "none"
  /\ started
  /\ answer' = [answer EXCEPT ![c] = "refused"]
  /\ UNCHANGED <<started, phase, run, aborted, reason, progress, outcomes, results>>

ReturnWith(a) ==
  /\ phase' = "returned"
  /\ answer' = [c \in Callers |-> IF answer[c] = "executing" THEN a ELSE answer[c]]

\* parallel_execute_inner: the beneficiary's account is loaded first.
Setup ==
  /\ phase = "setup"
  /\ \/ phase' = "spawn" /\ UNCHANGED answer
     \/ ReturnWith("error")
  /\ UNCHANGED <<started, run, aborted, reason, progress, outcomes, results>>

\* The finality thread, the commit thread and the workers, in this order.
Unspawned(i) ==
  /\ role[SpawnOrder[i]] = "unspawned"
  /\ \A k \in 1 .. i - 1 : role[SpawnOrder[k]] # "unspawned"

AllSpawned == \A i \in DOMAIN SpawnOrder : role[SpawnOrder[i]] # "unspawned"

Spawn ==
  /\ phase = "spawn"
  /\ \/ \E i \in DOMAIN SpawnOrder :
          Unspawned(i) /\ role' = [role EXCEPT ![SpawnOrder[i]] = "running"] /\ UNCHANGED phase
     \/ AllSpawned /\ phase' = "join" /\ UNCHANGED role
  /\ UNCHANGED <<started, answer, payload, joined, panics, aborted, reason, progress,
                 outcomes, results>>

\* thread::scope: spawning panics, and the guard of the closure cancels the
\* threads that run already.
SpawnFails ==
  /\ phase = "spawn" /\ ~AllSpawned /\ panics < MaxPanics
  /\ phase' = "unwind" /\ payload' = "caller" /\ panics' = panics + 1
  /\ aborted' = TRUE
  /\ UNCHANGED <<started, answer, role, joined, reason, progress, outcomes, results>>

\* The scope waits for its threads before the panic leaves it.
Unwind ==
  /\ phase = "unwind"
  /\ \A r \in Roles : role[r] # "running"
  /\ ReturnWith("panic")
  /\ UNCHANGED <<started, run, aborted, reason, progress, outcomes, results>>

\* The joins, in order; the first panic met is resumed.
Join ==
  /\ phase = "join" /\ joined < Len(JoinOrder)
  /\ role[JoinOrder[joined + 1]] \in {"done", "panicked"}
  /\ joined' = joined + 1
  /\ payload' = IF role[JoinOrder[joined + 1]] = "panicked" /\ payload = "none"
                THEN JoinOrder[joined + 1] ELSE payload
  /\ UNCHANGED <<started, answer, phase, role, panics, aborted, reason, progress, outcomes, results>>

ResumeUnwind ==
  /\ phase = "join" /\ joined = Len(JoinOrder) /\ payload # "none"
  /\ ReturnWith("panic")
  /\ UNCHANGED <<started, run, aborted, reason, progress, outcomes, results>>

\* Faulty variant: the outcomes are kept when the commit loop succeeded only.
InstallOnSuccess ==
  /\ phase = "join" /\ joined = Len(JoinOrder) /\ payload = "none"
  /\ IF commit.error THEN ReturnWith("error") /\ UNCHANGED results
     ELSE results' = commit.outcomes /\ phase' = "post" /\ UNCHANGED answer
  /\ UNCHANGED <<started, run, aborted, reason, progress, outcomes>>

\* install_commit_loop_result.
Install ==
  /\ phase = "join" /\ joined = Len(JoinOrder) /\ payload = "none"
  /\ results' = commit.outcomes
  /\ IF commit.error THEN ReturnWith("error") ELSE phase' = "post" /\ UNCHANGED answer
  /\ UNCHANGED <<started, run, aborted, reason, progress, outcomes>>

\* post_execute.  The error of a fatal abort can be missing.
PostExecute ==
  /\ phase = "post"
  /\ \/ ~aborted /\ ReturnWith("ok")
     \/ aborted /\ reason \in {"fatal", "commit"} /\ ReturnWith("error")
     \/ aborted /\ reason # "commit" /\ phase' = "replay" /\ UNCHANGED answer
  /\ UNCHANGED <<started, run, aborted, reason, progress, outcomes, results>>

\* replay_uncommitted_suffix: one transaction is executed or skipped.  Both
\* callers pass the number of installed outcomes as the boundary.
ReplayTx ==
  /\ phase = "replay" /\ results + outcomes < block_size
  /\ state_end' = state_end + 1
  /\ outcomes' = outcomes + 1
  /\ UNCHANGED <<started, answer, phase, run, aborted, reason, ready, finality_idx, committed_idx,
                 commit, results>>

\* The replay ends with the block or with an error of its next transaction.
ReplayEnds ==
  /\ phase = "replay"
  /\ \/ results + outcomes = block_size /\ ReturnWith("ok")
     \/ results + outcomes < block_size /\ ReturnWith("error")
  /\ results' = results + outcomes
  /\ UNCHANGED <<started, run, aborted, reason, progress, outcomes>>

\* The EVM panics in the caller's own thread.
ReplayPanics ==
  /\ phase = "replay" /\ results + outcomes < block_size /\ panics < MaxPanics
  /\ payload' = "caller" /\ panics' = panics + 1
  /\ ReturnWith("panic")
  /\ UNCHANGED <<started, role, joined, aborted, reason, progress, outcomes, results>>

-----------------------------------------------------------------------------
(* The threads                                                             *)

\* abort: the first reason stays.
Abort(why) == aborted' = TRUE /\ reason' = IF reason = "none" THEN why ELSE reason

\* Faulty variant: the guard releases nobody.
NoCancel == UNCHANGED <<aborted, reason>>

\* CancelOnPanic: cancel, without a reason.
CancelOnPanic == aborted' = TRUE /\ UNCHANGED reason

Panic(r) ==
  /\ role[r] = "running" /\ panics < MaxPanics
  /\ role' = [role EXCEPT ![r] = "panicked"]
  /\ panics' = panics + 1
  /\ CancelOnPanic
  /\ UNCHANGED <<started, answer, phase, payload, joined, progress, outcomes, results>>

Ends(r) == role' = [role EXCEPT ![r] = "done"] /\ UNCHANGED <<payload, joined, panics>>

\* run_worker: a task extends the validated prefix, or aborts.
WorkerTask(w) ==
  /\ role[w] = "running" /\ ready < block_size
  /\ ready' = ready + 1
  /\ UNCHANGED <<started, answer, phase, run, aborted, reason, finality_idx, committed_idx,
                 state_end, commit, outcomes, results>>

WorkerAborts(w) ==
  /\ role[w] = "running" /\ ready < block_size
  /\ \E why \in {"fatal", "parallel", "fallback"} : Abort(why)
  /\ UNCHANGED <<started, answer, phase, run, progress, outcomes, results>>

WorkerEnds(w) ==
  /\ role[w] = "running" /\ (aborted \/ finality_idx = block_size)
  /\ Ends(w)
  /\ UNCHANGED <<started, answer, phase, aborted, reason, progress, outcomes, results>>

\* run_finality_loop.
Finalize ==
  /\ role["finality"] = "running" /\ finality_idx < ready
  /\ finality_idx' = finality_idx + 1
  /\ UNCHANGED <<started, answer, phase, run, aborted, reason, ready, committed_idx, state_end,
                 commit, outcomes, results>>

FinalityEnds ==
  /\ role["finality"] = "running" /\ (aborted \/ finality_idx = block_size)
  /\ Ends("finality")
  /\ UNCHANGED <<started, answer, phase, aborted, reason, progress, outcomes, results>>

CommitAt(pc) == role["commit"] = "running" /\ commit.pc = pc

\* run_commit_loop: the committer applies the next final transaction.
CommitApply ==
  /\ CommitAt("loop") /\ commit.outcomes < finality_idx
  /\ state_end' = state_end + 1
  /\ commit' = [commit EXCEPT !.pc = "push"]
  /\ UNCHANGED <<started, answer, phase, run, aborted, reason, ready, finality_idx, committed_idx,
                 outcomes, results>>

\* OrderedCommitOutput::push.
CommitPush ==
  /\ CommitAt("push")
  /\ commit' = [commit EXCEPT !.pc = "publish", !.outcomes = @ + 1]
  /\ UNCHANGED <<started, answer, phase, run, aborted, reason, ready, finality_idx, committed_idx,
                 state_end, outcomes, results>>

CommitPublish ==
  /\ CommitAt("publish")
  /\ committed_idx' = commit.outcomes
  /\ commit' = [commit EXCEPT !.pc = "loop"]
  /\ UNCHANGED <<started, answer, phase, run, aborted, reason, ready, finality_idx, state_end,
                 outcomes, results>>

\* A lost or failed result, a nonce verdict, or a database error.
CommitGivesUp ==
  /\ CommitAt("loop") /\ commit.outcomes < finality_idx
  /\ \E why \in {"parallel", "fallback", "commit"} :
       /\ Abort(why)
       /\ commit' = [commit EXCEPT !.error = why = "commit"]
  /\ Ends("commit")
  /\ UNCHANGED <<started, answer, phase, ready, finality_idx, committed_idx, state_end, outcomes,
                 results>>

CommitEnds ==
  /\ CommitAt("loop") /\ (aborted \/ commit.outcomes = block_size)
  /\ Ends("commit")
  /\ UNCHANGED <<started, answer, phase, aborted, reason, progress, outcomes, results>>

-----------------------------------------------------------------------------
\* The loops poll: a worker without a task yields and asks again, and the
\* coordinators wake up from their parks.
Poll == (\E r \in Roles : role[r] = "running") /\ UNCHANGED lifeVars

\* Every caller has its answer.
Returned == phase = "returned" /\ (\A c \in Callers : answer[c] # "none") /\ UNCHANGED lifeVars

CallerStep ==
  \/ Setup \/ Spawn \/ Unwind \/ Join \/ ResumeUnwind \/ Install \/ PostExecute
  \/ ReplayTx \/ ReplayEnds

WorkerStep(w) == WorkerTask(w) \/ WorkerEnds(w)
FinalityLoopStep == Finalize \/ FinalityEnds
CommitLoopStep == CommitApply \/ CommitPush \/ CommitPublish \/ CommitEnds

LifeNext ==
  \/ \E c \in Callers : Elect(c) \/ Refuse(c)
  \/ CallerStep \/ SpawnFails \/ ReplayPanics
  \/ \E r \in Roles : Panic(r)
  \/ \E w \in Range(WorkerNames) : WorkerStep(w) \/ WorkerAborts(w)
  \/ FinalityLoopStep \/ CommitLoopStep \/ CommitGivesUp \/ Poll \/ Returned

LifeSpec == LifeInit /\ [][LifeNext]_lifeVars

\* Every thread that can run does; nothing has to fail.
LifeFairSpec ==
  /\ LifeSpec
  /\ WF_lifeVars(CallerStep) /\ WF_lifeVars(FinalityLoopStep) /\ WF_lifeVars(CommitLoopStep)
  /\ \A w \in Range(WorkerNames) : WF_lifeVars(WorkerStep(w))

-----------------------------------------------------------------------------
\* State and outcomes name the same prefix after a regular return, and the whole
\* block after success.
PrefixesAgree ==
  phase = "returned" /\ payload = "none" =>
    /\ results = state_end
    /\ (\E c \in Callers : answer[c] = "ok") => results = block_size

\* The caller resumes the panic that comes first in the order of the joins.
PanicReachesCaller ==
  LET panicked == {i \in DOMAIN JoinOrder : role[JoinOrder[i]] = "panicked"} IN
  phase = "returned" /\ panicked # {} =>
    /\ \E c \in Callers : answer[c] = "panic"
    /\ payload \in {"caller"} \cup {JoinOrder[i] : i \in {j \in panicked :
                                                            \A k \in panicked : j <= k}}

\* The assertions of install_commit_loop_result and post_execute: the outcomes are
\* installed once and name the published prefix, and an abort has a reason.
InstallIsSound ==
  /\ phase = "join" /\ joined = Len(JoinOrder) /\ payload = "none" =>
       commit.outcomes = committed_idx /\ results = 0
  /\ phase = "post" /\ aborted => reason # "none"

\* take_result_and_state, CancelOnPanic, the joins: whatever aborts, errors and
\* panics coincide, a panic is never turned into a result, and otherwise state,
\* outcomes and published prefix agree.
ReturnIsSound == PrefixesAgree /\ PanicReachesCaller /\ InstallIsSound

\* CancelOnPanic, thread::scope: whichever threads panic, at whatever point,
\* the others leave their loops and the call returns.
EveryCallReturns == started ~> phase = "returned"
=============================================================================
