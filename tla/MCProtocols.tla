---------------------------- MODULE MCProtocols ----------------------------
(***************************************************************************)
(* The small protocols between threads, or with a provider, one at a time: *)
(* the execution frontier, the wait slot of the commit thread, the life of *)
(* a scheduler, the shared reserve planner, the RPC client and the replay  *)
(* pipeline.  `part` says which of them a behaviour is about, and the      *)
(* others stay in an initial state.                                        *)
(***************************************************************************)
EXTENDS ExecutionFrontier, CoordinatorWait, Lifecycle

VARIABLES
  part,
  block, sender_index, schedules, builds, query,
  op, pc, cache, attempt, chunks, rate_limited, residual, calls, sends,
  start, count, matching, fetcher, bn, produced, missing, built, channel, main, replaying, replayed

plannerVars == <<block, sender_index, schedules, builds, query>>
rpcVars == <<op, pc, cache, attempt, chunks, rate_limited, residual, calls, sends>>
pipelineVars ==
  <<start, count, matching, fetcher, bn, produced, missing, built, channel, main, replaying, replayed>>
allVars == <<part, frontierVars, waitVars, lifeVars, plannerVars, rpcVars, pipelineVars>>

-----------------------------------------------------------------------------
OneWorker == <<"worker">>

\* Blocks of four transactions of two senders, with costs that overflow on their
\* own or only in the sum.
MaxU256 == 5
PayerBlocks ==
  {<<[caller |-> "alice", cost |-> 2], [caller |-> "bob", cost |-> 1],
     [caller |-> "alice", cost |-> c], [caller |-> "alice", cost |-> d]>> :
     c, d \in {3, MaxU256 + 1}}
Planner == INSTANCE ReservePlanner WITH
  Accounts <- {"alice", "bob"}, Blocks <- PayerBlocks, Nobody <- "nobody"

Rpc == INSTANCE RpcClient WITH
  Ids <- {1, 2, 3}, Stray <- {7}, RETRY_ATTEMPTS <- 3, BATCH_SIZE <- 2

Pipeline == INSTANCE ReplayPipeline WITH
  head <- 4, pc <- main, block <- replaying

-----------------------------------------------------------------------------
AllInit ==
  /\ part \in {"frontier", "wait", "life", "planner", "rpc", "pipeline"}
  /\ FrontierInit /\ WaitInit /\ LifeInit /\ Planner!Init /\ Rpc!Init /\ Pipeline!Init
  /\ part = "wait" \/ ordered
  /\ part = "planner" \/ block[3].cost + block[4].cost = 6
  /\ part = "rpc" \/ (op = "hashes" /\ cache = <<>>)
  /\ part = "pipeline" \/ (start = 0 /\ count = 0 /\ matching = {})

FrontierStep ==
  part = "frontier" /\ FrontierNext
    /\ UNCHANGED <<part, waitVars, lifeVars, plannerVars, rpcVars, pipelineVars>>
WaitStep ==
  part = "wait" /\ WaitNext
    /\ UNCHANGED <<part, frontierVars, lifeVars, plannerVars, rpcVars, pipelineVars>>
LifeStep ==
  part = "life" /\ LifeNext
    /\ UNCHANGED <<part, frontierVars, waitVars, plannerVars, rpcVars, pipelineVars>>
PlannerStep ==
  part = "planner" /\ Planner!Next
    /\ UNCHANGED <<part, frontierVars, waitVars, lifeVars, rpcVars, pipelineVars>>
RpcStep ==
  part = "rpc" /\ Rpc!Next
    /\ UNCHANGED <<part, frontierVars, waitVars, lifeVars, plannerVars, pipelineVars>>
PipelineStep ==
  part = "pipeline" /\ Pipeline!Next
    /\ UNCHANGED <<part, frontierVars, waitVars, lifeVars, plannerVars, rpcVars>>

AllNext == FrontierStep \/ WaitStep \/ LifeStep \/ PlannerStep \/ RpcStep \/ PipelineStep

\* The fairness each of the modules assumes.
FrontierFair ==
  \A w \in Workers :
    /\ WF_frontierVars(part = "frontier" /\ Step(w)) /\ WF_frontierVars(part = "frontier" /\ Flush(w))
    /\ SF_frontierVars(part = "frontier" /\ CallCurrent(w))
WaitFair ==
  /\ WF_waitVars(part = "wait" /\ Commit) /\ WF_waitVars(part = "wait" /\ Finality)
  /\ WF_waitVars(part = "wait" /\ NotifyAbort) /\ WF_waitVars(part = "wait" /\ FlushStores)
LifeFair ==
  /\ WF_lifeVars(part = "life" /\ CallerStep)
  /\ WF_lifeVars(part = "life" /\ FinalityLoopStep)
  /\ WF_lifeVars(part = "life" /\ CommitLoopStep)
  /\ WF_lifeVars(part = "life" /\ WorkerStep("worker"))
RpcFair == WF_rpcVars(part = "rpc" /\ Rpc!Step)
PipelineFair ==
  WF_pipelineVars(part = "pipeline" /\ Pipeline!Fetch)
    /\ WF_pipelineVars(part = "pipeline" /\ Pipeline!Main)

AllSpec ==
  /\ AllInit /\ [][AllNext]_allVars
  /\ FrontierFair /\ WaitFair /\ LifeFair /\ RpcFair /\ PipelineFair

-----------------------------------------------------------------------------
\* required_after: the answer is the cost of the later transactions, from a
\* schedule that is built once.
AnswerIsLaterCost == Planner!AnswerIsLaterCost

\* fetch_block_hashes_into, fetch_account_codes: a value for every id, and its own.
FetchIsExact == Rpc!FetchIsExact

\* RETRY_ATTEMPTS: every fetch ends.
FetchEnds == part = "rpc" => Rpc!FetchEnds

\* next_match and main: the selected blocks, each once and in order, without the
\* ones the provider denied, and no fewer than those after exit code zero.
ReplayedInOrder == Pipeline!ReplayedInOrder

\* main of replay_mainnet: the tool stops.
PipelineEnds == part = "pipeline" => Pipeline!PipelineEnds
=============================================================================
