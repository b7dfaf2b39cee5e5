--------------------------- MODULE ReplayPipeline ---------------------------
(***************************************************************************)
(* The replay tool (src/bin/replay_mainnet.rs): a thread scans the chain   *)
(* upward, builds the blocks that match and sends them over a channel of   *)
(* capacity one; the main thread replays them and then joins the scanner.  *)
(* The chain, the provider and the comparison of a block are external;     *)
(* what a block is built of is in RpcClient and OpeningState.              *)
(***************************************************************************)
EXTENDS Naturals, Sequences, FiniteSets, SequencesExt

CONSTANT
  head        \* the chain's head when the tool starts

VARIABLES
  start, count,   \* the arguments; a count above `head` stands for none
  matching,       \* the blocks the filter selects
  fetcher,        \* "start", "scan", "send", "ok", "error" or "panicked"
  bn,             \* the block scanned next
  produced,
  missing,        \* the scanned blocks for which the provider answered null
  built,          \* the block that waits in `send`
  channel,        \* the buffer of sync_channel(1)
  pc,             \* the main thread: "recv", "replay", "join", "exit 0", "exit 1"
  block,          \* the block in replay
  replayed

scanner == <<fetcher, bn, produced, missing, built>>
args == <<start, count, matching>>
vars == <<args, scanner, channel, pc, block, replayed>>

NoBlock == 0

\* The genesis block has no transactions and never matches.
Init ==
  /\ start \in 0 .. head /\ count \in 0 .. head + 1
  /\ matching \in SUBSET (1 .. head)
  /\ fetcher = "start" /\ bn = start /\ produced = 0 /\ missing = {} /\ built = NoBlock
  /\ channel = <<>> /\ pc = "recv" /\ block = NoBlock /\ replayed = <<>>

-----------------------------------------------------------------------------
(* The prefetch thread                                                     *)

\* chain_id() answered.
Begin == fetcher = "start" /\ fetcher' = "scan" /\ UNCHANGED <<bn, produced, missing, built>>

\* The count is reached, or no block is left up to the head.
ScanEnds ==
  /\ fetcher = "scan" /\ (produced >= count \/ bn > head)
  /\ fetcher' = "ok" /\ UNCHANGED <<bn, produced, missing, built>>

\* A block is asked for.
Scanning == fetcher = "scan" /\ produced < count /\ bn <= head

\* Faulty variant: the scan does not move past a block it skips.
SkipInPlace == Scanning /\ UNCHANGED scanner

\* next_match: a block that does not match, or any block when the provider
\* answers null for it.
Skip ==
  /\ Scanning
  /\ \/ bn \notin matching /\ UNCHANGED missing
     \/ missing' = missing \cup {bn}
  /\ bn' = bn + 1 /\ UNCHANGED <<fetcher, produced, built>>

\* next_match, build_block.
Build ==
  /\ Scanning /\ bn \in matching
  /\ built' = bn
  /\ fetcher' = "send" /\ UNCHANGED <<bn, produced, missing>>

\* A request fails, or an answer breaks an `expect`.
Fail ==
  /\ fetcher = "start" \/ Scanning
  /\ fetcher' \in {"error", "panicked"} /\ UNCHANGED <<bn, produced, missing, built>>

\* Faulty variant: the scan resumes at the block it has found.
SendAndRescan ==
  /\ fetcher = "send" /\ channel = <<>>
  /\ channel' = <<built>>
  /\ bn' = built /\ produced' = produced + 1 /\ built' = NoBlock
  /\ fetcher' = "scan" /\ UNCHANGED missing

\* SyncSender::send returns when the buffer has room.
Send ==
  /\ fetcher = "send" /\ channel = <<>>
  /\ channel' = <<built>>
  /\ bn' = built + 1 /\ produced' = produced + 1 /\ built' = NoBlock
  /\ fetcher' = "scan" /\ UNCHANGED missing

-----------------------------------------------------------------------------
(* The main thread                                                         *)

\* The only sender lives in the prefetch thread.
Disconnected == fetcher \in {"ok", "error", "panicked"}

Recv ==
  /\ pc = "recv"
  /\ \/ /\ channel # <<>> /\ channel' = <<>> /\ block' = channel[1] /\ pc' = "replay"
     \/ /\ channel = <<>> /\ Disconnected /\ pc' = "join" /\ UNCHANGED <<channel, block>>
  /\ UNCHANGED replayed

\* compare_evm_execute_with_env under catch_unwind; a failure ends the process.
Replay ==
  /\ pc = "replay"
  /\ \/ replayed' = Append(replayed, block) /\ pc' = "recv"
     \/ pc' = "exit 1" /\ UNCHANGED replayed
  /\ block' = NoBlock /\ UNCHANGED channel

\* A panic of the scanner, and its error, are the program's.
Join ==
  /\ pc = "join"
  /\ pc' = IF fetcher = "ok" THEN "exit 0" ELSE "exit 1"
  /\ UNCHANGED <<channel, block, replayed>>

-----------------------------------------------------------------------------
Exited == pc \in {"exit 0", "exit 1"}

Fetch ==
  /\ ~Exited
  /\ \/ (Begin \/ ScanEnds \/ Skip \/ Build) /\ UNCHANGED channel
     \/ Send
  /\ UNCHANGED <<args, pc, block, replayed>>

FetchFails == ~Exited /\ Fail /\ UNCHANGED <<args, channel, pc, block, replayed>>

Main == (Recv \/ Replay \/ Join) /\ UNCHANGED <<args, scanner>>

Stopped == Exited /\ UNCHANGED vars

Next == Fetch \/ FetchFails \/ Main \/ Stopped

Spec == Init /\ [][Next]_vars

\* Both threads run: requests time out and a replay ends.  Nothing has to fail.
FairSpec == Spec /\ WF_vars(Fetch) /\ WF_vars(Main)

-----------------------------------------------------------------------------
\* The matching blocks from `start` on that the provider did not deny.
Available == SetToSortSeq({n \in matching : n >= start /\ n \notin missing}, <)

\* next_match, main: whatever fails in either thread, the blocks replayed are the
\* first of the matching ones, each once and in chain order, without the ones for
\* which the provider answered null.  Exit code zero means that no more than those
\* are missing: `count` blocks were replayed, or every matching block that the
\* provider had.  A block answered null is passed over and the tool still ends
\* with exit code zero.
ReplayedInOrder ==
  /\ IsPrefix(replayed, Available) /\ Len(replayed) <= count
  /\ pc = "exit 0" => replayed = Available \/ Len(replayed) = count

\* main: the tool stops, whichever thread fails and at whatever point.
PipelineEnds == <>Exited
=============================================================================
