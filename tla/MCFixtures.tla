----------------------------- MODULE MCFixtures -----------------------------
(***************************************************************************)
(* The tools that select and fetch mainnet blocks, one at a time: `part`   *)
(* says which of them a behaviour is about, and the other does not move.   *)
(***************************************************************************)
EXTENDS Naturals, TLC

CONSTANTS x, y

VARIABLES
  part,
  parent, code, used, tx_index, running, candidates, earliest, answer,
  ranged, state, opening, earlier, blocks, txs, pc, creates, seen, seenSlots, executed, born, seeded,
  authorized, merged, delegates

filterVars == <<parent, code, used, tx_index, running, candidates, earliest, answer>>
openingVars ==
  <<ranged, state, opening, earlier, blocks, txs, pc, creates, seen, seenSlots, executed, born, seeded,
    authorized, merged, delegates>>

\* The trace filter of replay_mainnet: two accounts, two transactions.
Filter == INSTANCE DelegatedFilter WITH Account <- {1, 2}, MaxTxs <- 2

\* Two blocks with two transactions between them: one fixture each (replay_mainnet, whose first
\* one is fetch_block's) or one for both (fetch_continuous).
Opening == INSTANCE OpeningState WITH Account <- {x, y}, MaxBlocks <- 2, MaxTxs <- 2

NoFilter ==
  /\ parent = 0 /\ code = 0 /\ used = 0 /\ tx_index = 0 /\ running = 0 /\ candidates = 0
  /\ earliest = 0 /\ answer = 0
NoOpening ==
  /\ ranged = 0 /\ state = 0 /\ opening = 0 /\ earlier = 0 /\ blocks = 0 /\ txs = 0 /\ pc = 0
  /\ creates = 0 /\ seen = 0 /\ seenSlots = 0 /\ executed = 0 /\ born = 0 /\ seeded = 0
  /\ authorized = 0 /\ merged = 0 /\ delegates = 0

AllInit ==
  \/ part = "filter" /\ Filter!Init /\ NoOpening
  \/ part = "opening" /\ NoFilter /\ Opening!Init

FilterStep == part = "filter" /\ Filter!Next /\ UNCHANGED <<part, openingVars>>
OpeningStep == part = "opening" /\ Opening!Next /\ UNCHANGED <<part, filterVars>>

AllNext == FilterStep \/ OpeningStep
AllSpec == AllInit /\ [][AllNext]_<<part, filterVars, openingVars>>

Symmetry == Permutations({x, y})

-----------------------------------------------------------------------------
\* Filter::matches never skips a block with a guarded operation.
NothingHidden == part = "filter" => Filter!NothingHidden

=============================================================================
