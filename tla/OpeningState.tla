---------------------------- MODULE OpeningState ----------------------------
(***************************************************************************)
(* How the fetching tools rebuild the state before a block, or before a    *)
(* range of blocks, from what a node traces: accumulate_prestate           *)
(* (test_utils/common/mainnet.rs) merges the snapshots transaction by      *)
(* transaction, supplement_delegations (src/bin/rpc.rs) adds the targets   *)
(* of EIP-7702 delegations.  `replay_mainnet` does so block by block, with *)
(* a cache of targets that lives as long as the tool; `fetch_block` stops  *)
(* after the first block; `fetch_continuous` does it once for a range.     *)
(*                                                                         *)
(* The chain and its tracer are external.  The tracer reports, for each    *)
(* transaction, what it touches as it was before that transaction; it      *)
(* leaves out the code behind a delegation, and may leave out the          *)
(* destination of a transaction that creates a contract.                   *)
(***************************************************************************)
EXTENDS Naturals, FiniteSets

CONSTANTS
  Account,
  MaxBlocks, MaxTxs   \* bounds: blocks that are fetched, and transactions in all

VARIABLES
  ranged,      \* TRUE: the blocks make one fixture
  state,       \* the chain: [Account -> account]
  opening,     \* the chain before the block, or before the range
  earlier,     \* funds and code before each of the blocks replayed earlier
  blocks, txs, \* counters
  pc,          \* "block", "txs", "built", "scan"
  creates,     \* destinations of this block's CREATE transactions
  seen,        \* accounts whose information execution has read
  seenSlots,   \* accounts whose slot execution has read
  executed,    \* delegation targets whose code execution has run
  born,        \* accounts created by a CREATE transaction
  seeded,      \* destinations entered as empty accounts
  authorized,  \* targets named by the authorization lists
  merged,      \* PreState: [account -> AccountFixture]
  delegates    \* Caches::delegates: [target -> account at the block it was fetched]

node == <<ranged, state, opening, earlier, blocks, txs, seen, seenSlots, executed, born, seeded>>
vars == <<node, pc, creates, authorized, merged, delegates>>

\* Code is absent, a contract's, or a designator that names its target.
None == "none"
Code == "code"
Codes == {None, Code} \cup Account

\* No value has been recorded for the slot.
NoSlot == 2

\* One slot stands for the storage of an account.
Empty == [funds |-> 0, code |-> None, slot |-> NoSlot]

Info(account) == [funds |-> account.funds, code |-> account.code]

Put(f, x, y) == [z \in DOMAIN f \cup {x} |-> IF z = x THEN y ELSE f[z]]

\* Values of slots are only copied: one of the two will do to start with.
Init ==
  /\ ranged \in BOOLEAN
  /\ state \in [Account -> [funds : {0, 1}, code : Codes, slot : {0, 1}]]
  /\ \A a \in Account : state[a].slot = IF state[a].code = None THEN 0 ELSE 1
  /\ opening = state /\ earlier = {} /\ blocks = 0 /\ txs = 0 /\ pc = "block"
  /\ creates = {} /\ seen = {} /\ seenSlots = {} /\ executed = {} /\ born = {}
  /\ seeded = {} /\ authorized = {} /\ merged = [a \in {} |-> Empty] /\ delegates = [a \in {} |-> Empty]

-----------------------------------------------------------------------------
(* accumulate_prestate                                                     *)

\* The destinations of CREATE transactions are seeded as empty accounts.
Seed(known, dests) ==
  [a \in DOMAIN known \cup dests |-> IF a \in DOMAIN known THEN known[a] ELSE Empty]


\* The first snapshot of an account wins, and the first one of a slot.
Merge(known, a, withSlot) ==
  LET info == IF a \in DOMAIN known THEN known[a]
              ELSE [funds |-> state[a].funds, code |-> state[a].code, slot |-> NoSlot] IN
  Put(known, a, [info EXCEPT !.slot = IF withSlot /\ @ = NoSlot THEN state[a].slot ELSE @])

\* What may become of an account: funds and storage move, a contract is created
\* where there is no code, a delegation is set, replaced or cleared.
Becomes(a, after) ==
  /\ \/ after.code = state[a].code
     \/ state[a].code = None /\ after.code = Code
     \/ state[a].code # Code /\ after.code # Code
  /\ after.slot # state[a].slot => after.code # None

\* next_match passes over blocks that do not match; the chain moves on in them.
PassOver(a, after) ==
  /\ pc = "built" /\ ~ranged /\ blocks < MaxBlocks
  /\ Becomes(a, after) /\ state' = [state EXCEPT ![a] = after] /\ pc' = "scan"
  /\ UNCHANGED <<ranged, opening, earlier, blocks, txs, seen, seenSlots, executed, born, seeded,
                 creates, authorized, merged, delegates>>

\* The next block is fetched: its list of transactions and its trace.  A contract
\* is created where there is no code, with or without funds.
StartBlock(dests) ==
  LET known == IF ranged THEN merged ELSE [a \in {} |-> Empty]
      new == dests \ DOMAIN known IN
  /\ pc \in {"block", "scan"} \/ (pc = "built" /\ ~ranged)
  /\ blocks < MaxBlocks
  /\ \A d \in dests : state[d].code = None
  /\ pc' = "txs" /\ blocks' = blocks + 1 /\ creates' = dests
  /\ merged' = Seed(known, dests)
  /\ IF ranged
     THEN /\ seeded' = seeded \cup new
          /\ UNCHANGED <<opening, earlier, seen, seenSlots, executed, born, authorized>>
     ELSE /\ seeded' = new
          /\ opening' = state
          /\ earlier' = IF blocks = 0 THEN {} ELSE earlier \cup {[a \in Account |-> Info(opening[a])]}
          /\ seen' = {} /\ seenSlots' = {} /\ executed' = {} /\ born' = {} /\ authorized' = {}
  /\ UNCHANGED <<ranged, state, txs, delegates>>

Running == pc = "txs" /\ txs < MaxTxs

\* Everything a transaction does to an account that the trace reports: transfers,
\* storage, a contract created by another contract.
Touch(a, withSlot, after) ==
  /\ Running /\ txs' = txs + 1
  /\ Becomes(a, after)
  /\ after.code # state[a].code => after.code = Code /\ a \notin creates
  /\ after.slot # state[a].slot => withSlot
  /\ state' = [state EXCEPT ![a] = after]
  /\ seen' = seen \cup {a} /\ seenSlots' = seenSlots \cup (IF withSlot THEN {a} ELSE {})
  /\ merged' = Merge(merged, a, withSlot)
  /\ UNCHANGED <<ranged, opening, earlier, blocks, executed, born, seeded, pc, creates, authorized, delegates>>

\* A CREATE transaction runs its constructor, which may write the slot.
Create(d, reported) ==
  /\ Running /\ txs' = txs + 1 /\ d \in creates
  /\ \E s \in {0, 1} : state' = [state EXCEPT ![d].code = Code, ![d].slot = s]
  /\ creates' = creates \ {d} /\ born' = born \cup {d} /\ seen' = seen \cup {d}
  /\ merged' = IF reported THEN Merge(merged, d, FALSE) ELSE merged
  /\ UNCHANGED <<ranged, opening, earlier, blocks, seenSlots, executed, seeded, pc, authorized, delegates>>

\* An authorization sets, replaces or (naming the zero address) clears the
\* delegation of an account.
Authorize(a, t) ==
  /\ Running /\ txs' = txs + 1 /\ a \notin creates
  /\ state[a].code # Code
  /\ state' = [state EXCEPT ![a].code = t]
  /\ seen' = seen \cup {a} /\ authorized' = authorized \cup ({t} \cap Account)
  /\ merged' = Merge(merged, a, FALSE)
  /\ UNCHANGED <<ranged, opening, earlier, blocks, seenSlots, executed, born, seeded, pc, creates, delegates>>

\* A call of a delegated account runs the code of its target.
CallDelegated(a, t) ==
  /\ Running /\ txs' = txs + 1
  /\ state[a].code = t
  /\ seen' = seen \cup {a} /\ executed' = executed \cup {t}
  /\ merged' = Merge(merged, a, FALSE)
  /\ UNCHANGED <<ranged, state, opening, earlier, blocks, seenSlots, born, seeded, pc, creates,
                 authorized, delegates>>

\* fetch_continuous goes on to the next block of its range.
NextInRange ==
  /\ pc = "txs" /\ ranged /\ blocks < MaxBlocks /\ pc' = "block"
  /\ UNCHANGED <<node, creates, authorized, merged, delegates>>

-----------------------------------------------------------------------------
(* supplement_delegations                                                  *)

\* delegation_targets: named by an authorization, or by a designator in the
\* opening state.
Targets == authorized \cup {t \in Account : \E a \in DOMAIN merged : merged[a].code = t}

\* The cache, or else fetch_account_with_code at the parent block.  An account
\* without code is remembered as "not a contract", and no entry is refreshed.
Fetched(t) ==
  IF t \in DOMAIN delegates THEN delegates[t]
  ELSE [funds |-> opening[t].funds, code |-> opening[t].code, slot |-> NoSlot]

\* supplement_delegations_cached, after the last transaction.  A destination that
\* is left in `creates` belongs to a CREATE transaction that failed.
Supplement ==
  LET wanted == {t \in Targets : t \notin DOMAIN merged \/ merged[t].code = None}
      found == {t \in wanted : Fetched(t).code # None} IN
  /\ pc = "txs" /\ (ranged => blocks = MaxBlocks) /\ pc' = "built"
  /\ merged' = [a \in DOMAIN merged \cup found |->
                  IF a \in found THEN Fetched(a) ELSE merged[a]]
  /\ delegates' = [t \in DOMAIN delegates \cup wanted |-> Fetched(t)]
  /\ UNCHANGED <<node, creates, authorized>>

Done == pc = "built" /\ (ranged \/ blocks = MaxBlocks) /\ UNCHANGED vars

Next ==
  \/ \E dests \in SUBSET Account : StartBlock(dests)
  \/ \E a \in Account, withSlot \in BOOLEAN, funds \in {0, 1}, code \in Codes, slot \in {0, 1} :
       LET after == [funds |-> funds, code |-> code, slot |-> slot] IN
       Touch(a, withSlot, after) \/ PassOver(a, after)
  \/ \E d \in Account, reported \in BOOLEAN : Create(d, reported)
  \/ \E a \in Account, t \in Account \cup {None} : Authorize(a, t)
  \/ \E a, t \in Account : CallDelegated(a, t)
  \/ NextInRange \/ Supplement \/ Done

Spec == Init /\ [][Next]_vars

-----------------------------------------------------------------------------
\* Seed: a destination that was not reported earlier is an empty account.
SeededEmpty(a) == a \in seeded /\ Info(merged[a]) = Info(Empty) /\ opening[a].code = None

\* supplement_delegations_cached: a target is as it was before an earlier block,
\* and had code then.
FromEarlier(a) == \E o \in earlier : o[a].code # None /\ Info(merged[a]) = o[a]

\* accumulate_prestate: every account execution reads is in the fixture as it was
\* before the block (or range), however often and however late it was reported.
\* Two limits: the destination of a CREATE transaction is entered without the
\* funds it may hold, and an account whose code is gone may be overwritten by
\* what the cache of targets kept from an earlier block.
AccountsAreOpening ==
  pc = "built" =>
    \A a \in seen :
      /\ a \in DOMAIN merged
      /\ \/ Info(merged[a]) = Info(opening[a])
         \/ SeededEmpty(a)
         \/ opening[a].code = None /\ FromEarlier(a)

\* accumulate_prestate: so is every slot, except in a contract a transaction of
\* the block creates: its storage starts empty whatever the fixture holds.
SlotsAreOpening ==
  pc = "built" =>
    \A a \in seenSlots \ born :
      merged[a].slot = opening[a].slot \/ (opening[a].code = None /\ FromEarlier(a))

\* supplement_delegations: the code behind a delegation that execution runs is in
\* the fixture if it existed before the block, and before every block replayed
\* earlier: one that was asked for too early stays "not a contract".
TargetsAreThere ==
  pc = "built" =>
    \A t \in executed :
      (\A o \in earlier \cup {opening} : o[t].code = Code) =>
        t \in DOMAIN merged /\ merged[t].code = Code

=============================================================================
