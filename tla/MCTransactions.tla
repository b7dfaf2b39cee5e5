--------------------------- MODULE MCTransactions ---------------------------
(***************************************************************************)
(* What surrounds the execution of a transaction, one component at a time: *)
(* custom precompiles, the protections of delegated accounts, the storage  *)
(* resets of one contract and the mutexes of TxDependency.  `part` says    *)
(* which of them a behaviour is about, and the others do not move.         *)
(***************************************************************************)
EXTENDS ParallelPrecompile, DependencyLocks, TLC

VARIABLES
  part,
  block, next, config, admitted, funds, nonce, delegated, journal, checkpoint, phase, frames, steps,
  gas, outcome, before, acted,
  kinds, mv, status, db, write_set

safetyVars ==
  <<block, next, config, admitted, funds, nonce, delegated, journal, checkpoint, phase, frames,
    steps, gas, outcome, before, acted>>
resetVars == <<kinds, mv, status, db, write_set>>

-----------------------------------------------------------------------------
\* A user who delegates and then has further transactions in the block, a
\* second sender who calls into the delegation, and a contract.
user == "user"
caller == "caller"
vault == "vault"
child == "child"
miner == "miner"
Parties == {user, caller, vault, child, miner}

FundsWith(u) ==
  [a \in Parties |-> CASE a = user -> u [] a = caller -> 8 [] a = vault -> 1 [] OTHER -> 0]

CallTx(from, n, to, v, auths) ==
  [caller |-> from, nonce |-> n, create |-> FALSE, to |-> to, value |-> v,
   gas_limit |-> 2, floor |-> 1, cost |-> 2 + v, authorizes |-> auths]
CreateTx(from, n, v) ==
  [caller |-> from, nonce |-> n, create |-> TRUE, to |-> from, value |-> v,
   gas_limit |-> 2, floor |-> 1, cost |-> 2 + v, authorizes |-> {}]

\* The user's delegation is set by the first transaction; then the user's own
\* code is called, by others or by the user, before the user's last one.
PaidBlocks ==
  {<<CallTx(caller, 0, user, 1, {user}), CallTx(user, 1, vault, 1, {})>>,
   <<CallTx(caller, 0, vault, 1, {user}), CallTx(user, 1, user, 1, {}), CallTx(user, 2, vault, 0, {})>>,
   <<CallTx(caller, 0, user, 0, {user}), CreateTx(user, 1, 1), CallTx(user, 2, caller, 0, {})>>}

\* The user cannot pay for all of it.
UnpaidBlocks ==
  {<<CallTx(caller, 0, user, 1, {user}), CallTx(user, 1, vault, 3, {}), CallTx(user, 2, vault, 1, {})>>,
   <<CallTx(caller, 0, vault, 0, {user}), CreateTx(user, 1, 1), CallTx(user, 2, vault, 3, {})>>}

Both == [forbid_delegated_create |-> TRUE, reserve_delegated_balance |-> TRUE]
CreateOnly == [forbid_delegated_create |-> TRUE, reserve_delegated_balance |-> FALSE]

Scenarios ==
  [block : PaidBlocks, funds : {FundsWith(u) : u \in {5, 8}}, config : {Both, CreateOnly}]
  \cup [block : UnpaidBlocks, funds : {FundsWith(u) : u \in {4, 5}}, config : {Both}]

Safety == INSTANCE DelegatedSafety WITH
  MaxU256 <- 100, Accounts <- Parties, Contracts <- {vault}, Created <- child, Coinbase <- miner,
  Values <- {1, 3}, GasUsed <- {1, 2}, RefundCap <- 2, Prague <- TRUE, MaxOps <- 2,
  balance <- funds, ops <- steps

\* Every block of three transactions on one contract with two slots.
Kinds == {"destroy", "create", "store", "probe"}
Resets == INSTANCE StorageResets WITH
  Slots <- {"s1", "s2"}, s1 <- "s1", Blocks <- {<<x, y, z>> : x, y, z \in Kinds},
  OwnCodeOnly <- TRUE, MaxIncarnation <- 3, block <- kinds

-----------------------------------------------------------------------------
NoSafety ==
  /\ block = 0 /\ next = 0 /\ config = 0 /\ admitted = 0 /\ funds = 0 /\ nonce = 0
  /\ delegated = 0 /\ journal = 0 /\ checkpoint = 0 /\ phase = 0 /\ frames = 0 /\ steps = 0
  /\ gas = 0 /\ outcome = 0 /\ before = 0 /\ acted = 0
NoResets == kinds = 0 /\ mv = 0 /\ status = 0 /\ db = 0 /\ write_set = 0

AllInit ==
  /\ Init /\ LocksInit
  /\ \/ part \in {"facade", "locks"} /\ NoSafety /\ NoResets
     \/ part = "safety" /\ Safety!Init /\ NoResets
     \/ part = "resets" /\ NoSafety /\ Resets!Init

FacadeStep == part = "facade" /\ Next /\ UNCHANGED <<part, safetyVars, resetVars, lockVars>>
SafetyStep == part = "safety" /\ Safety!Next /\ UNCHANGED <<part, vars, resetVars, lockVars>>
ResetsStep == part = "resets" /\ Resets!Next /\ UNCHANGED <<part, vars, safetyVars, lockVars>>
LocksStep == part = "locks" /\ LocksNext /\ UNCHANGED <<part, vars, safetyVars, resetVars>>

\* A transaction of the contract may have used up its incarnations.
ResetsOver == part = "resets" /\ UNCHANGED <<part, vars, safetyVars, resetVars, lockVars>>

AllNext == FacadeStep \/ SafetyStep \/ ResetsStep \/ LocksStep \/ ResetsOver

AllSpec == AllInit /\ [][AllNext]_<<part, vars, safetyVars, resetVars, lockVars>>

Symmetry == Permutations(Workers)

-----------------------------------------------------------------------------
\* has_reserve_violation, guarded_create: delegated code takes neither funds nor
\* nonces of later transactions.
LaterTxsStayValid == part = "safety" => Safety!LaterTxsStayValid

\* post_execution: every payment is settled once, and a violation keeps its charge.
SettlementIsExact == part = "safety" => Safety!SettlementIsExact

\* has_reserve_violation: only transactions in which delegated code moved value
\* are stopped.
OnlyDelegatedStopped == [][part = "safety" => Safety!OnlyDelegatedStopped]_safetyVars

\* IncarnationDb: final incarnations read and leave what sequential execution does.
LivesAreSequential == part = "resets" => Resets!LivesAreSequential
=============================================================================
