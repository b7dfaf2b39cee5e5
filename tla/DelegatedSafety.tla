-------------------------- MODULE DelegatedSafety ---------------------------
(***************************************************************************)
(* Execution of a block with the EIP-7702 protections of                   *)
(* src/delegated_safety: the CREATE guard and the balance reserve around   *)
(* revm's transaction lifecycle.  revm's journal, frames and balance       *)
(* checks are modelled from how the handler uses them; what the code of an *)
(* account does is any sequence of up to MaxOps operations.                *)
(***************************************************************************)
EXTENDS ReserveSchedule

CONSTANTS
  Accounts, Contracts,
  Created,      \* the address a CREATE transaction creates
  Coinbase,
  Scenarios,    \* what to run: {[block, funds, config]}
  Values,       \* the amounts a call may carry
  GasUsed,      \* the gas an execution may spend
  RefundCap,    \* refunds are capped at this part of the gas spent
  Prague,       \* whether EIP-7702 is active
  MaxOps        \* bound on the operations of one transaction

VARIABLES
  block, next,
  config,       \* [forbid_delegated_create, reserve_delegated_balance]
  admitted,     \* whether every sender could pay for its transactions at first
  balance, nonce, delegated,
  journal,      \* revm's journal of the transaction
  checkpoint,   \* execution_checkpoint: the length of the journal
  phase,
  frames,       \* call stack: the account each frame runs as, its checkpoint and
                \* whether it may change state
  ops,
  gas,          \* spent, execution refund and authorization refund
  outcome,      \* of the last transaction
  before,       \* the accounts when it started
  acted         \* whether code of a delegated account moved value

input == <<block, config, admitted>>
txVars == <<journal, checkpoint, phase, frames, ops, gas, acted>>
vars == <<input, next, balance, nonce, delegated, txVars, outcome, before>>

\* DelegatedSafetyConfig::for_spec.
ForSpec(requested) ==
  IF Prague THEN requested
  ELSE [forbid_delegated_create |-> FALSE, reserve_delegated_balance |-> FALSE]

tx == block[next]
Senders == {block[i].caller : i \in DOMAIN block}
NoGas == [spent |-> 0, refund |-> 0, auth_refund |-> 0]

-----------------------------------------------------------------------------
(* revm: journal entries and checkpoints                                   *)

BalanceTransfer(a, b, v) == [kind |-> "transfer", from |-> a, to |-> b, value |-> v]
AccountDestroyed(a, b, v) == [kind |-> "destroyed", from |-> a, to |-> b, value |-> v]
BalanceChange(a, old) == [kind |-> "change", from |-> a, to |-> a, value |-> old]
NonceBump(a) == [kind |-> "nonce", from |-> a, to |-> a, value |-> 0]

Moved(bal, a, b, v) == IF a = b THEN bal ELSE [bal EXCEPT ![a] = @ - v, ![b] = @ + v]

UndoBalance(bal, e) ==
  CASE e.kind \in {"transfer", "destroyed"} -> Moved(bal, e.to, e.from, e.value)
    [] e.kind = "change" -> [bal EXCEPT ![e.from] = e.value]
    [] OTHER -> bal

\* checkpoint_revert: the balances, the nonces and the journal before mark.
UndoneBalance(j, bal, mark) ==
  FoldRight(LAMBDA e, b : UndoBalance(b, e), SubSeq(j, mark + 1, Len(j)), bal)
UndoneNonce(j, non, mark) ==
  [a \in Accounts |-> non[a] - Cardinality({k \in mark + 1 .. Len(j) : j[k] = NonceBump(a)})]
Kept(j, mark) == SubSeq(j, 1, mark)

-----------------------------------------------------------------------------
(* reserve.rs: the surviving debits of delegated accounts                  *)

is_root_value_transfer(e) ==
  /\ e.kind = "transfer" /\ e.from = tx.caller /\ e.value = tx.value
  /\ tx.create \/ e.to = tx.to

\* Only the first one since the checkpoint is the transaction's own value.
IsRoot(j, k) ==
  /\ tx.value # 0 /\ is_root_value_transfer(j[k])
  /\ \A i \in checkpoint + 1 .. k - 1 : ~is_root_value_transfer(j[i])

IsDebit(e) ==
  \/ e.kind = "transfer" /\ e.from # e.to /\ e.value # 0
  \/ e.kind = "destroyed" /\ e.value # 0

\* balance_before_entry: undo the surviving journal down to entry k.
BalanceBefore(j, k, a, final) ==
  LET undo[i \in k .. Len(j) + 1] ==
        IF i > Len(j) THEN final
        ELSE CASE j[i].kind = "change" /\ j[i].from = a -> j[i].value
               [] j[i].kind \in {"transfer", "destroyed"} /\ j[i].from = a /\ j[i].to # a ->
                    SaturatingAdd(undo[i + 1], j[i].value)
               [] j[i].kind \in {"transfer", "destroyed"} /\ j[i].to = a /\ j[i].from # a ->
                    SaturatingSub(undo[i + 1], j[i].value)
               [] OTHER -> undo[i + 1]
  IN undo[k]

\* Faulty variant: the transaction's own value counts as a delegated debit.
DebitsWithRoot(j, bal) ==
  LET entries(a) == {k \in checkpoint + 1 .. Len(j) : IsDebit(j[k]) /\ j[k].from = a} IN
  {[address |-> a, final_balance |-> bal[a],
    balance_before |-> BalanceBefore(j, Min(entries(a)), a, bal[a])] :
     a \in {b \in delegated : entries(b) # {}}}

\* Faulty variant: an account is judged from its last debit on.
DebitsFromLast(j, bal) ==
  LET entries(a) == {k \in checkpoint + 1 .. Len(j) :
                       IsDebit(j[k]) /\ j[k].from = a /\ ~IsRoot(j, k)}
  IN {[address |-> a, final_balance |-> bal[a],
       balance_before |-> BalanceBefore(j, Max(entries(a)), a, bal[a])] :
        a \in {b \in delegated : entries(b) # {}}}

\* delegated_debits_since: per delegated account, from its first debit on.
delegated_debits_since(j, bal) ==
  LET entries(a) == {k \in checkpoint + 1 .. Len(j) :
                       IsDebit(j[k]) /\ j[k].from = a /\ ~IsRoot(j, k)}
  IN {[address |-> a, final_balance |-> bal[a],
       balance_before |-> BalanceBefore(j, Min(entries(a)), a, bal[a])] :
        a \in {b \in delegated : entries(b) # {}}}

\* has_reserve_violation.
has_reserve_violation(j, bal) ==
  \E d \in delegated_debits_since(j, bal) :
    LET future_cost == RequiredAfter(block, next, d.address) IN
    future_cost # 0 /\ d.final_balance < Min({d.balance_before, future_cost})

-----------------------------------------------------------------------------
(* Between transactions                                                    *)

Init ==
  /\ \E s \in Scenarios : block = s.block /\ balance = s.funds /\ config = ForSpec(s.config)
  /\ next = 1
  /\ admitted = \A a \in Senders : balance[a] >= CostAfter(block, 0, a)
  /\ nonce = [a \in Accounts |-> 0]
  /\ delegated = {}
  /\ journal = <<>> /\ checkpoint = 0 /\ phase = "pre" /\ frames = <<>>
  /\ ops = 0 /\ gas = NoGas /\ acted = FALSE
  /\ outcome = "none"
  /\ before = [balance |-> balance, nonce |-> nonce, delegated |-> delegated]

\* revm rejects a transaction the caller cannot pay for or whose nonce is
\* not the caller's; the block goes on without it.
SkipInvalid ==
  /\ phase = "pre" /\ next <= Len(block)
  /\ balance[tx.caller] < tx.cost \/ nonce[tx.caller] # tx.nonce
  /\ next' = next + 1
  /\ outcome' = "skipped"
  /\ before' = [balance |-> balance, nonce |-> nonce, delegated |-> delegated]
  /\ UNCHANGED <<input, balance, nonce, delegated, txVars>>

\* pre_execution: charge the gas limit, bump the nonce of a CALL, apply the
\* authorizations, and only then take the execution checkpoint.
pre_execution ==
  LET bumped == [nonce EXCEPT ![tx.caller] = IF tx.create THEN @ ELSE @ + 1]
      entries == <<BalanceChange(tx.caller, balance[tx.caller])>>
                 \o (IF tx.create THEN <<>> ELSE <<NonceBump(tx.caller)>>)
  IN
  /\ phase = "pre" /\ next <= Len(block)
  /\ balance[tx.caller] >= tx.cost /\ nonce[tx.caller] = tx.nonce
  /\ before' = [balance |-> balance, nonce |-> nonce, delegated |-> delegated]
  /\ balance' = [balance EXCEPT ![tx.caller] = @ - tx.gas_limit]
  /\ nonce' = [a \in Accounts |-> IF a \in tx.authorizes THEN bumped[a] + 1 ELSE bumped[a]]
  /\ delegated' = IF Prague THEN delegated \cup tx.authorizes ELSE delegated
  /\ journal' = entries
  /\ checkpoint' = Len(entries)
  /\ gas' = [NoGas EXCEPT !.auth_refund = Cardinality(tx.authorizes)]
  /\ phase' = "root" /\ ops' = 0 /\ acted' = FALSE
  /\ UNCHANGED <<input, next, frames, outcome>>

-----------------------------------------------------------------------------
(* revm: frames                                                            *)

\* What a CREATE transaction creates only runs its init code.
HasCode(a) == a \in Contracts \cup delegated \/ (a = Created /\ tx.create)
Context == Last(frames).account
Static == Last(frames).static

\* The first frame: a CREATE bumps the caller's nonce before the frame's
\* checkpoint, and the value moves after it.
RootFrame ==
  LET to == IF tx.create THEN Created ELSE tx.to
      bump == IF tx.create THEN <<NonceBump(tx.caller)>> ELSE <<>>
      pay == IF tx.value # 0 /\ to # tx.caller
             THEN <<BalanceTransfer(tx.caller, to, tx.value)>> ELSE <<>>
  IN
  /\ phase = "root"
  /\ nonce' = [nonce EXCEPT ![tx.caller] = IF tx.create THEN @ + 1 ELSE @]
  /\ balance' = IF pay = <<>> THEN balance ELSE Moved(balance, tx.caller, to, tx.value)
  /\ journal' = journal \o bump \o pay
  /\ frames' = <<[account |-> to, mark |-> Len(journal) + Len(bump), static |-> FALSE]>>
  /\ phase' = "run"
  /\ UNCHANGED <<input, next, delegated, checkpoint, ops, gas, outcome, before, acted>>

\* Code calls another account with value; code at that account runs in turn.
CallWithValue(to, v) ==
  /\ phase = "run" /\ HasCode(Context) /\ ~Static /\ ops < MaxOps
  /\ v <= balance[Context]
  /\ balance' = Moved(balance, Context, to, v)
  /\ journal' = IF v = 0 \/ to = Context THEN journal
                ELSE Append(journal, BalanceTransfer(Context, to, v))
  /\ frames' = IF HasCode(to)
               THEN Append(frames, [account |-> to, mark |-> Len(journal), static |-> FALSE])
               ELSE frames
  /\ ops' = ops + 1
  /\ acted' = (acted \/ (Context \in delegated /\ v # 0))
  /\ UNCHANGED <<input, next, nonce, delegated, checkpoint, phase, gas, outcome, before>>

\* Code calls another account and forbids it to change state.
StaticCall(to) ==
  /\ phase = "run" /\ HasCode(Context) /\ HasCode(to) /\ ops < MaxOps
  /\ frames' = Append(frames, [account |-> to, mark |-> Len(journal), static |-> TRUE])
  /\ ops' = ops + 1
  /\ UNCHANGED <<input, next, balance, nonce, delegated, journal, checkpoint, phase, gas, outcome,
                 before, acted>>

\* A frame is left; with the last one the execution is over, having spent
\* some gas, all of it if it halted, and with a refund only if it succeeded.
\* An account without code succeeds at once.
Leave(j, status) ==
  /\ frames' = Front(frames)
  /\ journal' = j
  /\ IF Len(frames) > 1 THEN UNCHANGED <<phase, gas>>
     ELSE /\ phase' = status
          /\ \E spent \in GasUsed, refund \in {0, 1} :
               /\ status = "halt" => spent = tx.gas_limit
               /\ status # "success" => refund = 0
               /\ spent <= tx.gas_limit
               /\ gas' = [gas EXCEPT !.spent = spent, !.refund = refund]
  /\ UNCHANGED <<input, next, delegated, checkpoint, outcome, before>>

Return ==
  /\ phase = "run"
  /\ Leave(journal, "success")
  /\ UNCHANGED <<balance, nonce, ops, acted>>

\* checkpoint_revert of the frame.
Abandon(status) ==
  LET mark == Last(frames).mark IN
  /\ balance' = UndoneBalance(journal, balance, mark)
  /\ nonce' = UndoneNonce(journal, nonce, mark)
  /\ Leave(Kept(journal, mark), status)

Revert ==
  /\ phase = "run" /\ HasCode(Context)
  /\ Abandon("revert")
  /\ UNCHANGED <<ops, acted>>

\* SELFDESTRUCT moves the balance; the account itself only goes if this
\* transaction created it.
SelfDestruct(to) ==
  LET v == balance[Context]
      e == IF Context = Created THEN AccountDestroyed(Context, to, v)
           ELSE BalanceTransfer(Context, to, v)
  IN
  /\ phase = "run" /\ HasCode(Context) /\ ~Static /\ ops < MaxOps /\ to # Context
  /\ balance' = Moved(balance, Context, to, v)
  /\ ops' = ops + 1
  /\ acted' = (acted \/ (Context \in delegated /\ v # 0))
  /\ Leave(Append(journal, e), "success")
  /\ UNCHANGED nonce

\* A database error ends the block, and nothing of the transaction stays.
DiscardTx ==
  /\ balance' = before.balance /\ nonce' = before.nonce /\ delegated' = before.delegated
  /\ journal' = <<>> /\ checkpoint' = 0 /\ frames' = <<>> /\ gas' = NoGas
  /\ phase' = "error" /\ outcome' = "error"
  /\ UNCHANGED <<input, next, before>>

\* guarded_create: CREATE and CREATE2 halt in a static call.  With the guard, the
\* account of the context is loaded, which may fail, and they halt if it is
\* delegated; otherwise they bump the nonce of the context.  The guard comes with
\* Prague, so the exit for forks before Petersburg is never taken.
guarded_create ==
  LET guarded == config.forbid_delegated_create
      forbidden == guarded /\ Context \in delegated IN
  /\ phase = "run" /\ HasCode(Context) /\ ops < MaxOps
  /\ ops' = ops + 1
  /\ \/ Static /\ Abandon("halt")
     \/ ~Static /\ guarded /\ DiscardTx
     \/ ~Static /\ forbidden /\ Abandon("halt")
     \/ /\ ~Static /\ ~forbidden
        /\ nonce' = [nonce EXCEPT ![Context] = @ + 1]
        /\ journal' = Append(journal, NonceBump(Context))
        /\ UNCHANGED <<input, next, balance, delegated, checkpoint, phase, frames, gas,
                       outcome, before>>
  /\ UNCHANGED acted

-----------------------------------------------------------------------------
(* handler.rs                                                              *)

\* refund and eip7623_check_gas_floor: what the transaction is charged.
Charged(refund) ==
  Max({gas.spent - Min({refund, gas.spent \div RefundCap}), tx.floor})

Executed == {"success", "revert", "halt"}

\* The transaction is over: the beneficiary is paid for the gas.
Settle(bal, non, charged, result) ==
  /\ balance' = [bal EXCEPT ![Coinbase] = @ + charged]
  /\ nonce' = non
  /\ outcome' = result
  /\ next' = next + 1
  /\ journal' = <<>> /\ checkpoint' = 0 /\ phase' = "pre"
  /\ ops' = 0 /\ gas' = NoGas /\ acted' = FALSE
  /\ UNCHANGED <<input, delegated, frames, before>>

Reimbursed(bal, charged) == [bal EXCEPT ![tx.caller] = @ + (tx.gas_limit - charged)]

\* NoReserveHandler: revm's own post_execution.
PostExecutionNoReserve ==
  LET charged == Charged(gas.refund + gas.auth_refund) IN
  /\ phase \in Executed /\ ~config.reserve_delegated_balance
  /\ Settle(Reimbursed(balance, charged), nonce, charged, phase)

\* reapply_create_sender_nonce, after the execution checkpoint is reverted.
reapply_create_sender_nonce ==
  [UndoneNonce(journal, nonce, checkpoint) EXCEPT ![tx.caller] = IF tx.create THEN @ + 1 ELSE @]

\* checkpoint_revert of the execution checkpoint, of what is journalled after
\* the reimbursement.
RevertedExecution(paid) ==
  UndoneBalance(Append(journal, BalanceChange(tx.caller, balance[tx.caller])), paid, checkpoint)

\* Faulty variant: the beneficiary is paid for the gas before the revert.
PostExecutionStaleGas ==
  LET charged == Charged(gas.refund + gas.auth_refund)
      paid == Reimbursed(balance, charged)
      j == Append(journal, BalanceChange(tx.caller, balance[tx.caller]))
  IN
  /\ phase \in Executed /\ config.reserve_delegated_balance
  /\ IF has_reserve_violation(j, paid)
     THEN Settle(Reimbursed(RevertedExecution(paid), Charged(gas.auth_refund)),
                 reapply_create_sender_nonce, charged, "reserve")
     ELSE Settle(paid, nonce, charged, phase)

\* post_execution and enforce_reserve: reimburse, check the delegated debits
\* on the real final balances, and if one is not covered revert the execution
\* and charge for it again, with the authorization refund only.
PostExecutionWithReserve ==
  LET charged == Charged(gas.refund + gas.auth_refund)
      paid == Reimbursed(balance, charged)
      j == Append(journal, BalanceChange(tx.caller, balance[tx.caller]))
      recharged == Charged(gas.auth_refund)
  IN
  /\ phase \in Executed /\ config.reserve_delegated_balance
  /\ IF has_reserve_violation(j, paid)
     THEN Settle(Reimbursed(RevertedExecution(paid), recharged),
                 reapply_create_sender_nonce, recharged, "reserve")
     ELSE Settle(paid, nonce, charged, phase)

\* The block is over, or a database error has ended it.
Finished ==
  /\ phase = "error" \/ (phase = "pre" /\ next > Len(block))
  /\ UNCHANGED vars

Next ==
  \/ SkipInvalid \/ pre_execution \/ RootFrame \/ Return \/ Revert \/ guarded_create
  \/ \E to \in Accounts : SelfDestruct(to) \/ StaticCall(to) \/ \E v \in Values : CallWithValue(to, v)
  \/ PostExecutionNoReserve \/ PostExecutionWithReserve \/ Finished

Spec == Init /\ [][Next]_vars

-----------------------------------------------------------------------------
\* The reserve: whatever delegated code does in earlier transactions, every
\* sender of an admitted block keeps the maximum cost of its later ones.
FundsReserved ==
  config.reserve_delegated_balance /\ admitted /\ phase = "pre" =>
    \A a \in Senders : balance[a] >= CostAfter(block, next - 1, a)

\* The reserve without admission: an account that cannot pay for its later
\* transactions anyway is not made poorer by delegated code than its own
\* transaction makes it.
ShortageNotWorse ==
  config.reserve_delegated_balance /\ phase = "pre" /\ next > 1 /\ outcome # "skipped" =>
    \A a \in delegated :
      LET t == block[next - 1]
          own == IF a = t.caller THEN t.cost ELSE 0
      IN balance[a] >= Min({CostAfter(block, next - 1, a), before.balance[a] - own})

\* The CREATE guard and the nonce handling of the handler: when a transaction's
\* turn comes, its nonce is the sender's.
NonceReserved ==
  /\ config.forbid_delegated_create /\ config.reserve_delegated_balance /\ admitted
  /\ phase = "pre" /\ next <= Len(block)
  => nonce[tx.caller] = tx.nonce

\* The CREATE guard alone: after skipped transactions a sender's nonce may be
\* behind its next transaction, but no delegated code has moved it ahead.
NonceNotAhead ==
  config.forbid_delegated_create /\ phase = "pre" /\ next <= Len(block) =>
    nonce[tx.caller] <= tx.nonce

\* The two protections: delegated code takes from later transactions of the
\* block neither their funds (has_reserve_violation) nor their nonces
\* (guarded_create, reapply_create_sender_nonce).
LaterTxsStayValid == FundsReserved /\ ShortageNotWorse /\ NonceReserved /\ NonceNotAhead

\* Nothing is paid twice or lost: gas, reimbursements, a reverted
\* reimbursement and the beneficiary's reward add up.
Conserved ==
  phase = "pre" =>
    MapThenSumSet(LAMBDA a : balance[a], Accounts) =
    MapThenSumSet(LAMBDA a : before.balance[a], Accounts)

\* A reserve violation is charged for and changes nothing else: the caller
\* pays between the floor and the limit, its nonce is used up, and the
\* authorizations stay.
ViolationIsCharged ==
  outcome = "reserve" /\ phase = "pre" =>
    LET t == block[next - 1]
        charge == before.balance[t.caller] - balance[t.caller]
    IN /\ charge \in Max({t.floor, 1}) .. t.gas_limit
       /\ \A a \in Accounts \ {t.caller, Coinbase} : balance[a] = before.balance[a]
       /\ nonce[t.caller] = before.nonce[t.caller] + 1
                            + (IF t.caller \in t.authorizes THEN 1 ELSE 0)
       /\ delegated = before.delegated \cup t.authorizes

\* post_execution: with or without a violation, every payment is settled once,
\* and a violation keeps its charge, its nonce and its authorizations only.
SettlementIsExact == Conserved /\ ViolationIsCharged

\* The reserve only stops delegated code: a transaction in which no code of a
\* delegated account moved value is never turned into a violation.
OnlyDelegatedStopped == outcome' = "reserve" /\ phase' = "pre" /\ phase # "pre" => acted
=============================================================================
