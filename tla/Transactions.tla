---------------------------- MODULE Transactions ----------------------------
(***************************************************************************)
(* The block, its transactions, and what executing one of them means.      *)
(*                                                                         *)
(* The EVM itself (revm) is external code: it is a deterministic program   *)
(* that asks its database for locations one at a time and ends with a      *)
(* set of account changes, an invalid-transaction error or a fatal error.  *)
(* Evm(t, vals) is its next step for transaction t once it has read the    *)
(* values vals, a function from the locations read so far:                 *)
(*   [op |-> "read", loc |-> l]            it loads location l;            *)
(*   [op |-> "ok", writes |-> f, reward |-> r]  it ends with the changes f *)
(*                                         and a fee r for the beneficiary;*)
(*   [op |-> "invalid"], [op |-> "fatal"]  EVMError::Transaction, others.  *)
(* A location is an account, a code or a storage slot; the journal loads   *)
(* each at most once per execution.  Ben is the beneficiary's account.     *)
(***************************************************************************)
EXTENDS Naturals, FiniteSets

CONSTANTS
  N,              \* block_size
  Loc,            \* the locations of the state, Ben among them
  Ben,            \* the account of the block's beneficiary
  Val,            \* what a location may hold
  MaxVal,         \* the largest balance: a credit above it does not apply
  Evm(_, _),      \* the external EVM, see above
  NonceOk(_, _),  \* NonceOk(t, st): t's nonce is the caller's nonce in st
  InitStore,      \* the state at the start of the block
  NoTx            \* Option<TxId>::None

Tx == 0 .. N - 1

Max(a, b) == IF a < b THEN b ELSE a
Min(a, b) == IF a < b THEN a ELSE b

ASSUME BlockAssumption ==
  /\ N \in Nat \ {0}
  /\ NoTx \notin Nat
  /\ MaxVal \in Nat
  /\ Val = 0 .. MaxVal
  /\ IsFiniteSet(Loc)
  /\ Ben \in Loc
  /\ InitStore \in [Loc -> Val]

\* The values a (partial) execution may have read.
Readings == UNION {[D -> Val] : D \in SUBSET Loc}

\* The contract of the external EVM: it never asks twice for a location, and
\* it changes the beneficiary's account only after loading it.
EvmStep(t, vals) ==
  LET e == Evm(t, vals)
  IN  \/ e.op = "read" /\ e.loc \in Loc \ DOMAIN vals
      \/ /\ e.op = "ok"
         /\ e.writes \in Readings
         /\ e.reward \in Val
         /\ Ben \in DOMAIN e.writes => Ben \in DOMAIN vals
      \/ e.op \in {"invalid", "fatal"}

ASSUME EvmAssumption == \A t \in Tx, vals \in Readings : EvmStep(t, vals)

\* f extended (or changed) at x.
With(f, x, v) == [y \in DOMAIN f \cup {x} |-> IF y = x THEN v ELSE f[y]]

Nothing == [x \in {} |-> 0]

\* DeferredBeneficiaryReward::apply_to: a checked addition that leaves the
\* balance alone when it would overflow.
Credit(balance, reward) ==
  IF balance + reward > MaxVal THEN balance ELSE balance + reward

\* The reward is settled at once when the journal already holds the
\* beneficiary, and is otherwise left to the ordered commit.
DeferredReward(t, vals) == IF Ben \in DOMAIN vals THEN 0 ELSE Evm(t, vals).reward

\* The finalized account changes of a successful execution.
Changes(t, vals) ==
  LET e == Evm(t, vals)
      ben == IF Ben \in DOMAIN e.writes THEN e.writes[Ben] ELSE vals[Ben]
  IN  IF Ben \in DOMAIN vals /\ (Ben \in DOMAIN e.writes \/ e.reward > 0)
      THEN With(e.writes, Ben, Credit(ben, e.reward))
      ELSE e.writes

\* Changes applied to a state, with a reward credited to the beneficiary.
Apply(st, changes, reward) ==
  [l \in Loc |->
     LET v == IF l \in DOMAIN changes THEN changes[l] ELSE st[l]
     IN  IF l = Ben THEN Credit(v, reward) ELSE v]

Restricted(vals, D) == [l \in D |-> vals[l]]

\* Having read vals, transaction t loads location l next.
Asks(t, vals, l) == Evm(t, vals).op = "read" /\ Evm(t, vals).loc = l

\* vals are values transaction t asks for, in some order, one after the
\* other: path holds the sets of locations read so far along the way.
Asked(t, vals) ==
  \E path \in SUBSET SUBSET DOMAIN vals :
    /\ DOMAIN vals \in path
    /\ \A D \in path : D # {} =>
         \E l \in D : D \ {l} \in path /\ Asks(t, Restricted(vals, D \ {l}), l)

\* vals are the values transaction t reads when it runs alone on the state
\* st, to its end.
Run(t, st, vals) ==
  /\ \A l \in DOMAIN vals : vals[l] = st[l]
  /\ Evm(t, vals).op # "read"
  /\ Asked(t, vals)

=============================================================================
