-------------------------- MODULE DelegatedFilter --------------------------
(***************************************************************************)
(* The `delegated-safety` filter of the replay tool                        *)
(* (src/bin/replay_mainnet.rs): from the parent block's code, the          *)
(* authorization lists and the call frames of a block it guesses whether   *)
(* an EIP-7702 delegated account moved funds or created a contract.        *)
(*                                                                         *)
(* The chain (external) executes the block; the loops of the filter, which *)
(* pass over the same transactions in the same order, go along with it.    *)
(***************************************************************************)
EXTENDS Naturals, FiniteSets

CONSTANTS Account, MaxTxs

VARIABLES
  parent,       \* [Account -> code] at the end of the parent block
  code,         \* the same, as execution goes on
  used,         \* a delegated account has created a contract or moved funds
  tx_index,
  running,      \* the authorizations of transaction tx_index are processed
  candidates,   \* {[tx_index, source]}
  earliest,     \* [Account -> first transaction with a non-clearing authorization]
  answer        \* "pending", "match", "skip" or "error"

chain == <<code, used>>
vars == <<parent, chain, tx_index, running, candidates, earliest, answer>>

Never == MaxTxs + 1

Init ==
  /\ parent \in [Account -> {"none", "contract", "designator"}]
  /\ code = parent /\ used = FALSE
  /\ tx_index = 0 /\ running = FALSE
  /\ candidates = {} /\ earliest = [a \in Account |-> Never] /\ answer = "pending"

-----------------------------------------------------------------------------
\* An authorization's signature may not recover to an authority; one that does
\* may fail the chain's checks of nonce, chain and code.
Authorizations ==
  [authority : Account, clearing : BOOLEAN, status : {"applied", "rejected", "unrecoverable"}]

\* Faulty variant: the latest authorization wins.
LatestAuthorization(auth) ==
  IF auth.clearing \/ auth.status = "unrecoverable" THEN earliest
  ELSE [earliest EXCEPT ![auth.authority] = tx_index]

\* earliest_non_clearing_authorizations.
WithAuthorization(auth) ==
  IF auth.clearing \/ auth.status = "unrecoverable" \/ earliest[auth.authority] # Never THEN earliest
  ELSE [earliest EXCEPT ![auth.authority] = tx_index]

\* Only an account without other code can delegate.
Authorize(auth) ==
  /\ answer = "pending" /\ tx_index < MaxTxs /\ ~running
  /\ auth.status = "applied" => code[auth.authority] # "contract"
  /\ code' = IF auth.status # "applied" THEN code
             ELSE [code EXCEPT ![auth.authority] = IF auth.clearing THEN "none" ELSE "designator"]
  /\ earliest' = WithAuthorization(auth)
  /\ UNCHANGED <<parent, used, tx_index, running, candidates, answer>>

Run ==
  /\ answer = "pending" /\ tx_index < MaxTxs /\ ~running
  /\ running' = TRUE
  /\ UNCHANGED <<parent, chain, tx_index, candidates, earliest, answer>>

-----------------------------------------------------------------------------
\* The frames the call tracer reports: `from` is the account whose balance and
\* nonce the operation works on.
Frames ==
  [type : {"CALL", "CREATE", "SELFDESTRUCT", "DELEGATECALL"}, from : Account, to : Account,
   value : {0, 1}, depth : 0 .. 2]

\* What the reserve rules are about: an opcode that creates or that debits `from`.
Guarded(frame) ==
  /\ frame.depth > 0
  /\ \/ frame.type = "CREATE"
     \/ frame.type = "CALL" /\ frame.value > 0 /\ frame.from # frame.to
     \/ frame.type = "SELFDESTRUCT" /\ frame.from # frame.to

\* collect_delegated_safety_frames: the root is no candidate, its descendants at
\* every depth may be.
IsCandidate(frame) ==
  /\ frame.depth # 0
  /\ \/ frame.type \in {"CREATE", "SELFDESTRUCT"}
     \/ frame.type = "CALL" /\ frame.value # 0 /\ frame.from # frame.to

Frame(frame) ==
  /\ answer = "pending" /\ running
  /\ used' = (used \/ (Guarded(frame) /\ code[frame.from] = "designator"))
  /\ candidates' = candidates \cup
       (IF IsCandidate(frame) THEN {[tx_index |-> tx_index, source |-> frame.from]} ELSE {})
  /\ UNCHANGED <<parent, code, tx_index, running, earliest, answer>>

\* A contract created in the block has code from then on.
Deploy(a) ==
  /\ answer = "pending" /\ running /\ code[a] = "none"
  /\ code' = [code EXCEPT ![a] = "contract"]
  /\ UNCHANGED <<parent, used, tx_index, running, candidates, earliest, answer>>

EndTx ==
  /\ answer = "pending" /\ running
  /\ running' = FALSE /\ tx_index' = tx_index + 1
  /\ UNCHANGED <<parent, chain, candidates, earliest, answer>>

-----------------------------------------------------------------------------
\* An authorization no later than the candidate.
Authorized(candidate) == earliest[candidate.source] <= candidate.tx_index

\* is_eip7702_designator, of the code fetched at the parent block.
DelegatedAtParent(candidate) == parent[candidate.source] = "designator"

\* delegated_safety_trace_matches.
TraceMatches == \E c \in candidates : Authorized(c) \/ DelegatedAtParent(c)

\* Filter::matches; a trace that is missing, incomplete or malformed, or code
\* that cannot be fetched, is an error of the scan.
Matches ==
  /\ answer = "pending" /\ ~running
  /\ answer' \in {IF TraceMatches THEN "match" ELSE "skip", "error"}
  /\ UNCHANGED <<parent, chain, tx_index, running, candidates, earliest>>

Answered == answer # "pending" /\ UNCHANGED vars

Next ==
  \/ \E auth \in Authorizations : Authorize(auth)
  \/ Run \/ EndTx \/ Matches \/ Answered
  \/ \E frame \in Frames : Frame(frame)
  \/ \E a \in Account : Deploy(a)

Spec == Init /\ [][Next]_vars

-----------------------------------------------------------------------------
\* delegated_safety_trace_matches: leaving the validity of authorizations and
\* reverts to the replay "can add candidates but cannot hide an applicable
\* delegated-safety operation".
NothingHidden == answer = "skip" => ~used
=============================================================================
