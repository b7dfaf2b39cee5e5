----------------------------- MODULE RpcClient -----------------------------
(***************************************************************************)
(* The JSON-RPC client of the fetching tools (src/bin/rpc.rs): batches     *)
(* that a provider may answer in part, out of order, twice, with strangers *)
(* or with errors, retries with a budget, and single calls for what is     *)
(* left.  The provider is external; what it says of an id is true.         *)
(***************************************************************************)
EXTENDS Naturals, Sequences, FiniteSets, FiniteSetsExt, SequencesExt

CONSTANTS
  Ids,              \* the requested blocks, or the positions of the addresses
  Stray,            \* ids the client never asks for
  RETRY_ATTEMPTS,
  BATCH_SIZE

VARIABLES
  op,             \* "hashes": fetch_block_hashes_into; "codes": fetch_account_codes
  pc,
  cache,          \* [id -> value], the ids fetched so far
  attempt,        \* passes over the batches
  chunks,         \* the batches of this pass that are left
  rate_limited,
  residual,       \* ids left for single calls
  calls, sends    \* attempts of the call and of the request in progress

vars == <<op, pc, cache, attempt, chunks, rate_limited, residual, calls, sends>>
retry == <<attempt, chunks, rate_limited, residual, calls>>

\* What the chain holds for an id.
ValueOf(id) == id

Sorted(S) == SetToSortSeq(S, <)

\* slice::chunks.
ChunksOf(S) ==
  LET s == Sorted(S)
      n == (Len(s) + BATCH_SIZE - 1) \div BATCH_SIZE IN
  [i \in 1 .. n |-> SubSeq(s, (i - 1) * BATCH_SIZE + 1,
                           IF i * BATCH_SIZE < Len(s) THEN i * BATCH_SIZE ELSE Len(s))]

Put(f, x, y) == [z \in DOMAIN f \cup {x} |-> IF z = x THEN y ELSE f[z]]

Init ==
  /\ op \in {"hashes", "codes"}
  /\ pc = "pass"
  /\ \E known \in SUBSET Ids :
       /\ op = "codes" => known = {}
       /\ cache = [id \in known |-> ValueOf(id)]
  /\ attempt = 0 /\ chunks = <<>> /\ rate_limited = FALSE /\ residual = <<>>
  /\ calls = 0 /\ sends = 0

Missing == Ids \ DOMAIN cache

Passes == IF op = "hashes" THEN RETRY_ATTEMPTS ELSE 1

-----------------------------------------------------------------------------

\* The head of a pass, and the end of the batches.
Pass ==
  /\ pc = "pass"
  /\ \/ Missing = {} /\ pc' = "ok" /\ UNCHANGED retry
     \/ /\ Missing # {} /\ attempt < Passes
        /\ pc' = "batch" /\ attempt' = attempt + 1
        /\ chunks' = ChunksOf(Missing) /\ rate_limited' = FALSE
        /\ UNCHANGED <<residual, calls>>
     \/ /\ Missing # {} /\ attempt = Passes
        /\ pc' = "call" /\ residual' = Sorted(Missing)
        /\ UNCHANGED <<attempt, chunks, rate_limited, calls>>
  /\ UNCHANGED <<op, cache, sends>>

\* A throttled pass asks for nothing more.
Batch ==
  /\ pc = "batch"
  /\ pc' = IF chunks = <<>> \/ rate_limited THEN "pass" ELSE "send batch"
  /\ sends' = 0
  /\ UNCHANGED <<op, cache, retry>>

\* send: HTTP 429 and 5xx are retried, everything else is final.
Send(what) ==
  /\ pc = "send " \o what
  /\ \/ pc' = "answer " \o what /\ UNCHANGED sends
     \/ sends + 1 < RETRY_ATTEMPTS /\ sends' = sends + 1 /\ UNCHANGED pc
     \/ pc' = "error" /\ UNCHANGED sends
  /\ UNCHANGED <<op, cache, retry>>

-----------------------------------------------------------------------------
(* Batches                                                                 *)

\* The items of an answer: a value, a value that does not parse, throttling,
\* or another error.
Items == [id : Ids \cup Stray, kind : {"value", "invalid", "limited", "error"}]

\* Faulty variant: answers are taken to come in the order of the requests.
AcceptedInOrder(items) ==
  LET known == {i \in DOMAIN items : items[i].kind = "value" /\ i <= Len(Head(chunks))} IN
  [id \in DOMAIN cache \cup {Head(chunks)[i] : i \in known} |->
     IF id \in DOMAIN cache THEN cache[id]
     ELSE ValueOf(items[CHOOSE i \in known : Head(chunks)[i] = id].id)]

\* response_id: an answer belongs to the id it carries, if that was asked for:
\* in this batch for hashes, in any for codes.
Accepted(items) ==
  LET mine == IF op = "hashes" THEN ToSet(Head(chunks)) ELSE Ids
      ids == {items[i].id : i \in {j \in DOMAIN items : items[j].kind = "value"}} \cap mine IN
  [id \in DOMAIN cache \cup ids |-> IF id \in ids THEN ValueOf(id) ELSE cache[id]]

\* The first answer that does not parse ends the fetch.
Broken(items) ==
  LET mine == IF op = "hashes" THEN ToSet(Head(chunks)) ELSE Ids
      bad == {i \in DOMAIN items : items[i].kind = "invalid" /\ items[i].id \in mine} IN
  IF bad = {} THEN Len(items) + 1 ELSE Min(bad)

AnswerBatch(items) ==
  LET end == Broken(items)
      read == SubSeq(items, 1, end - 1) IN
  /\ pc = "answer batch"
  /\ cache' = Accepted(read)
  /\ rate_limited' = (op = "hashes" /\ \E i \in DOMAIN read : read[i].kind = "limited")
  /\ pc' = IF end <= Len(items) THEN "error" ELSE "batch"
  /\ chunks' = Tail(chunks)
  /\ UNCHANGED <<op, attempt, residual, calls, sends>>

\* The answer is one error object instead of an array.
AnswerNoArray ==
  /\ pc = "answer batch"
  /\ rate_limited' \in {FALSE, op = "hashes"}
  /\ pc' = "batch" /\ chunks' = Tail(chunks)
  /\ UNCHANGED <<op, cache, attempt, residual, calls, sends>>

-----------------------------------------------------------------------------
(* Single calls                                                            *)

Call ==
  /\ pc = "call"
  /\ pc' = IF residual = <<>> THEN "ok" ELSE "send call"
  /\ calls' = 0 /\ sends' = 0
  /\ UNCHANGED <<op, cache, attempt, chunks, rate_limited, residual>>

\* Faulty variant: a throttled call is repeated without counting.
AnswerCallForever ==
  /\ pc = "answer call"
  /\ \/ /\ cache' = Put(cache, Head(residual), ValueOf(Head(residual)))
        /\ residual' = Tail(residual) /\ pc' = "call" /\ UNCHANGED sends
     \/ sends' = 0 /\ pc' = "send call" /\ UNCHANGED <<cache, residual>>
     \/ pc' = "error" /\ UNCHANGED <<cache, residual, sends>>
  /\ UNCHANGED <<op, attempt, chunks, rate_limited, calls>>

\* call: a throttling error in the answer is retried; a missing or broken
\* result is an error of the fetch.
AnswerCall ==
  /\ pc = "answer call"
  /\ \/ /\ cache' = Put(cache, Head(residual), ValueOf(Head(residual)))
        /\ residual' = Tail(residual) /\ pc' = "call" /\ UNCHANGED <<calls, sends>>
     \/ /\ calls + 1 < RETRY_ATTEMPTS
        /\ calls' = calls + 1 /\ sends' = 0 /\ pc' = "send call" /\ UNCHANGED <<cache, residual>>
     \/ pc' = "error" /\ UNCHANGED <<cache, residual, calls, sends>>
  /\ UNCHANGED <<op, attempt, chunks, rate_limited>>

Finished == pc \in {"ok", "error"} /\ UNCHANGED vars

Step ==
  \/ Pass \/ Batch \/ Send("batch") \/ Send("call") \/ Call \/ AnswerCall \/ AnswerNoArray
  \/ \E n \in 0 .. BATCH_SIZE : \E items \in [1 .. n -> Items] : AnswerBatch(items)

Next == Step \/ Finished

Spec == Init /\ [][Next]_vars

\* The client's loop runs; every request is answered or times out (ureq's
\* timeout).
FairSpec == Spec /\ WF_vars(Step)

-----------------------------------------------------------------------------
\* fetch_block_hashes_into, fetch_account_codes, response_id: whatever the
\* provider drops, throttles, reorders or adds, a value is stored under the id it
\* belongs to and for ids that were asked for only, known hashes are not
\* requested again, and a fetch that succeeds has everything.
FetchIsExact ==
  /\ DOMAIN cache \subseteq Ids /\ \A id \in DOMAIN cache : cache[id] = ValueOf(id)
  /\ op = "hashes" /\ pc = "send batch" => ToSet(Head(chunks)) \cap DOMAIN cache = {}
  /\ pc = "ok" => Ids \subseteq DOMAIN cache

\* RETRY_ATTEMPTS: a provider that throttles for ever ends the fetch.
FetchEnds == <>(pc \in {"ok", "error"})
=============================================================================
