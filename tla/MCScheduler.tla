---------------------------- MODULE MCScheduler -----------------------------
(***************************************************************************)
(* Small blocks for the scheduler.  Each block is an external EVM: what    *)
(* its transactions read, and what they do with it.                        *)
(***************************************************************************)
EXTENDS SchedulerInvariants, SchedulerRefinement, TLC

a == "a"
b == "b"
coinbase == "coinbase"

MCLoc == {a, b, coinbase}
MCVal == 0 .. MaxVal
MCInitStore == [l \in MCLoc |-> 0]

Ask(l) == [op |-> "read", loc |-> l]
Ok(writes, reward) == [op |-> "ok", writes |-> writes, reward |-> reward]
Invalid == [op |-> "invalid"]
Fatal == [op |-> "fatal"]

Inc(v) == Min(v + 1, MaxVal)

AnyNonce(t, st) == TRUE

\* Transaction 0 sets a.  Transaction 1 writes b when it sees the old
\* a and a when it sees the new one: its write set moves with what it reads.
\* Transaction 2 reads b, and a as well unless transaction 1 wrote b.
MovingWrites(t, vals) ==
  CASE t = 0 -> Ok(a :> 1, 1)
    [] t = 1 -> IF a \notin DOMAIN vals THEN Ask(a)
                ELSE IF vals[a] = 0 THEN Ok(b :> 1, 1)
                ELSE Ok(a :> 2, 1)
    [] OTHER -> IF b \notin DOMAIN vals THEN Ask(b)
                ELSE IF vals[b] = 1 THEN Ok(b :> 2, 1)
                ELSE IF a \notin DOMAIN vals THEN Ask(a)
                ELSE Ok(b :> 1, 1)

\* Transaction 1 loads the beneficiary and settles its own fee when it sees
\* the old a, and defers it when it sees the new one; transaction 2 reads the
\* balance, and its fee no longer fits.
Fees(t, vals) ==
  CASE t = 0 -> Ok(a :> 1, 1)
    [] t = 1 -> IF a \notin DOMAIN vals THEN Ask(a)
                ELSE IF vals[a] = 1 THEN Ok(Nothing, 2)
                ELSE IF coinbase \notin DOMAIN vals THEN Ask(coinbase)
                ELSE Ok(coinbase :> Inc(vals[coinbase]), 1)
    [] OTHER -> IF coinbase \notin DOMAIN vals THEN Ask(coinbase)
                ELSE Ok(Nothing, 1)

\* Transaction 1 is invalid on the old a and b, fails for good on the old one of
\* one and the new one of the other, and runs on the new ones; transaction 2 fails
\* for good on what transaction 1 writes.
Failures(t, vals) ==
  CASE t = 0 -> Ok(a :> 1 @@ b :> 1, 1)
    [] t = 1 -> IF a \notin DOMAIN vals THEN Ask(a)
                ELSE IF b \notin DOMAIN vals THEN Ask(b)
                ELSE IF vals[a] # vals[b] THEN Fatal
                ELSE IF vals[a] = 0 THEN Invalid
                ELSE Ok(b :> 2, 0)
    [] OTHER -> IF b \notin DOMAIN vals THEN Ask(b)
                ELSE IF vals[b] = 2 THEN Fatal
                ELSE Ok(a :> 2, 1)

\* Transaction 2 is invalid without the b of transaction 1.
Rejections(t, vals) ==
  CASE t = 0 -> Ok(a :> 1, 1)
    [] t = 1 -> IF a \notin DOMAIN vals THEN Ask(a)
                ELSE IF vals[a] = 0 THEN Invalid
                ELSE Ok(b :> 1, 0)
    [] OTHER -> IF b \notin DOMAIN vals THEN Ask(b)
                ELSE IF vals[b] = 0 THEN Invalid
                ELSE Ok(a :> 2, 1)

\* Transaction 1 fails only on the old a.
StaleFatal(t, vals) ==
  CASE t = 0 -> Ok(a :> 1, 1)
    [] t = 1 -> IF a \notin DOMAIN vals THEN Ask(a)
                ELSE IF vals[a] = 0 THEN Fatal
                ELSE Ok(b :> 1, 1)
    [] OTHER -> Ok(Nothing, 0)

\* Transaction 1's nonce is the caller's before transaction 0 only.
NonceUsed(t, st) == t = 1 => st[a] = 0

\* Timestamps are only ever compared, and those of the final prefix no more:
\* states that differ in nothing but the numbers are the same state.
RankedView ==
  LET open == {t \in Tx : t >= finality}
      stamps == {0, lower_ts} \cup {lower_timestamps[t] : t \in open}
                  \cup {unconfirmed_timestamps[t] : t \in open}
                  \cup {job[w].ts : w \in Workers}
      rank == [ts \in stamps |-> Cardinality({s \in stamps : s < ts})]
      ranked(f) == [t \in open |-> rank[f[t]]]
  IN  <<validation, finality, committed, executed, ranked(lower_timestamps),
        ranked(unconfirmed_timestamps), depVars, specVars, txVars, abort_reason,
        blockVars, pc, [w \in Workers |-> [job[w] EXCEPT !.ts = rank[@]]],
        finality_pc, rank[lower_ts], commit_pc, phase>>

Symmetric == Permutations(Workers)
=============================================================================
