------------------------ MODULE SchedulerValueProofs ------------------------
(***************************************************************************)
(* Where the values of the scheduler come from: a read has that of the     *)
(* version it names, an execution follows the EVM on what it has read, and *)
(* the committed state is what the committed transactions have published.  *)
(***************************************************************************)
EXTENDS SchedulerLemmas

USE DEF ctxVars, depVars, specVars, txVars, blockVars, workerVars, finalityVars

-----------------------------------------------------------------------------
(* Executions and effects                                                  *)

\* Before its first read an execution has asked for nothing.
LEMMA AskedNothing ==
  ASSUME NEW t
  PROVE  Asked(t, Vals(NoReads)) /\ ReadLocs(NoReads) = {}
<1>1. ReadLocs(NoReads) = {}
  BY ZenonT(60) DEF ReadLocs, NoReads, NotRead
<1>2. DOMAIN Vals(NoReads) = {}
  BY ZenonT(60), <1>1 DEF Vals
<1>3. {{}} \in SUBSET SUBSET {}
  BY ZenonT(60)
<1>4. {} \in {{}} /\ \A D \in {{}} : D = {}
  BY ZenonT(60)
<1> QED
  BY ZenonT(60), <1>1, <1>2, <1>3, <1>4 DEF Asked

\* The EVM has asked for one location more (IncarnationDb::basic and storage).
LEMMA AskedGrows ==
  ASSUME NEW t, NEW vals, NEW l, NEW v, l \notin DOMAIN vals, Asked(t, vals),
         Asks(t, vals, l), vals = [x \in DOMAIN vals |-> vals[x]]
  PROVE  Asked(t, With(vals, l, v))
<1> DEFINE more == With(vals, l, v)
           D1 == DOMAIN vals \cup {l}
<1>1. DOMAIN more = D1 /\ \A x \in DOMAIN vals : more[x] = vals[x]
  BY ZenonT(60) DEF With
<1>2. PICK path \in SUBSET SUBSET DOMAIN vals :
        /\ DOMAIN vals \in path
        /\ \A D \in path : D # {} =>
             \E x \in D : D \ {x} \in path /\ Asks(t, Restricted(vals, D \ {x}), x)
  BY ZenonT(60) DEF Asked
<1>3. ASSUME NEW D \in SUBSET DOMAIN vals PROVE Restricted(more, D) = Restricted(vals, D)
  BY ZenonT(60), <1>1 DEF Restricted
<1>4. /\ path \cup {D1} \in SUBSET SUBSET D1 /\ D1 \in path \cup {D1}
      /\ D1 \ {l} = DOMAIN vals /\ l \in D1 /\ D1 \ {l} \in path
  <2>1. \A S : l \notin S => (S \cup {l}) \ {l} = S
    OBVIOUS
  <2>2. D1 \ {l} = DOMAIN vals
    BY ZenonT(60), <2>1
  <2>3. path \cup {D1} \in SUBSET SUBSET D1
    BY ZenonT(60), <1>2
  <2> QED
    BY ZenonT(60), <1>2, <2>2, <2>3
<1>5. Restricted(more, DOMAIN vals) = vals
  BY ZenonT(60), <1>3 DEF Restricted
<1>6. PICK longer : longer = path \cup {D1}
  BY ZenonT(60)
<1> HIDE DEF more, D1
<1>7. ASSUME NEW D \in longer, D # {}
      PROVE  \E x \in D : D \ {x} \in longer /\ Asks(t, Restricted(more, D \ {x}), x)
  <2>1. CASE D \in path
    BY ZenonT(60), <1>2, <1>7, <2>1, <1>3, <1>6
  <2>2. CASE D = D1
    <3>1. Asks(t, Restricted(more, D1 \ {l}), l)
      BY ZenonT(60), <1>4, <1>5
    <3>2. D1 \ {l} \in longer
      BY ZenonT(60), <1>4, <1>6
    <3> QED
      BY ZenonT(60), <1>4, <2>2, <3>1, <3>2
  <2> QED
    BY ZenonT(60), <1>6, <1>7, <2>1, <2>2
<1>8. longer \in SUBSET SUBSET DOMAIN more /\ DOMAIN more \in longer
  BY ZenonT(60), <1>1, <1>4, <1>6
<1>9. Asked(t, more)
  BY ZenonT(60), <1>7, <1>8 DEF Asked
<1> QED
  BY ZenonT(60), <1>9 DEF more

\* One location more in the read set.
Reading(reads, l, v, origins) == [reads EXCEPT ![l] = ReadAs(v, origins)]

\* A read adds one location to the read set and its value to what was read, and changes
\* no earlier read (IncarnationDb).
LEMMA ReadGrows ==
  ASSUME NEW reads \in ReadSets, NEW l \in Loc, l \notin ReadLocs(reads), NEW v, NEW origins
  PROVE  /\ ReadLocs(Reading(reads, l, v, origins)) = ReadLocs(reads) \cup {l}
         /\ Vals(Reading(reads, l, v, origins)) = With(Vals(reads), l, v)
         /\ Reading(reads, l, v, origins)[l] = ReadAs(v, origins)
         /\ \A k \in ReadLocs(reads) : Reading(reads, l, v, origins)[k] = reads[k]
<1> DEFINE more == Reading(reads, l, v, origins)
<1>1. /\ DOMAIN reads = Loc
      /\ more[l] = ReadAs(v, origins) /\ \A k \in Loc \ {l} : more[k] = reads[k]
  BY ZenonT(60) DEF ReadSets, Reading
<1>2. more[l].read /\ more[l].val = v
  BY <1>1 DEF ReadAs
<1>3. ReadLocs(more) = ReadLocs(reads) \cup {l}
  BY ZenonT(60), <1>1, <1>2 DEF ReadLocs
<1>4. \A k \in ReadLocs(reads) : more[k] = reads[k]
  BY ZenonT(60), <1>1 DEF ReadLocs
<1>5. DOMAIN Vals(reads) = ReadLocs(reads) /\ \A k \in ReadLocs(reads) : Vals(reads)[k] = reads[k].val
  BY ZenonT(60) DEF Vals
<1>6. Vals(more) = [k \in ReadLocs(reads) \cup {l} |-> more[k].val]
  BY ZenonT(60), <1>3 DEF Vals
<1>7. Vals(more) = With(Vals(reads), l, v)
  <2> HIDE DEF more
  <2> QED
    BY ZenonT(60), <1>2, <1>4, <1>5, <1>6 DEF With
<1> QED
  BY ZenonT(60), <1>1, <1>3, <1>4, <1>7

\* Two balances that go through the same effects stay equal (HistoryScan::resolve).
SameEffects(a, b, d, s, n, effect) ==
  /\ a[s] = b[d + s]
  /\ \A k \in s + 1 .. n : /\ a[k] = Effected(a[k - 1], effect[k])
                           /\ b[d + k] = Effected(b[d + k - 1], effect[k])

\* Equal where a checkpoint stands, they are equal where the fold ends.
LEMMA BalancesAgree ==
  ASSUME TypeInv, NEW n \in 0 .. N, NEW s \in 0 .. n, NEW d \in Nat, NEW a, NEW b, NEW effect,
         SameEffects(a, b, d, s, n, effect)
  PROVE  a[n] = b[d + n]
<1> SUFFICES ASSUME a[n] # b[d + n] PROVE FALSE
  BY ZenonT(60)
<1> DEFINE S == {k \in s .. n : a[k] # b[d + k]}
<1>1. S \subseteq 0 .. N /\ S # {}
  <2>1. n \in s .. n /\ s .. n \subseteq 0 .. N
    BY BlockAssumption
  <2> QED
    BY ZenonT(60), <2>1
<1>2. PICK k \in S : \A x \in S : k <= x
  BY ZenonT(60), <1>1, EarliestExists
<1>3. k \in s + 1 .. n /\ k - 1 \in s .. n /\ k - 1 \notin S /\ d + (k - 1) = d + k - 1
  <2>1. k \in s .. n /\ k # s
    BY ZenonT(60), <1>2 DEF SameEffects
  <2> QED
    BY <1>2, <2>1
<1>4. a[k - 1] = b[d + k - 1]
  BY ZenonT(60), <1>3
<1>5. a[k] # b[d + k]
  BY ZenonT(60), <1>2
<1> QED
  BY ZenonT(60), <1>3, <1>4, <1>5 DEF SameEffects

\* The recorded effect is what the ordered commit does to the beneficiary's account
\* (BeneficiaryEffect::from_execution, OrderedCommitter::commit).
LEMMA EffectApplies ==
  ASSUME NEW t \in Tx, NEW vals \in Readings, Evm(t, vals).op = "ok", NEW st \in [Loc -> Val]
  PROVE  Apply(st, Changes(t, vals), DeferredReward(t, vals))[Ben]
           = Effected(st[Ben], EffectOf(t, vals))
<1> DEFINE changes == Changes(t, vals)
           reward == DeferredReward(t, vals)
           v == IF Ben \in DOMAIN changes THEN changes[Ben] ELSE st[Ben]
<1>0. Ben \in Loc /\ Val = 0 .. MaxVal /\ MaxVal \in Nat
  BY ZenonT(60), BlockAssumption
<1>1. changes \in Readings /\ reward \in Val
  BY ZenonT(60), ChangesType
<1>2. Apply(st, changes, reward)[Ben] = Credit(v, reward)
  BY ZenonT(60), <1>0 DEF Apply
<1>3. v \in Val
  <2>1. \A f \in Readings : \A x \in DOMAIN f : f[x] \in Val
    BY ZenonT(60) DEF Readings
  <2> QED
    BY ZenonT(60), <1>0, <1>1, <2>1
<1>4. reward > 0 => Ben \notin DOMAIN changes
  <2>1. Ben \in DOMAIN vals => reward = 0
    BY ZenonT(60) DEF DeferredReward
  <2>2. Ben \in DOMAIN Evm(t, vals).writes => Ben \in DOMAIN vals
    BY ZenonT(60), EvmAssumption DEF EvmStep
  <2>3. Ben \notin DOMAIN vals => Ben \notin DOMAIN changes
    BY ZenonT(60), <2>2 DEF Changes
  <2>4. ~(0 > 0)
    OBVIOUS
  <2> QED
    BY ZenonT(60), <2>1, <2>3, <2>4
<1>5. ~(reward > 0) => Credit(v, reward) = v
  BY <1>0, <1>1, <1>3 DEF Credit
<1>k. /\ \A r : Reward(r).kind = "Reward" /\ Reward(r).amount = r
      /\ \A x : Snapshot(x).kind = "Snapshot" /\ Snapshot(x).amount = x
      /\ Unchanged.kind = "Unchanged"
  BY ZenonT(60) DEF Reward, Snapshot, Unchanged
<1>e. /\ \A x, e : e.kind = "Reward" => Effected(x, e) = Credit(x, e.amount)
      /\ \A x, e : e.kind = "Snapshot" => Effected(x, e) = e.amount
      /\ \A x, e : e.kind = "Unchanged" => Effected(x, e) = x
  BY ZenonT(60) DEF Effected
<1> HIDE DEF changes, reward
<1>f. EffectOf(t, vals) = IF reward > 0 THEN Reward(reward)
                          ELSE IF Ben \in DOMAIN changes THEN Snapshot(changes[Ben])
                          ELSE Unchanged
  BY ZenonT(60) DEF EffectOf, changes, reward
<1>6. Effected(st[Ben], EffectOf(t, vals)) = Credit(v, reward)
  BY SMTT(30), <1>4, <1>5, <1>k, <1>e, <1>f
<1> QED
  BY ZenonT(60), <1>2, <1>6 DEF changes, reward

-----------------------------------------------------------------------------
(* What a version was stays what it was                                    *)

\* An entry of p at l is left, becomes an estimate, or is one of an earlier incarnation
\* and makes way for the current one.
EntryMoves(l, p) ==
  \/ /\ mv_memory'[l][p].incarnation = mv_memory[l][p].incarnation
     /\ mv_memory'[l][p].data = mv_memory[l][p].data
  \/ /\ mv_memory[l][p].incarnation < incarnation[p]
     /\ incarnation'[p] = incarnation[p]
     /\ mv_memory'[l][p].incarnation \in {0, incarnation[p]}

HistoryMoves(p) ==
  \/ history'[p] = history[p]
  \/ history'[p].incarnation > history[p].incarnation
  \/ history'[p].incarnation = history[p].incarnation /\ history'[p].value = Estimate

\* What any step may do to transaction p.
Moves(p) ==
  /\ incarnation'[p] \in Nat /\ incarnation'[p] >= incarnation[p]
  /\ history'[p].incarnation \in Nat
  /\ \A l \in Loc : EntryMoves(l, p) /\ mv_memory'[l][p].incarnation \in Nat
  /\ HistoryMoves(p)
  /\ status[p] = "Finality" => Kept(p)

\* What an incarnation has published is never published differently.
LEMMA VersionKept ==
  ASSUME TypeInv, NEW p \in Tx, Moves(p), NEW l \in Loc, NEW inc \in 1 .. incarnation[p],
         NEW val, VersionIs(l, p, inc, val)
  PROVE  VersionIs(l, p, inc, val)' /\ inc \in 1 .. incarnation'[p]
<1>1. /\ incarnation[p] \in Nat /\ incarnation'[p] \in Nat /\ incarnation'[p] >= incarnation[p]
      /\ mv_memory[l][p].incarnation \in Nat /\ mv_memory'[l][p].incarnation \in Nat
      /\ EntryMoves(l, p)
  BY ZenonT(60) DEF TypeInv, TypeOK, TxTypeOK, MemoryTypeOK, Entries, Moves
<1>2. PICK m, m1, d, d1, i, i1 :
        /\ m = mv_memory[l][p].incarnation /\ m1 = mv_memory'[l][p].incarnation
        /\ d = mv_memory[l][p].data /\ d1 = mv_memory'[l][p].data
        /\ i = incarnation[p] /\ i1 = incarnation'[p]
  BY ZenonT(60)
<1>3. /\ m \in Nat /\ m1 \in Nat /\ i \in Nat /\ i1 \in Nat /\ i1 >= i /\ inc \in 1 .. i
      /\ (m1 = m /\ d1 = d) \/ (m < i /\ i1 = i /\ m1 \in {0, i})
      /\ inc = i => m = inc
      /\ m = inc => d = val
  BY ZenonT(60), <1>1, <1>2 DEF EntryMoves, VersionIs
<1>4. (inc = i1 => m1 = inc) /\ (m1 = inc => d1 = val) /\ inc \in 1 .. i1
  BY <1>3
<1> QED
  BY ZenonT(60), <1>2, <1>4 DEF VersionIs

\* What an incarnation has recorded is never recorded differently.
LEMMA EffectKept ==
  ASSUME TypeInv, NEW p \in Tx, Moves(p), NEW inc \in Nat, NEW effect, EffectIs(p, inc, effect)
  PROVE  EffectIs(p, inc, effect)'
<1>1. history[p].incarnation \in Nat /\ history'[p].incarnation \in Nat /\ HistoryMoves(p)
  BY ZenonT(60) DEF TypeInv, TypeOK, HistoryTypeOK, Moves
<1>2. PICK h, h1, v, v1 :
        /\ h = history[p].incarnation /\ h1 = history'[p].incarnation
        /\ v = history[p].value /\ v1 = history'[p].value
  BY ZenonT(60)
<1>3. /\ h \in Nat /\ h1 \in Nat
      /\ (h1 = h /\ v1 = v) \/ h1 > h \/ (h1 = h /\ v1 = Estimate)
      /\ inc <= h
      /\ inc = h /\ v # Estimate => v = effect
  BY ZenonT(60), <1>1, <1>2 DEF HistoryMoves, EffectIs
<1>4. inc <= h1 /\ (inc = h1 /\ v1 # Estimate => v1 = effect)
  BY <1>3
<1> QED
  BY ZenonT(60), <1>2, <1>4 DEF EffectIs

\* A value that was read stays the value of the version it came from.
LEMMA MemoryTraced ==
  ASSUME TypeInv, \A p \in Tx : Moves(p), NEW t, NEW l \in Loc, NEW read, FromMemory(t, l, read)
  PROVE  FromMemory(t, l, read)'
<1>1. CASE read.origins = <<>> /\ read.val = InitStore[l]
  BY ZenonT(60), <1>1 DEF FromMemory
<1>2. CASE read.origins = <<>> /\ \E p \in Tx : p < t /\ status[p] = "Finality" /\ Written(l, p)
  BY ZenonT(60), <1>2 DEF Moves, Kept, Written, FromMemory
<1>3. CASE \E p \in Tx : \E inc \in 1 .. incarnation[p] :
             read.origins = <<<<p, inc>>>> /\ VersionIs(l, p, inc, read.val)
  <2>1. PICK p \in Tx : \E inc \in 1 .. incarnation[p] :
             read.origins = <<<<p, inc>>>> /\ VersionIs(l, p, inc, read.val)
    BY ZenonT(60), <1>3
  <2>2. PICK inc \in 1 .. incarnation[p] :
             read.origins = <<<<p, inc>>>> /\ VersionIs(l, p, inc, read.val)
    BY ZenonT(60), <2>1
  <2>3. PICK val : val = read.val
    BY ZenonT(60)
  <2>4. VersionIs(l, p, inc, val)' /\ inc \in 1 .. incarnation'[p]
    BY ZenonT(60), <2>2, <2>3, VersionKept
  <2> QED
    BY ZenonT(60), <2>2, <2>3, <2>4 DEF FromMemory
<1> QED
  BY ZenonT(60), <1>1, <1>2, <1>3 DEF FromMemory

\* So does a balance resolved from the history.
LEMMA HistoryTraced ==
  ASSUME TypeInv, \A p \in Tx : Moves(p), NEW t, NEW read, read.origins \in Seq(Origin),
         FromHistory(t, read)
  PROVE  FromHistory(t, read)'
<1>1. PICK n : n = Len(read.origins)
  BY ZenonT(60)
<1>2. CASE n = 0 /\ t > 0
  BY ZenonT(60), <1>1, <1>2 DEF FromHistory
<1>3. CASE ~(n = 0 /\ t > 0)
  <2>1. PICK effects \in [1 .. n -> Effects] : \E balances \in [0 .. n -> Val] :
           /\ balances[0] = InitStore[Ben] /\ balances[n] = read.val
           /\ \A k \in 1 .. n : balances[k] = Effected(balances[k - 1], effects[n + 1 - k])
           /\ \A i \in 1 .. n : EffectIs(read.origins[i][1], read.origins[i][2], effects[i])
    BY ZenonT(60), <1>1, <1>3 DEF FromHistory
  <2>2. PICK balances \in [0 .. n -> Val] :
           /\ balances[0] = InitStore[Ben] /\ balances[n] = read.val
           /\ \A k \in 1 .. n : balances[k] = Effected(balances[k - 1], effects[n + 1 - k])
           /\ \A i \in 1 .. n : EffectIs(read.origins[i][1], read.origins[i][2], effects[i])
    BY ZenonT(60), <2>1
  <2>3. ASSUME NEW i \in 1 .. n
        PROVE  EffectIs(read.origins[i][1], read.origins[i][2], effects[i])'
    <3>1. read.origins[i] \in Origin
      BY <1>1
    <3>2. read.origins[i][1] \in Tx /\ read.origins[i][2] \in Nat
      BY ZenonT(60), <3>1 DEF Origin
    <3>3. EffectIs(read.origins[i][1], read.origins[i][2], effects[i])
      BY ZenonT(60), <2>2
    <3> QED
      BY ZenonT(60), <3>2, <3>3, EffectKept
  <2> QED
    BY ZenonT(60), <1>1, <2>2, <2>3 DEF FromHistory
<1> QED
  BY ZenonT(60), <1>2, <1>3

\* So does everything an execution has read.
LEMMA ReadsTraced ==
  ASSUME TypeInv, \A p \in Tx : Moves(p), NEW t, NEW reads \in ReadSets, Traced(t, reads)
  PROVE  Traced(t, reads)'
<1>1. ASSUME NEW l \in ReadLocs(reads)
      PROVE  IF l = Ben THEN FromHistory(t, reads[l])' ELSE FromMemory(t, l, reads[l])'
  <2>1. l \in Loc /\ reads[l].origins \in Seq(Origin)
    BY ZenonT(60) DEF ReadLocs, ReadSets
  <2>2. PICK read : read = reads[l]
    BY ZenonT(60)
  <2>3. IF l = Ben THEN FromHistory(t, read) ELSE FromMemory(t, l, read)
    BY ZenonT(60), <2>2 DEF Traced
  <2>4. IF l = Ben THEN FromHistory(t, read)' ELSE FromMemory(t, l, read)'
    BY ZenonT(60), <2>1, <2>2, <2>3, HistoryTraced, MemoryTraced
  <2> QED
    BY ZenonT(60), <2>2, <2>4
<1> QED
  BY ZenonT(60), <1>1 DEF Traced

\* A transaction that a step leaves alone.
LEMMA SameMoves ==
  ASSUME TypeInv, NEW p \in Tx, status'[p] = status[p] \/ status[p] # "Finality",
         incarnation'[p] = incarnation[p], history'[p] = history[p],
         \A l \in Loc : mv_memory'[l][p] = mv_memory[l][p]
  PROVE  Moves(p)
<1>1. /\ incarnation[p] \in Nat
      /\ history[p] \in [incarnation : Nat, value : Effects]
      /\ \A l \in Loc : mv_memory[l][p] \in Entries
  BY ZenonT(60) DEF TypeInv, TypeOK, TxTypeOK, HistoryTypeOK, MemoryTypeOK
<1>2. /\ incarnation[p] >= incarnation[p] /\ history[p].incarnation \in Nat
      /\ \A l \in Loc : mv_memory[l][p].incarnation \in Nat
  BY <1>1 DEF Entries
<1> QED
  BY ZenonT(60), <1>1, <1>2 DEF Moves, EntryMoves, HistoryMoves, Kept

\* execute_task and validate replace what earlier incarnations have left.
LEMMA OwnerMoves ==
  ASSUME TypeInv, OwnInv, NEW w \in Workers, WorkerValue(w), ExecuteStep(w) \/ ValidateStep(w)
  PROVE  \A p \in Tx : Moves(p)
<1>t. PICK t \in Tx : t = job[w].tx /\ status[t] # "Finality" /\ \A x \in Tx \ {t} : SameAt(x)
  BY ZenonT(60), OwnerFrame, BusyNotFinal
<1>i. UNCHANGED incarnation
  BY ZenonT(60), OwnerIncarnation
<1>y. /\ MemoryTypeOK /\ incarnation[t] \in Nat /\ job[w] \in Jobs
      /\ history \in [Tx -> [incarnation : Nat, value : Effects]]
      /\ tx_results \in [Tx -> TxResults]
  BY ZenonT(60) DEF TypeInv, TypeOK, TxTypeOK, HistoryTypeOK, ThreadTypeOK
<1>h. history[t].incarnation \in Nat
  BY ZenonT(60), <1>y
<1>n. \A l \in Loc : mv_memory[l][t].incarnation \in Nat
  BY ZenonT(60), <1>y DEF MemoryTypeOK, Entries
<1>x. ASSUME NEW x \in Tx \ {t} PROVE Moves(x)
  BY ZenonT(60), <1>i, <1>t, SameMoves DEF SameAt
<1>1. CASE \/ PublishWrite(w) \/ PruneWrite(w) \/ MarkFailedWrite(w) \/ MarkConflictWrite(w)
  <2>u. UNCHANGED <<status, history>>
    BY ZenonT(60), <1>1 DEF PublishWrite, PruneWrite, MarkFailedWrite, MarkConflictWrite
  <2>w. /\ tx_results[t].write_set \subseteq Loc
        /\ Step(w).op = "ok" => WriteSet(w) \subseteq Loc
    BY ZenonT(60), <1>y, ValsType, <1>t, PublishedType DEF TxResults, Jobs, Step, WriteSet
  <2>1. PICK l \in Loc :
          \/ MarkEstimate(l, t)
          \/ /\ pc[w] = "run" /\ l \notin job[w].done
             /\ \/ RemoveValue(l, t)
                \/ \E value, e : PublishValue(l, t, job[w].incarnation, value, e)
    BY ZenonT(60), <1>1, <1>t, <2>w DEF PublishWrite, PruneWrite, MarkFailedWrite,
       MarkConflictWrite, StaleSet
  <2>2. \A k \in Loc \ {l} : mv_memory'[k][t] = mv_memory[k][t]
    BY ZenonT(60), <2>1, <1>y, SetEntryAt, MarkEstimateAt DEF PublishValue, RemoveValue
  <2>3. EntryMoves(l, t) /\ mv_memory'[l][t].incarnation \in Nat
    <3>1. CASE MarkEstimate(l, t)
      BY ZenonT(60), <1>n, <1>y, <3>1, MarkEstimateAt DEF EntryMoves
    <3>2. CASE /\ pc[w] = "run" /\ l \notin job[w].done
               /\ \/ RemoveValue(l, t)
                  \/ \E value, e : PublishValue(l, t, job[w].incarnation, value, e)
      <4>1. mv_memory[l][t].incarnation < incarnation[t]
        BY ZenonT(60), <1>t, <3>2 DEF WorkerValue
      <4>2. job[w].incarnation = incarnation[t]
        BY ZenonT(60), <1>t, <3>2, RunOwned
      <4>3. mv_memory'[l][t].incarnation \in {0, incarnation[t]}
        <5>1. PICK entry : SetEntry(l, t, entry) /\ entry.incarnation \in {0, incarnation[t]}
          <6>1. RemoveValue(l, t) => SetEntry(l, t, Absent) /\ Absent.incarnation = 0
            BY ZenonT(60) DEF RemoveValue, Absent
          <6>2. ASSUME NEW value, NEW e, PublishValue(l, t, incarnation[t], value, e)
                PROVE  \E entry : SetEntry(l, t, entry) /\ entry.incarnation = incarnation[t]
            BY <6>2 DEF PublishValue
          <6>3. CASE RemoveValue(l, t)
            BY ZenonT(60), <6>1, <6>3
          <6>4. CASE \E value, e : PublishValue(l, t, job[w].incarnation, value, e)
            BY ZenonT(60), <4>2, <6>2, <6>4
          <6> QED
            BY ZenonT(60), <3>2, <6>3, <6>4
        <5>2. MemoryTypeOK
          BY ZenonT(60), <1>y
        <5>3. mv_memory'[l][t] = entry
          BY ZenonT(60), <5>1, <5>2, SetEntryAt
        <5> QED
          BY ZenonT(60), <5>1, <5>3
      <4>4. mv_memory'[l][t].incarnation \in Nat
        BY <1>y, <4>3
      <4> QED
        BY ZenonT(60), <1>i, <4>1, <4>3, <4>4 DEF EntryMoves
    <3> QED
      BY ZenonT(60), <2>1, <3>1, <3>2
  <2>4. \A k \in Loc : EntryMoves(k, t) /\ mv_memory'[k][t].incarnation \in Nat
    BY ZenonT(60), <1>n, <2>2, <2>3 DEF EntryMoves
  <2>5. incarnation[t] >= incarnation[t]
    BY <1>y
  <2>6. Moves(t)
    BY ZenonT(60), <1>h, <1>i, <1>t, <1>y, <2>u, <2>4, <2>5 DEF Moves, HistoryMoves
  <2> QED
    BY ZenonT(60), <1>t, <1>x, <2>6
<1>2. CASE RecordExecution(w) \/ RecordFailure(w) \/ InvalidateHistory(w)
  <2>u. UNCHANGED <<status, mv_memory>>
    BY ZenonT(60), <1>2 DEF RecordExecution, RecordFailure, InvalidateHistory
  <2>1. \/ /\ \E value : RecordEntry(t, job[w].incarnation, value)
           /\ Recordable(t, job[w].incarnation)
        \/ InvalidateEntry(t)
        \/ UNCHANGED history
    BY ZenonT(60), <1>2, <1>t DEF RecordExecution, RecordFailure, InvalidateHistory
  <2>2. HistoryMoves(t) /\ history'[t].incarnation \in Nat
    <3>1. ASSUME NEW value, RecordEntry(t, job[w].incarnation, value),
                 Recordable(t, job[w].incarnation)
          PROVE  HistoryMoves(t) /\ history'[t].incarnation \in Nat
      BY ZenonT(60), <1>y, <3>1 DEF RecordEntry, Recordable, Jobs, HistoryMoves
    <3>2. ASSUME InvalidateEntry(t) PROVE HistoryMoves(t) /\ history'[t].incarnation \in Nat
      BY ZenonT(60), <1>y, <3>2, <1>h DEF InvalidateEntry, HistoryMoves
    <3> QED
      BY ZenonT(60), <1>h, <2>1, <3>1, <3>2 DEF HistoryMoves
  <2>3. incarnation[t] >= incarnation[t]
    BY <1>y
  <2>4. Moves(t)
    BY ZenonT(60), <1>i, <1>n, <1>t, <1>y, <2>u, <2>2, <2>3 DEF Moves, EntryMoves
  <2> QED
    BY ZenonT(60), <1>t, <1>x, <2>4
<1>3. CASE \/ BeginExecution(w) \/ ReadMemory(w) \/ ReadBacking(w) \/ ReadBeneficiary(w)
           \/ Depend(w) \/ HoldKeyTx(w) \/ FinishExecution(w) \/ StampExecution(w)
           \/ RewindExecution(w) \/ BeginValidation(w) \/ ScanMemory(w) \/ ScanBeneficiary(w)
           \/ Confirm(w) \/ StampConflict(w) \/ RewindConflict(w) \/ AddConflict(w)
  <2>1. UNCHANGED <<mv_memory, history>>
    BY ZenonT(60), <1>3 DEF BeginExecution, ReadMemory, ReadBacking, ReadBeneficiary,
       Depend, HoldKeyTx, FinishExecution, StampExecution, RewindExecution,
       BeginValidation, ScanMemory, ScanBeneficiary, Confirm, StampConflict, RewindConflict,
       AddConflict
  <2>2. Moves(t)
    BY ZenonT(60), <1>i, <1>t, <2>1, SameMoves
  <2> QED
    BY ZenonT(60), <1>t, <1>x, <2>2
<1> QED
  BY ZenonT(60), <1>1, <1>2, <1>3 DEF ExecuteStep, ValidateStep

\* Scheduler::next and execution_task: a new incarnation starts with the entries of the
\* last one in place.
LEMMA ScheduleMoves ==
  ASSUME TypeInv, NEW w \in Workers, ScheduleStep(w)
  PROVE  \A p \in Tx : Moves(p)
<1>u. UNCHANGED <<mv_memory, history>>
  BY ZenonT(60) DEF ScheduleStep, WorkerExit, ClaimValidation, TakeValidation,
     AdvanceExecution, ClaimExecution, TakeExecution, ReleaseDependents
<1>y. status \in [Tx -> Statuses] /\ incarnation \in [Tx -> Nat]
  BY ZenonT(60) DEF TypeInv, TypeOK, TxTypeOK
<1>1. CASE TakeExecution(w)
  <2>1. ASSUME NEW p \in Tx PROVE Moves(p)
    <3>1. \/ incarnation'[p] = incarnation[p] /\ status'[p] = status[p]
          \/ incarnation'[p] = incarnation[p] + 1 /\ status[p] # "Finality"
      BY ZenonT(60), <1>1, <1>y DEF TakeExecution, SetStatus
    <3>2. CASE incarnation'[p] = incarnation[p] /\ status'[p] = status[p]
      BY ZenonT(60), <1>u, <3>2, SameMoves
    <3>3. CASE incarnation'[p] = incarnation[p] + 1 /\ status[p] # "Finality"
      <4>1. incarnation'[p] \in Nat /\ incarnation'[p] >= incarnation[p]
        BY <1>y, <3>3
      <4>2. /\ history[p] \in [incarnation : Nat, value : Effects]
            /\ \A l \in Loc : mv_memory[l][p] \in Entries
        BY ZenonT(60) DEF TypeInv, TypeOK, HistoryTypeOK, MemoryTypeOK
      <4>3. history[p].incarnation \in Nat /\ \A l \in Loc : mv_memory[l][p].incarnation \in Nat
        BY ZenonT(60), <4>2 DEF Entries
      <4> QED
        BY ZenonT(60), <1>u, <3>3, <4>1, <4>3 DEF Moves, EntryMoves, HistoryMoves
    <3> QED
      BY ZenonT(60), <3>1, <3>2, <3>3
  <2> QED
    BY ZenonT(60), <2>1
<1>2. CASE ~TakeExecution(w)
  <2>1. UNCHANGED incarnation
    BY ZenonT(60), <1>2 DEF ScheduleStep, WorkerExit, ClaimValidation, TakeValidation,
     AdvanceExecution, ClaimExecution, ReleaseDependents
  <2>2. \A p \in Tx : status'[p] = status[p] \/ status[p] # "Finality"
    BY ZenonT(60), <1>2, <1>y DEF ScheduleStep, WorkerExit, ClaimValidation, TakeValidation,
     AdvanceExecution, ClaimExecution, ReleaseDependents, SetStatus
  <2> QED
    BY ZenonT(60), <1>u, <2>1, <2>2, SameMoves
<1> QED
  BY ZenonT(60), <1>1, <1>2

-----------------------------------------------------------------------------
(* Where the values come from                                              *)

\* Every step of every thread moves every transaction so.
LEMMA AllMove ==
  ASSUME TypeInv, OwnInv, [Next]_vars, \A v \in Workers : WorkerValue(v)
  PROVE  \A p \in Tx : Moves(p)
BY ZenonT(60), ScheduleMoves, OwnerMoves, FinalityFrame, SameMoves DEF WorkerStep,
   FinalityStep, FinalityCheck, FinalityLock, FinalityPublish, CommitStep, CommitCheck,
   CommitTx, PublishCommit, ReleaseSuccessor, CallerStep, PostExecute, ReplayTx, ReplayEnd,
   vars, Next, Finished

\* A result that is left where it is.
LEMMA TxTraceKept ==
  ASSUME TypeInv, \A p \in Tx : Moves(p), NEW x \in Tx, TxTrace(x), tx_results'[x] = tx_results[x]
  PROVE  TxTrace(x)'
<1>1. PICK res : res = tx_results[x]
  BY ZenonT(60)
<1>2. PICK reads : reads = res.reads /\ reads \in ReadSets
  BY ZenonT(60), <1>1 DEF TypeInv, TypeOK, TxTypeOK, TxResults
<1>3. Traced(x, reads)'
  BY ZenonT(60), <1>1, <1>2, ReadsTraced DEF TxTrace
<1> QED
  BY ZenonT(60), <1>1, <1>2, <1>3 DEF TxTrace

\* The entries of a scan of the history are what was recorded.
Linked(chain) ==
  \A i \in DOMAIN chain : EffectIs(chain[i].tx, chain[i].incarnation, chain[i].value)

\* They stay what was recorded while other steps add entries.
LEMMA LinkedKept ==
  ASSUME TypeInv, \A p \in Tx : Moves(p), NEW chain \in Seq(Links), Linked(chain)
  PROVE  Linked(chain)'
<1>1. ASSUME NEW i \in DOMAIN chain
      PROVE  EffectIs(chain[i].tx, chain[i].incarnation, chain[i].value)'
  <2>1. PICK p, inc, e : p = chain[i].tx /\ inc = chain[i].incarnation /\ e = chain[i].value
    BY ZenonT(60)
  <2>2. p \in Tx /\ inc \in Nat
    <3>1. chain[i] \in Links
      OBVIOUS
    <3> QED
      BY ZenonT(60), <2>1, <3>1 DEF Links
  <2> QED
    BY ZenonT(60), <2>1, <2>2, EffectKept DEF Linked
<1> QED
  BY ZenonT(60), <1>1 DEF Linked

\* The next entry the scan meets is one of them (HistoryScan).
LEMMA LinkedGrows ==
  ASSUME TypeInv, NEW chain \in Seq(Links), Linked(chain), NEW p \in Tx
  PROVE  Linked(Append(chain, Link(p))) /\ Append(chain, Link(p)) \in Seq(Links)
<1>h. history[p] \in [incarnation : Nat, value : Effects]
  BY ZenonT(60) DEF TypeInv, TypeOK, HistoryTypeOK
<1>1. PICK link : link = Link(p)
  BY ZenonT(60)
<1>2. /\ link \in Links /\ link.tx = p /\ link.incarnation = history[p].incarnation
      /\ link.value = history[p].value /\ history[p].incarnation <= history[p].incarnation
  BY <1>1, <1>h DEF Link, Links
<1>3. EffectIs(link.tx, link.incarnation, link.value)
  BY ZenonT(60), <1>2 DEF EffectIs
<1>4. PICK more : more = Append(chain, link)
  BY ZenonT(60)
<1>5. ASSUME NEW i \in DOMAIN more PROVE more[i] = link \/ (i \in DOMAIN chain /\ more[i] = chain[i])
  BY <1>2, <1>4
<1>6. Linked(more)
  BY ZenonT(60), <1>3, <1>5 DEF Linked
<1>7. more \in Seq(Links)
  BY <1>2, <1>4
<1> QED
  BY ZenonT(60), <1>1, <1>4, <1>6, <1>7

\* A worker that is left in its execution, or away from one.
LEMMA WorkerTraceKept ==
  ASSUME TypeInv, \A p \in Tx : Moves(p), NEW v \in Workers, WorkerTrace(v),
         job'[v].tx = job[v].tx, job'[v].reads = job[v].reads, job'[v].chain = job[v].chain,
         pc'[v] \in {"run", "backing"} <=> pc[v] \in {"run", "backing"},
         pc'[v] = "backing" => pc[v] = "backing"
  PROVE  WorkerTrace(v)'
<1>1. PICK t, reads, chain : t = job[v].tx /\ reads = job[v].reads /\ chain = job[v].chain
  BY ZenonT(60)
<1>2. reads \in ReadSets /\ chain \in Seq(Links)
  BY ZenonT(60), <1>1 DEF TypeInv, TypeOK, ThreadTypeOK, Jobs
<1>3. Linked(chain)'
  BY ZenonT(60), <1>1, <1>2, LinkedKept DEF WorkerTrace, Linked
<1>4. pc[v] \in {"run", "backing"} => Traced(t, reads)'
  BY ZenonT(60), <1>1, <1>2, ReadsTraced DEF WorkerTrace
<1>5. Step(v)' = Step(v)
  BY ZenonT(60), SameStep
<1> QED
  BY ZenonT(60), <1>1, <1>3, <1>4, <1>5 DEF WorkerTrace, Linked

\* Away from an execution nothing has been read.
LEMMA AwayTrace ==
  ASSUME TypeInv, \A p \in Tx : Moves(p), NEW v \in Workers, WorkerTrace(v),
         pc'[v] \notin {"run", "backing"}, job'[v].reads = NoReads,
         job'[v].chain \in {<<>>, job[v].chain}
  PROVE  WorkerTrace(v)'
<1>1. PICK chain : chain = job[v].chain /\ chain \in Seq(Links)
  BY ZenonT(60) DEF TypeInv, TypeOK, ThreadTypeOK, Jobs
<1>2. Linked(chain)'
  BY ZenonT(60), <1>1, LinkedKept DEF WorkerTrace, Linked
<1>3. DOMAIN <<>> = {} /\ pc'[v] # "backing"
  OBVIOUS
<1> QED
  BY ZenonT(60), <1>1, <1>2, <1>3 DEF WorkerTrace, Linked

\* The EVM asks for a location it has not read yet.
LEMMA AskedNew ==
  ASSUME TypeInv, NEW w \in Workers, job[w].tx \in Tx, Step(w).op = "read"
  PROVE  /\ Step(w).loc \in Loc \ ReadLocs(job[w].reads)
         /\ Asks(job[w].tx, Vals(job[w].reads), Step(w).loc)
<1>1. job[w].reads \in ReadSets
  BY ZenonT(60) DEF TypeInv, TypeOK, ThreadTypeOK, Jobs
<1>2. EvmStep(job[w].tx, Vals(job[w].reads))
  BY ZenonT(60), <1>1, ValsType, EvmAssumption
<1>3. DOMAIN Vals(job[w].reads) = ReadLocs(job[w].reads)
  BY ZenonT(60) DEF Vals
<1>4. PICK e : e = Step(w)
  BY ZenonT(60)
<1>5. e.op \notin {"ok", "invalid", "fatal"}
  BY ZenonT(60), <1>4
<1>6. e.loc \in Loc \ DOMAIN Vals(job[w].reads)
  BY ZenonT(60), <1>2, <1>4, <1>5 DEF EvmStep, Step
<1> QED
  BY ZenonT(60), <1>3, <1>4, <1>6 DEF Asks, Step

\* A location more, with a value that comes from somewhere.
LEMMA ReadingTraced ==
  ASSUME NEW reads \in ReadSets, NEW l \in Loc, l \notin ReadLocs(reads), NEW val \in Val,
         NEW origins \in Seq(Origin), NEW t, Asks(t, Vals(reads), l), Asked(t, Vals(reads)),
         Traced(t, reads),
         IF l = Ben THEN FromHistory(t, ReadAs(val, origins))
                    ELSE FromMemory(t, l, ReadAs(val, origins))
  PROVE  LET more == Reading(reads, l, val, origins)
         IN  more \in ReadSets /\ Asked(t, Vals(more)) /\ Traced(t, more)
<1>1. PICK more : more = Reading(reads, l, val, origins)
  BY ZenonT(60)
<1>2. /\ ReadLocs(more) = ReadLocs(reads) \cup {l}
      /\ Vals(more) = With(Vals(reads), l, val)
      /\ more[l] = ReadAs(val, origins)
      /\ \A k \in ReadLocs(reads) : more[k] = reads[k]
  <2>1. /\ ReadLocs(Reading(reads, l, val, origins)) = ReadLocs(reads) \cup {l}
        /\ Vals(Reading(reads, l, val, origins)) = With(Vals(reads), l, val)
        /\ Reading(reads, l, val, origins)[l] = ReadAs(val, origins)
        /\ \A k \in ReadLocs(reads) : Reading(reads, l, val, origins)[k] = reads[k]
    BY SMTT(30), ReadGrows
  <2> QED
    BY ZenonT(60), <1>1, <2>1
<1>3. Asked(t, Vals(more))
  <2>1. PICK vals : vals = Vals(reads)
    BY ZenonT(60)
  <2>2. l \notin DOMAIN vals /\ vals = [x \in DOMAIN vals |-> vals[x]]
    BY ZenonT(60), <2>1 DEF Vals
  <2>3. Asked(t, vals) /\ Asks(t, vals, l)
    BY ZenonT(60), <2>1
  <2>4. Asked(t, With(vals, l, val))
    BY ZenonT(60), <2>2, <2>3, AskedGrows
  <2> QED
    BY ZenonT(60), <1>2, <2>1, <2>4
<1>4. Traced(t, more)
  BY ZenonT(60), <1>2 DEF Traced
<1>5. more \in ReadSets
  BY ZenonT(60), <1>1 DEF ReadAs, ReadSets, Reading
<1> QED
  BY ZenonT(60), <1>1, <1>3, <1>4, <1>5

\* An execution that has read one value more still follows the EVM on what it read.
LEMMA GotReadTrace ==
  ASSUME TypeInv, \A p \in Tx : Moves(p), NEW w \in Workers, WorkerTrace(w),
         pc[w] \in {"run", "backing"}, NEW t \in Tx, t = job[w].tx, Step(w).op = "read",
         NEW l, l = Step(w).loc, NEW val \in Val, NEW origins \in Seq(Origin),
         pc'[w] = "run", job'[w].tx = t, job'[w].chain = <<>>,
         job'[w].reads = Reading(job[w].reads, l, val, origins),
         IF l = Ben THEN FromHistory(t, ReadAs(val, origins))
                    ELSE FromMemory(t, l, ReadAs(val, origins))
  PROVE  WorkerTrace(w)'
<1>1. PICK reads : reads = job[w].reads
  BY ZenonT(60)
<1>2. /\ reads \in ReadSets /\ l \in Loc /\ l \notin ReadLocs(reads) /\ Asks(t, Vals(reads), l)
      /\ Asked(t, Vals(reads)) /\ Traced(t, reads)
  BY ZenonT(60), <1>1, AskedNew DEF TypeInv, TypeOK, ThreadTypeOK, Jobs, WorkerTrace
<1>3. PICK more : more = Reading(reads, l, val, origins)
  BY ZenonT(60)
<1>4. more \in ReadSets /\ Asked(t, Vals(more)) /\ Traced(t, more)
  BY ZenonT(60), <1>2, <1>3, ReadingTraced
<1>5. Traced(t, more)'
  BY ZenonT(60), <1>4, ReadsTraced
<1>6. job'[w].reads = more /\ DOMAIN <<>> = {} /\ pc'[w] # "backing"
  BY <1>1, <1>3
<1> QED
  BY ZenonT(60), <1>4, <1>5, <1>6 DEF WorkerTrace

\* IncarnationDb::basic and storage, from the memory.
LEMMA MemoryReadTrace ==
  ASSUME TypeInv, \A p \in Tx : Moves(p), NEW w \in Workers, WorkerTrace(w), WorkerStep(w),
         ReadMemory(w), \A x \in Tx : TxValue(x)
  PROVE  WorkerTrace(w)'
<1>p. /\ pc[w] = "run" /\ Step(w).op = "read" /\ Step(w).loc # Ben
      /\ pc[w] \notin IdleLabels
  BY ZenonT(60) DEF ReadMemory, IdleLabels
<1>t. PICK t \in Tx : t = job[w].tx
  BY ZenonT(60), <1>p DEF TypeInv, BusyInv
<1>l. PICK l \in Loc : l = Step(w).loc
  BY ZenonT(60), <1>p, <1>t, AskedNew
<1>y. job[w] \in Jobs
  BY ZenonT(60) DEF TypeInv, TypeOK, ThreadTypeOK
<1>1. CASE LatestWriter(l, t) = NoTx
  <2>1. Goto(w, "backing", job[w])
    BY ZenonT(60), <1>1, <1>l, <1>t DEF ReadMemory
  <2>2. pc'[w] = "backing" /\ job'[w] = job[w]
    BY ZenonT(60), <2>1, GotoIs
  <2>3. PICK reads, chain : reads = job[w].reads /\ chain = job[w].chain
    BY ZenonT(60)
  <2>4. Traced(t, reads)' /\ Linked(chain)'
    BY ZenonT(60), <1>y, <2>3, <1>p, <1>t, ReadsTraced, LinkedKept DEF Jobs, WorkerTrace, Linked
  <2>5. Step(w)' = Step(w)
    BY ZenonT(60), <2>2, SameStep
  <2> QED
    BY ZenonT(60), <1>p, <1>t, <2>2, <2>3, <2>4, <2>5 DEF WorkerTrace, Linked
<1>2. CASE LatestWriter(l, t) # NoTx
  <2>p. PICK p \in Tx : p = LatestWriter(l, t) /\ mv_memory[l][p].incarnation > 0
    BY ZenonT(60), <1>2, LatestWriterIs DEF Writers, LatestWriter
  <2>e. PICK entry \in Entries : entry = mv_memory[l][p]
    BY ZenonT(60) DEF TypeInv, TypeOK, MemoryTypeOK
  <2>i. PICK inc, val : inc = entry.incarnation /\ val = entry.data
    BY ZenonT(60)
  <2>1. inc \in Nat /\ val \in Val
    BY ZenonT(60), <2>e, <2>i DEF Entries
  <2>2. inc \in 1 .. incarnation[p]
    <3>1. mv_memory[l][p].incarnation <= incarnation[p]
      BY ZenonT(60) DEF TxValue
    <3>2. incarnation[p] \in Nat
      BY ZenonT(60) DEF TypeInv, TypeOK, TxTypeOK
    <3> QED
      BY <2>1, <2>e, <2>i, <2>p, <3>1, <3>2
  <2>3. PICK origins : origins = <<<<p, inc>>>>
    BY ZenonT(60)
  <2>r. PICK read : read = ReadAs(val, origins)
    BY ZenonT(60)
  <2>4. read = ReadAs(val, origins) /\ read.val = val /\ read.origins = origins
    BY ZenonT(60), <2>r DEF ReadAs
  <2>5. FromMemory(t, l, read)
    <3>1. VersionIs(l, p, inc, val)
      BY ZenonT(60), <2>e, <2>i DEF VersionIs
    <3> QED
      BY ZenonT(60), <2>2, <2>3, <2>4, <3>1 DEF FromMemory
  <2>6. PICK b : Goto(w, "run", [GotRead(w, l, val, origins) EXCEPT !.blocking = b])
    BY ZenonT(60), <1>2, <1>l, <1>t, <2>3, <2>e, <2>i, <2>p DEF ReadMemory
  <2>7. PICK j : j = [GotRead(w, l, val, origins) EXCEPT !.blocking = b]
    BY ZenonT(60)
  <2>8. j.tx = t /\ j.chain = <<>> /\ j.reads = Reading(job[w].reads, l, val, origins)
    BY ZenonT(60), <1>t, <1>y, <2>7 DEF GotRead, Jobs, Reading
  <2>9. pc'[w] = "run" /\ job'[w] = j
    BY ZenonT(60), <2>6, <2>7, GotoIs
  <2>o. origins \in Seq(Origin)
    BY <2>1, <2>3 DEF Origin
  <2> QED
    BY ZenonT(60), <1>l, <1>p, <1>t, <2>1, <2>4, <2>5, <2>8, <2>9, <2>o, GotReadTrace
<1> QED
  BY ZenonT(60), <1>1, <1>2

\* ... and from the committed state: what a commit has changed there, a final transaction
\* before t has written.
LEMMA BackingReadTrace ==
  ASSUME TypeInv, OwnInv, OutcomeInv, StoreInv, \A p \in Tx : Moves(p), NEW w \in Workers,
         WorkerTrace(w), ReadBacking(w)
  PROVE  WorkerTrace(w)'
<1>p. pc[w] = "backing" /\ pc[w] # "done" /\ pc[w] \in BusyLabels
  BY ZenonT(60) DEF ReadBacking, BusyLabels, TaskLabels, ExecuteLabels, RunLabels
<1>t. PICK t \in Tx : t = job[w].tx /\ status[t] # "Finality"
  BY ZenonT(60), <1>p, BusyNotFinal
<1>l. PICK l \in Loc \ {Ben} : l = Step(w).loc /\ Step(w).op = "read"
  <2>1. Step(w).op = "read" /\ Step(w).loc # Ben
    BY ZenonT(60), <1>p DEF WorkerTrace
  <2> QED
    BY ZenonT(60), <1>t, <2>1, AskedNew
<1>y. job[w] \in Jobs /\ store \in [Loc -> Val]
  BY ZenonT(60) DEF TypeInv, TypeOK, ThreadTypeOK, BlockTypeOK
<1>n. PICK n : n = Len(output) /\ n \in Nat /\ n <= finality /\ store[l] = ValueAfter(l, n)
  <2>1. phase = "parallel" /\ store[l] = ValueAfter(l, Len(output))
    BY ZenonT(60), <1>p DEF StoreInv
  <2>2. Len(output) = IF commit_pc = "publish" THEN committed + 1 ELSE committed
    BY ZenonT(60), <2>1 DEF OutcomeInv, ParallelOutcome
  <2>3. committed \in 0 .. N /\ finality \in 0 .. N /\ N \in Nat
    BY ZenonT(60), BlockAssumption DEF TypeInv, TypeOK, CtxTypeOK
  <2>4. committed <= finality /\ (commit_pc = "publish" => committed < finality)
    BY ZenonT(60) DEF TypeInv, CursorInv
  <2>5. Len(output) \in Nat /\ Len(output) <= finality
    BY <2>2, <2>3, <2>4
  <2> QED
    BY ZenonT(60), <2>1, <2>5
<1>r. PICK val, read : val = store[l] /\ read = ReadAs(val, <<>>)
  BY ZenonT(60)
<1>1. read.val = val /\ read.origins = <<>>
  BY ZenonT(60), <1>r DEF ReadAs
<1>2. FromMemory(t, l, read)
  <2>1. CASE LatestWriter(l, n) = NoTx
    BY ZenonT(60), <1>1, <1>n, <1>r, <2>1 DEF FromMemory, ValueAfter
  <2>2. CASE LatestWriter(l, n) # NoTx
    <3>1. PICK q \in Tx : q < n /\ mv_memory[l][q].incarnation > 0
      BY ZenonT(60), <2>2, LatestWriterIs DEF Writers
    <3>2. TxOwn(q) /\ TxOwn(t)
      BY ZenonT(60) DEF OwnInv
    <3>3. q < finality /\ ~(t < finality) /\ q < t
      <4>1. ~(t < finality)
        BY ZenonT(60), <1>t, <3>2 DEF TxOwn
      <4>2. finality \in 0 .. N /\ N \in Nat
        BY ZenonT(60), BlockAssumption DEF TypeInv, TypeOK, CtxTypeOK
      <4> QED
        BY <1>n, <3>1, <4>1, <4>2 DEF Tx
    <3>4. status[q] = "Finality"
      BY ZenonT(60), <3>2, <3>3 DEF TxOwn
    <3> QED
      BY ZenonT(60), <1>1, <3>1, <3>3, <3>4 DEF FromMemory, Written
  <2> QED
    BY ZenonT(60), <2>1, <2>2
<1>3. PICK j : j = GotRead(w, l, val, <<>>)
  BY ZenonT(60)
<1>4. j.tx = t /\ j.chain = <<>> /\ j.reads = Reading(job[w].reads, l, val, <<>>)
  BY ZenonT(60), <1>t, <1>y, <1>3 DEF GotRead, Jobs, Reading
<1>5. pc'[w] = "run" /\ job'[w] = j
  BY ZenonT(60), <1>3, <1>l, <1>r, GotoAt DEF ReadBacking
<1>6. val \in Val /\ <<>> \in Seq(Origin)
  BY <1>r, <1>y
<1> QED
  BY ZenonT(60), <1>2, <1>4, <1>5, <1>6, <1>l, <1>p, <1>r, <1>t, GotReadTrace

\* The balance a scan of the history resolves to.
LEMMA ResolvedTrace ==
  ASSUME NEW t, NEW chain \in Seq(Links), Linked(chain), NEW balances, Resolves(chain, balances)
  PROVE  FromHistory(t, ReadAs(balances[Len(chain)], Origins(chain)))
<1>1. PICK n, origins, read :
        n = Len(chain) /\ origins = Origins(chain) /\ read = ReadAs(balances[n], origins)
  BY ZenonT(60)
<1>2. PICK effects : effects = [i \in 1 .. n |-> chain[i].value]
  BY ZenonT(60)
<1>3. /\ n \in Nat /\ Len(origins) = n /\ read.val = balances[n] /\ read.origins = origins
      /\ \A i \in 1 .. n : origins[i][1] = chain[i].tx /\ origins[i][2] = chain[i].incarnation
      /\ \A k \in 1 .. n : n + 1 - k \in 1 .. n
      /\ DOMAIN chain = 1 .. n
  BY <1>1 DEF Origins, ReadAs
<1>4. effects \in [1 .. n -> Effects] /\ \A i \in 1 .. n : effects[i] = chain[i].value
  <2>1. \A i \in 1 .. n : chain[i] \in Links
    BY <1>1
  <2>2. \A i \in 1 .. n : chain[i].value \in Effects
    BY ZenonT(60), <2>1 DEF Links
  <2> QED
    BY ZenonT(60), <1>2, <2>2
<1>5. balances \in [0 .. n -> Val] /\ balances[0] = InitStore[Ben]
  BY ZenonT(60), <1>1 DEF Resolves
<1>6. ASSUME NEW k \in 1 .. n
      PROVE  balances[k] = Effected(balances[k - 1], effects[n + 1 - k])
  <2>1. balances[k] = Effected(balances[k - 1], chain[n + 1 - k].value)
    BY ZenonT(60), <1>1 DEF Resolves
  <2>2. effects[n + 1 - k] = chain[n + 1 - k].value
    BY ZenonT(60), <1>3, <1>4
  <2> QED
    BY ZenonT(60), <2>1, <2>2
<1>7. \A i \in 1 .. n : EffectIs(origins[i][1], origins[i][2], effects[i])
  BY ZenonT(60), <1>3, <1>4 DEF Linked
<1>8. FromHistory(t, read)
  BY ZenonT(60), <1>3, <1>4, <1>5, <1>6, <1>7 DEF FromHistory
<1> QED
  BY ZenonT(60), <1>1, <1>8

\* Beneficiary::resolve_before.
LEMMA BeneficiaryReadTrace ==
  ASSUME TypeInv, \A p \in Tx : Moves(p), NEW w \in Workers, WorkerTrace(w), ReadBeneficiary(w)
  PROVE  WorkerTrace(w)'
<1>p. /\ pc[w] = "run" /\ Step(w).op = "read" /\ Step(w).loc = Ben
      /\ pc[w] \notin IdleLabels
  BY ZenonT(60) DEF ReadBeneficiary, IdleLabels
<1>y. job[w] \in Jobs
  BY ZenonT(60) DEF TypeInv, TypeOK, ThreadTypeOK
<1>t. PICK t \in Tx, old \in Seq(Links) :
        t = job[w].tx /\ old = job[w].chain /\ (old = <<>> \/ Len(old) < t)
  BY ZenonT(60), <1>p, <1>y DEF TypeInv, BusyInv, Jobs
<1>o. Linked(old) /\ <<>> \in Seq(Origin) /\ 0 \in Val /\ InitStore[Ben] \in Val
  <2>1. Linked(old)
    BY ZenonT(60), <1>t DEF WorkerTrace, Linked
  <2> QED
    BY <2>1, BlockAssumption
<1>g. ASSUME NEW val \in Val, NEW origins \in Seq(Origin), FromHistory(t, ReadAs(val, origins)),
             NEW j, Goto(w, "run", j), j.tx = t, j.chain = <<>>,
             j.reads = Reading(job[w].reads, Ben, val, origins)
      PROVE  WorkerTrace(w)'
  BY ZenonT(60), <1>g, GotoIs, <1>p, <1>t, GotReadTrace
<1>r. ASSUME NEW val, NEW origins, NEW j,
             \/ j = GotRead(w, Ben, val, origins)
             \/ \E b : j = [GotRead(w, Ben, val, origins) EXCEPT !.blocking = b]
      PROVE  j.tx = t /\ j.chain = <<>> /\ j.reads = Reading(job[w].reads, Ben, val, origins)
  BY ZenonT(60), <1>r, <1>t, <1>y DEF GotRead, Jobs, Reading
<1>1. CASE t = 0
  <2>1. PICK val, j : val = InitStore[Ben] /\ j = GotRead(w, Ben, val, <<>>)
    BY ZenonT(60)
  <2>2. Goto(w, "run", j)
    BY ZenonT(60), <1>1, <1>t, <2>1 DEF ReadBeneficiary
  <2>3. FromHistory(t, ReadAs(val, <<>>))
    <3>1. Resolves(<<>>, [k \in 0 .. 0 |-> val])
      BY <1>o, <2>1 DEF Resolves
    <3>2. PICK balances : balances = [k \in 0 .. 0 |-> val]
      BY ZenonT(60)
    <3>3. <<>> \in Seq(Links) /\ Len(<<>>) = 0 /\ Origins(<<>>) = <<>> /\ balances[0] = val
          /\ Linked(<<>>)
      BY <3>2 DEF Origins, Linked
    <3>4. FromHistory(t, ReadAs(balances[Len(<<>>)], Origins(<<>>)))
      BY ZenonT(60), <3>1, <3>2, <3>3, ResolvedTrace
    <3> QED
      BY ZenonT(60), <3>3, <3>4
  <2>4. j.tx = t /\ j.chain = <<>> /\ j.reads = Reading(job[w].reads, Ben, val, <<>>)
    BY ZenonT(60), <1>r, <2>1
  <2>5. val \in Val /\ <<>> \in Seq(Origin)
    BY ZenonT(60), <1>o, <2>1
  <2> QED
    BY ZenonT(60), <1>g, <2>2, <2>3, <2>4, <2>5
<1>2. CASE t # 0
  <2>w. PICK writer \in Tx : writer = (t - Len(job[w].chain)) - 1
    <3>1. Len(old) \in Nat /\ t > 0 /\ Len(old) < t
      BY <1>2, <1>t DEF Tx
    <3>2. (t - Len(old)) - 1 \in Tx
      BY <3>1, BlockAssumption DEF Tx
    <3> QED
      BY ZenonT(60), <1>t, <3>2
  <2>c. PICK chain : /\ chain = Append(job[w].chain, Link(writer))
                     /\ chain \in Seq(Links) /\ Linked(chain)
    BY ZenonT(60), <1>o, <1>t, LinkedGrows
  <2>1. CASE history[writer].value = Estimate
    <3>1. PICK b : Goto(w, "run", [GotRead(w, Ben, 0, <<>>) EXCEPT !.blocking = b])
      BY ZenonT(60), <1>2, <1>t, <2>1, <2>w DEF ReadBeneficiary
    <3>2. PICK j : j = [GotRead(w, Ben, 0, <<>>) EXCEPT !.blocking = b]
      BY ZenonT(60)
    <3>3. j.tx = t /\ j.chain = <<>> /\ j.reads = Reading(job[w].reads, Ben, 0, <<>>)
      BY ZenonT(60), <1>r, <3>2
    <3>4. PICK read : read = ReadAs(0, <<>>)
      BY ZenonT(60)
    <3>5. Len(read.origins) = 0 /\ t > 0
      BY <1>2, <3>4 DEF ReadAs, Tx
    <3>6. FromHistory(t, ReadAs(0, <<>>))
      BY ZenonT(60), <3>4, <3>5 DEF FromHistory
    <3>7. Goto(w, "run", j) /\ 0 \in Val /\ <<>> \in Seq(Origin)
      BY ZenonT(60), <1>o, <3>1, <3>2
    <3> QED
      BY ZenonT(60), <1>g, <3>3, <3>6, <3>7
  <2>2. CASE history[writer].value # Estimate /\ ScanEndsAt(writer)
    <3>1. PICK balances \in [0 .. Len(chain) -> Val] :
            /\ Resolves(chain, balances)
            /\ Goto(w, "run", GotRead(w, Ben, balances[Len(chain)], Origins(chain)))
      BY ZenonT(60), <1>2, <1>t, <2>2, <2>c, <2>w DEF ReadBeneficiary
    <3>2. PICK val, origins, j : /\ val = balances[Len(chain)] /\ origins = Origins(chain)
                                 /\ j = GotRead(w, Ben, val, origins)
      BY ZenonT(60)
    <3>3. j.tx = t /\ j.chain = <<>> /\ j.reads = Reading(job[w].reads, Ben, val, origins)
      BY ZenonT(60), <1>r, <3>2
    <3>4. FromHistory(t, ReadAs(val, origins))
      BY ZenonT(60), <2>c, <3>1, <3>2, ResolvedTrace
    <3>5. val \in Val
      <4>1. Len(chain) \in 0 .. Len(chain)
        BY <2>c
      <4> QED
        BY ZenonT(60), <3>1, <3>2, <4>1
    <3>6. origins \in Seq(Origin)
      BY ZenonT(60), <2>c, <3>2, OriginsType
    <3> QED
      BY ZenonT(60), <1>g, <3>1, <3>2, <3>3, <3>4, <3>5, <3>6
  <2>3. CASE history[writer].value # Estimate /\ ~ScanEndsAt(writer)
    <3>1. Goto(w, "run", [job[w] EXCEPT !.chain = chain])
      BY ZenonT(60), <1>2, <1>t, <2>3, <2>c, <2>w DEF ReadBeneficiary
    <3>2. PICK j : j = [job[w] EXCEPT !.chain = chain]
      BY ZenonT(60)
    <3>3. j.tx = t /\ j.chain = chain /\ j.reads = job[w].reads
      BY ZenonT(60), <1>t, <1>y, <3>2 DEF Jobs
    <3>4. pc'[w] = "run" /\ job'[w] = j /\ "run" # "backing"
      <4>1. pc'[w] = "run" /\ job'[w] = j
        BY ZenonT(60), <3>1, <3>2, GotoIs
      <4> QED
        BY ZenonT(60), <4>1
    <3>5. PICK reads : reads = job[w].reads /\ reads \in ReadSets
      BY ZenonT(60), <1>y DEF Jobs
    <3>6. Traced(t, reads)' /\ Linked(chain)'
      BY ZenonT(60), <1>p, <1>t, <2>c, <3>5, ReadsTraced, LinkedKept DEF WorkerTrace
    <3> QED
      BY ZenonT(60), <1>p, <1>t, <3>3, <3>4, <3>5, <3>6 DEF WorkerTrace, Linked
  <2> QED
    BY ZenonT(60), <2>1, <2>2, <2>3
<1> QED
  BY ZenonT(60), <1>1, <1>2

\* A step that leaves w away from any execution.
Away(w, label, j) ==
  /\ Goto(w, label, j) /\ label \notin {"run", "backing"}
  /\ j.reads = NoReads /\ j.chain \in {<<>>, job[w].chain}

\* A worker that drops its job, or starts a new one, executes nothing yet.
LEMMA IdleAway ==
  ASSUME NEW w \in Workers, NEW label, label \notin {"run", "backing"}, NEW j, Goto(w, label, j),
         \/ j = Idle
         \/ \E t : j = [Idle EXCEPT !.tx = t]
         \/ \E t, i : j = [Idle EXCEPT !.tx = t, !.incarnation = i]
         \/ \E t, i, c, d : j = [Idle EXCEPT !.tx = t, !.incarnation = i, !.conflict = c, !.dep = d]
         \/ \E t, i, c, f, d : j = [Idle EXCEPT !.tx = t, !.incarnation = i, !.conflict = c,
                                                 !.fresh = f, !.dep = d]
  PROVE  Away(w, label, j)
<1>1. j.reads = NoReads /\ j.chain = <<>>
  <2>1. PICK idle : idle = Idle
    BY ZenonT(60)
  <2>2. /\ idle.reads = NoReads /\ idle.chain = <<>>
        /\ {"tx", "incarnation", "reads", "chain", "conflict", "fresh", "dep"} \subseteq DOMAIN idle
    BY ZenonT(60), <2>1 DEF Idle
  <2>3. j.reads = idle.reads /\ j.chain = idle.chain
    BY ZenonT(60), <2>1, <2>2
  <2> QED
    BY ZenonT(60), <2>2, <2>3
<1> QED
  BY ZenonT(60), <1>1 DEF Away

\* A worker that goes on with a job that has read nothing executes nothing yet.
LEMMA JobAway ==
  ASSUME TypeInv, NEW w \in Workers, NEW label, label \notin {"run", "backing"}, NEW j,
         Goto(w, label, j), job[w].reads = NoReads,
         \/ j = job[w]
         \/ \E x : \/ j = [job[w] EXCEPT !.incarnation = x]
                   \/ j = [job[w] EXCEPT !.next = x]
                   \/ j = [job[w] EXCEPT !.done = x]
                   \/ j = [job[w] EXCEPT !.dep = x]
                   \/ j = [job[w] EXCEPT !.ts = x]
         \/ \E x, y : j = [job[w] EXCEPT !.ts = x, !.done = y]
  PROVE  Away(w, label, j)
BY ZenonT(60) DEF TypeInv, TypeOK, ThreadTypeOK, Jobs, Away

\* Scheduler::next and execution_task.
LEMMA ScheduleAway ==
  ASSUME TypeInv, NEW w \in Workers, ScheduleStep(w), WorkerTrace(w)
  PROVE  \E label, j : Away(w, label, j)
<1>1. pc[w] \notin {"run", "backing"}
  BY ZenonT(60) DEF ScheduleStep, WorkerExit, ClaimValidation, TakeValidation,
     AdvanceExecution, ClaimExecution, TakeExecution, ReleaseDependents
<1>2. job[w].reads = NoReads
  BY ZenonT(60), <1>1 DEF WorkerTrace
<1>3. \A x \in {"done", "claimed", "validate", "pick", "claim", "next", "task", "execute", "release"} :
        x \notin {"run", "backing"}
  BY ZenonT(60)
<1>4. \E label \in {"done", "claimed", "validate", "pick", "claim", "next", "task", "execute",
                    "release"} : \E j :
        /\ Goto(w, label, j)
        /\ \/ j = Idle
           \/ \E t : j = [Idle EXCEPT !.tx = t]
           \/ j = job[w]
           \/ \E x : j = [job[w] EXCEPT !.incarnation = x]
  BY ZenonT(60) DEF ScheduleStep, WorkerExit, ClaimValidation, TakeValidation,
     AdvanceExecution, ClaimExecution, TakeExecution, ReleaseDependents
<1> QED
  BY ZenonT(60), <1>2, <1>3, <1>4, IdleAway, JobAway

\* The end of execute_task.
LEMMA RecordedAway ==
  ASSUME TypeInv, NEW w \in Workers, WorkerTrace(w),
         \/ RecordExecution(w) \/ RecordFailure(w) \/ Depend(w) \/ HoldKeyTx(w)
         \/ FinishExecution(w) \/ StampExecution(w) \/ RewindExecution(w)
  PROVE  \E label, j : Away(w, label, j)
<1>1. CASE RecordExecution(w) \/ RecordFailure(w)
  BY ZenonT(60), <1>1, IdleAway DEF RecordExecution, RecordFailure, GiveUp
<1>2. CASE Depend(w) \/ HoldKeyTx(w) \/ FinishExecution(w) \/ StampExecution(w) \/ RewindExecution(w)
  <2>1. pc[w] \in {"depend", "key", "executed", "stamp", "rewind"}
    BY ZenonT(60), <1>2 DEF Depend, HoldKeyTx, FinishExecution, StampExecution, RewindExecution
  <2>2. pc[w] \notin {"run", "backing"}
    BY ZenonT(60), <2>1
  <2>3. job[w].reads = NoReads
    BY ZenonT(60), <2>2 DEF WorkerTrace
  <2>4. \A x \in {"executed", "validate", "stamp", "rewind", "next", "task"} :
          x \notin {"run", "backing"}
    BY ZenonT(60)
  <2>5. CASE Depend(w) \/ HoldKeyTx(w)
    BY ZenonT(60), <2>5, <2>3, <2>4, JobAway DEF Depend, HoldKeyTx
  <2>6. CASE FinishExecution(w)
    BY ZenonT(60), <2>6, <2>3, <2>4, IdleAway, JobAway DEF FinishExecution
  <2>7. CASE StampExecution(w) \/ RewindExecution(w)
    BY ZenonT(60), <2>7, <2>3, <2>4, IdleAway, JobAway DEF StampExecution, RewindExecution
  <2> QED
    BY ZenonT(60), <1>2, <2>5, <2>6, <2>7
<1> QED
  BY ZenonT(60), <1>1, <1>2

\* validate, but for a scan of the history in progress.
LEMMA ValidateAway ==
  ASSUME TypeInv, NEW w \in Workers, WorkerTrace(w),
         \/ BeginValidation(w) \/ ScanMemory(w) \/ Confirm(w) \/ MarkConflictWrite(w)
         \/ InvalidateHistory(w) \/ StampConflict(w) \/ RewindConflict(w) \/ AddConflict(w)
  PROVE  \E label, j : Away(w, label, j)
<1>1. pc[w] \in {"validate", "scan", "confirm", "estimate", "restamp", "recursor", "readd"}
  BY ZenonT(60) DEF BeginValidation, ScanMemory, Confirm, MarkConflictWrite, InvalidateHistory,
     StampConflict, RewindConflict, AddConflict
<1>2. pc[w] \notin {"run", "backing"}
  BY ZenonT(60), <1>1
<1>3. job[w].reads = NoReads
  BY ZenonT(60), <1>2 DEF WorkerTrace
<1>y. job[w] \in Jobs
  BY ZenonT(60) DEF TypeInv, TypeOK, ThreadTypeOK
<1>4. \A x \in {"next", "scan", "estimate", "confirm", "restamp", "recursor", "readd"} :
        x \notin {"run", "backing"}
  BY ZenonT(60)
<1>5. CASE BeginValidation(w)
  BY ZenonT(60), <1>5, <1>y, <1>3, <1>4, IdleAway, JobAway DEF BeginValidation, GiveUp,
     Scanned, Jobs
<1>6. CASE ScanMemory(w)
  <2>1. PICK l, valid, p : Scanned(w, Checked(w, l, valid, p))
    BY ZenonT(60), <1>6 DEF ScanMemory
  <2>2. PICK j0 : j0 = Checked(w, l, valid, p)
    BY ZenonT(60)
  <2>3. PICK label, j :
          label \in {"scan", "estimate", "confirm"} /\ Goto(w, label, j) /\ j \in {j0, [j0 EXCEPT !.done = {}]}
    BY ZenonT(60), <2>1, <2>2 DEF Scanned
  <2>4. j0.reads = job[w].reads /\ j0.chain = <<>> /\ {"reads", "chain", "done"} \subseteq DOMAIN j0
    BY ZenonT(60), <1>y, <2>2 DEF Checked, Jobs
  <2>5. j.reads = job[w].reads /\ j.chain = <<>>
    BY ZenonT(60), <2>3, <2>4
  <2> QED
    BY ZenonT(60), <1>3, <1>4, <2>3, <2>5 DEF Away
<1>7. CASE Confirm(w) \/ AddConflict(w)
  BY ZenonT(60), <1>7, <1>4, IdleAway DEF Confirm, AddConflict
<1>8. CASE MarkConflictWrite(w) \/ InvalidateHistory(w)
  BY ZenonT(60), <1>8, <1>3, <1>4, IdleAway, JobAway DEF MarkConflictWrite, InvalidateHistory,
     GiveUp, MarkDone
<1>9. CASE StampConflict(w) \/ RewindConflict(w)
  BY ZenonT(60), <1>9, <1>3, <1>4, JobAway DEF StampConflict, RewindConflict
<1> QED
  BY ZenonT(60), <1>5, <1>6, <1>7, <1>8, <1>9

\* BeneficiaryHistory::validate.
LEMMA ScanTrace ==
  ASSUME TypeInv, \A p \in Tx : Moves(p), NEW w \in Workers, WorkerTrace(w), ScanBeneficiary(w)
  PROVE  WorkerTrace(w)'
<1>1. pc[w] = "scan" /\ pc[w] \notin {"run", "backing"} /\ pc[w] \notin IdleLabels
  <2>1. pc[w] = "scan"
    BY ZenonT(60) DEF ScanBeneficiary
  <2> QED
    BY ZenonT(60), <2>1 DEF IdleLabels
<1>y. job[w] \in Jobs
  BY ZenonT(60) DEF TypeInv, TypeOK, ThreadTypeOK
<1>t. PICK t \in Tx, old \in Seq(Links) :
        t = job[w].tx /\ old = job[w].chain /\ (old = <<>> \/ Len(old) < t)
  BY ZenonT(60), <1>1, <1>y DEF TypeInv, BusyInv, Jobs
<1>o. Linked(old) /\ job[w].reads = NoReads
  BY ZenonT(60), <1>1, <1>t DEF WorkerTrace, Linked
<1>w. PICK writer : writer = (t - Len(job[w].chain)) - 1 /\ (t # 0 => writer \in Tx)
  <2>1. t # 0 => (t - Len(old)) - 1 \in Tx
    <3>1. t # 0 => Len(old) \in Nat /\ t > 0 /\ Len(old) < t
      BY <1>t DEF Tx
    <3> QED
      BY <3>1, BlockAssumption DEF Tx
  <2> QED
    BY ZenonT(60), <1>t, <2>1
<1>2. PICK j0 : /\ Scanned(w, j0)
                /\ \/ \E valid, p : j0 = Checked(w, Ben, valid, p)
                   \/ /\ j0 = [job[w] EXCEPT !.chain = Append(job[w].chain, Link(writer))]
                      /\ t # 0
  BY ZenonT(60), <1>t, <1>w DEF ScanBeneficiary
<1>3. PICK chain : j0.chain = chain /\ chain \in Seq(Links) /\ Linked(chain)
  <2>1. CASE \E valid, p : j0 = Checked(w, Ben, valid, p)
    <3>1. j0.chain = <<>> /\ <<>> \in Seq(Links) /\ Linked(<<>>)
      BY <1>y, <2>1 DEF Checked, Jobs, Linked
    <3> QED
      BY ZenonT(60), <3>1
  <2>2. CASE t # 0 /\ j0 = [job[w] EXCEPT !.chain = Append(job[w].chain, Link(writer))]
    <3>1. j0.chain = Append(job[w].chain, Link(writer))
      BY ZenonT(60), <1>y, <2>2 DEF Jobs
    <3> QED
      BY ZenonT(60), <1>o, <1>t, <1>w, <2>2, <3>1, LinkedGrows
  <2> QED
    BY ZenonT(60), <1>2, <2>1, <2>2
<1>4. j0.reads = job[w].reads /\ {"reads", "chain", "done"} \subseteq DOMAIN j0
  BY ZenonT(60), <1>2, <1>y DEF Checked, Jobs
<1>5. PICK label, j :
        label \in {"scan", "estimate", "confirm"} /\ Goto(w, label, j) /\ j \in {j0, [j0 EXCEPT !.done = {}]}
  BY ZenonT(60), <1>2 DEF Scanned
<1>6. j.reads = job[w].reads /\ j.chain = chain /\ label \notin {"run", "backing"}
  BY ZenonT(60), <1>3, <1>4, <1>5
<1>7. pc'[w] = label /\ job'[w] = j
  BY ZenonT(60), <1>5, GotoIs
<1>8. Linked(chain)'
  BY ZenonT(60), <1>3, LinkedKept
<1>9. label # "backing"
  BY ZenonT(60), <1>6
<1> QED
  BY ZenonT(60), <1>6, <1>7, <1>8, <1>9, <1>o DEF WorkerTrace, Linked

\* The reads of w after a step of its own.
LEMMA OwnTrace ==
  ASSUME TypeInv, OwnInv, OutcomeInv, StoreInv, \A p \in Tx : Moves(p), \A x \in Tx : TxValue(x),
         NEW w \in Workers, WorkerTrace(w), WorkerStep(w)
  PROVE  WorkerTrace(w)'
<1>a. ASSUME \E label, j : Away(w, label, j) PROVE WorkerTrace(w)'
  <2>1. PICK label, j : Away(w, label, j)
    BY ZenonT(60), <1>a
  <2>2. pc'[w] = label /\ job'[w] = j
    BY ZenonT(60), <2>1, GotoIs DEF Away
  <2> QED
    BY ZenonT(60), <2>1, <2>2, AwayTrace DEF Away
<1>1. CASE ScheduleStep(w)
  BY ZenonT(60), <1>1, <1>a, ScheduleAway
<1>2. CASE BeginExecution(w)
  <2>1. pc[w] = "execute" /\ (Goto(w, "next", Idle) \/ Goto(w, "run", job[w]))
    BY ZenonT(60), <1>2 DEF BeginExecution, GiveUp
  <2>2. pc[w] \notin {"run", "backing"} /\ "next" \notin {"run", "backing"}
    BY ZenonT(60), <2>1
  <2>3. job[w].reads = NoReads
    BY ZenonT(60), <2>2 DEF WorkerTrace
  <2>4. CASE Goto(w, "next", Idle)
    BY ZenonT(60), <1>a, <2>2, <2>4, IdleAway
  <2>5. CASE Goto(w, "run", job[w])
    <3>1. pc'[w] = "run" /\ job'[w] = job[w] /\ "run" # "backing"
      BY ZenonT(60), <2>5, GotoIs
    <3>2. PICK t, chain : t = job[w].tx /\ chain = job[w].chain
      BY ZenonT(60)
    <3>3. Asked(t, Vals(NoReads)) /\ Traced(t, NoReads)'
      BY ZenonT(60), AskedNothing DEF Traced
    <3>4. Linked(chain)'
      BY ZenonT(60), <3>2, LinkedKept DEF TypeInv, TypeOK, ThreadTypeOK, Jobs, WorkerTrace,
         Linked
    <3> QED
      BY ZenonT(60), <2>3, <3>1, <3>2, <3>3, <3>4 DEF WorkerTrace, Linked
  <2> QED
    BY ZenonT(60), <2>1, <2>4, <2>5
<1>3. CASE ReadMemory(w) \/ ReadBacking(w) \/ ReadBeneficiary(w)
  BY ZenonT(60), <1>3, MemoryReadTrace, BackingReadTrace, BeneficiaryReadTrace
<1>4. CASE PublishWrite(w) \/ PruneWrite(w) \/ MarkFailedWrite(w)
  <2>1. PICK t \in Tx, l \in Loc : WritesAt(w, t, l)
    BY ZenonT(60), <1>4, RunWriteAt
  <2>2. "run" # "backing"
    BY ZenonT(60)
  <2> QED
    BY ZenonT(60), <2>1, <2>2, WorkerTraceKept DEF WritesAt
<1>5. CASE \/ RecordExecution(w) \/ RecordFailure(w) \/ Depend(w) \/ HoldKeyTx(w)
           \/ FinishExecution(w) \/ StampExecution(w) \/ RewindExecution(w)
  BY ZenonT(60), <1>5, <1>a, RecordedAway
<1>6. CASE ScanBeneficiary(w)
  BY ZenonT(60), <1>6, ScanTrace
<1>7. CASE ValidateStep(w) /\ ~ScanBeneficiary(w)
  BY ZenonT(60), <1>7, <1>a, ValidateAway DEF ValidateStep
<1> QED
  BY ZenonT(60), <1>1, <1>2, <1>3, <1>4, <1>5, <1>6, <1>7 DEF WorkerStep, ExecuteStep

\* The result of an execution is what it has read.
LEMMA ResultTrace ==
  ASSUME TypeInv, OwnInv, \A p \in Tx : Moves(p), NEW w \in Workers, WorkerTrace(w),
         WorkerStep(w), NEW x \in Tx, TxTrace(x)
  PROVE  TxTrace(x)'
<1>y. tx_results \in [Tx -> TxResults] /\ job[w].reads \in ReadSets
  BY ZenonT(60) DEF TypeInv, TypeOK, TxTypeOK, ThreadTypeOK, Jobs
<1>1. CASE tx_results'[x] = tx_results[x]
  BY ZenonT(60), <1>1, TxTraceKept
<1>2. CASE tx_results'[x] # tx_results[x]
  <2>1. RecordExecution(w) \/ RecordFailure(w)
    BY ZenonT(60), <1>2 DEF WorkerStep, ScheduleStep, WorkerExit, ClaimValidation,
       TakeValidation, AdvanceExecution, ClaimExecution, TakeExecution, ReleaseDependents,
       ExecuteStep, BeginExecution, ReadMemory, ReadBacking, ReadBeneficiary, PublishWrite,
       PruneWrite, MarkFailedWrite, Depend, HoldKeyTx, FinishExecution, StampExecution,
       RewindExecution, ValidateStep, BeginValidation, ScanMemory, ScanBeneficiary, Confirm,
       MarkConflictWrite, InvalidateHistory, StampConflict, RewindConflict, AddConflict
  <2>p. pc[w] = "run" /\ job[w].tx \in Tx
    <3>1. pc[w] = "run"
      BY ZenonT(60), <2>1 DEF RecordExecution, RecordFailure
    <3> QED
      BY ZenonT(60), <3>1, RunOwned
  <2>2. CASE RecordExecution(w)
    <3>1. PICK reads, written : /\ reads = job[w].reads
                                /\ tx_results' = [tx_results EXCEPT ![job[w].tx] =
                                     [kind |-> "Ok", reads |-> reads, write_set |-> written]]
      BY ZenonT(60), <1>2, <2>2 DEF RecordExecution
    <3>2. PICK res : res = [kind |-> "Ok", reads |-> reads, write_set |-> written]
      BY ZenonT(60)
    <3>3. res.reads = reads
      BY ZenonT(60), <3>2
    <3>4. tx_results' = [tx_results EXCEPT ![job[w].tx] = res]
      BY ZenonT(60), <3>1, <3>2
    <3>5. tx_results'[x] = res /\ x = job[w].tx
      BY ZenonT(60), <1>2, <1>y, <2>p, <3>4
    <3>6. Asked(x, Vals(reads)) /\ Traced(x, reads)
      BY ZenonT(60), <2>p, <3>1, <3>5 DEF WorkerTrace
    <3>7. Traced(x, reads)'
      BY ZenonT(60), <1>y, <3>1, <3>6, ReadsTraced
    <3> QED
      BY ZenonT(60), <3>3, <3>5, <3>6, <3>7 DEF TxTrace
  <2>3. CASE RecordFailure(w)
    <3>1. tx_results' = [tx_results EXCEPT ![job[w].tx].kind = "Err", ![job[w].tx].reads = NoReads]
      BY ZenonT(60), <1>2, <2>3 DEF RecordFailure
    <3>2. PICK none, old : none = NoReads /\ old = tx_results[x]
      BY ZenonT(60)
    <3>3. tx_results' = [tx_results EXCEPT ![job[w].tx].kind = "Err", ![job[w].tx].reads = none]
      BY ZenonT(60), <3>1, <3>2
    <3>4. tx_results'[x].kind = "Err" /\ tx_results'[x].reads = none
      BY ZenonT(60), <1>2, <1>y, <2>p, <3>3 DEF TxResults
    <3>5. tx_results'[x].kind # "Ok"
      BY ZenonT(60), <3>4
    <3> QED
      BY ZenonT(60), <3>2, <3>4, <3>5, AskedNothing DEF TxTrace, Traced
  <2> QED
    BY ZenonT(60), <2>1, <2>2, <2>3
<1> QED
  BY ZenonT(60), <1>1, <1>2

\* Every step of every thread keeps what is said of the reads.
LEMMA TracesKept ==
  ASSUME TypeInv, OwnInv, OutcomeInv, StoreInv, [Next]_vars,
         \A x \in Tx : TxValue(x) /\ TxTrace(x),
         \A v \in Workers : WorkerValue(v) /\ WorkerTrace(v)
  PROVE  (\A x \in Tx : TxTrace(x)') /\ (\A v \in Workers : WorkerTrace(v)')
<1>m. \A p \in Tx : Moves(p)
  BY ZenonT(60), AllMove
<1>1. ASSUME NEW w \in Workers, WorkerStep(w)
      PROVE  (\A x \in Tx : TxTrace(x)') /\ (\A v \in Workers : WorkerTrace(v)')
  <2>1. \A x \in Tx : TxTrace(x)'
    BY ZenonT(60), <1>1, <1>m, ResultTrace
  <2>2. WorkerTrace(w)'
    BY ZenonT(60), <1>1, <1>m, OwnTrace
  <2>3. ASSUME NEW v \in Workers \ {w} PROVE WorkerTrace(v)'
    <3>1. CASE ScheduleStep(w)
      BY ZenonT(60), <3>1, ScheduleAway, GotoAt, <1>m, WorkerTraceKept DEF Away
    <3>2. CASE ExecuteStep(w) \/ ValidateStep(w)
      BY ZenonT(60), <3>2, OwnerFrame, <1>m, WorkerTraceKept DEF SameWorker
    <3> QED
      BY ZenonT(60), <1>1, <3>1, <3>2 DEF WorkerStep
  <2> QED
    BY ZenonT(60), <2>1, <2>2, <2>3
<1>2. CASE FinalityStep \/ CommitStep \/ CallerStep \/ UNCHANGED vars
  <2>1. UNCHANGED <<pc, job>>
    BY ZenonT(60), <1>2 DEF FinalityStep, FinalityCheck, FinalityLock, FinalityPublish, CommitStep,
       CommitCheck, CommitTx, PublishCommit, ReleaseSuccessor, CallerStep, PostExecute, ReplayTx,
       ReplayEnd, vars
  <2>2. \A v \in Workers : WorkerTrace(v)'
    BY ZenonT(60), <1>m, <2>1, WorkerTraceKept
  <2>3. ASSUME NEW x \in Tx PROVE tx_results'[x] \in {tx_results[x], NoResult}
    BY ZenonT(60), CommitFrame, <1>2 DEF FinalityStep, FinalityCheck, FinalityLock,
       FinalityPublish, CallerStep, PostExecute, ReplayTx, ReplayEnd, vars
  <2>4. ASSUME NEW x \in Tx, tx_results'[x] = NoResult PROVE TxTrace(x)'
    <3>1. NoResult.kind # "Ok" /\ NoResult.reads = NoReads
      BY ZenonT(60) DEF NoResult
    <3> QED
      BY ZenonT(60), <2>4, <3>1, AskedNothing DEF TxTrace, Traced
  <2> QED
    BY ZenonT(60), <1>m, <2>2, <2>3, <2>4, TxTraceKept
<1> QED
  BY ZenonT(60), <1>1, <1>2 DEF Next, Finished

-----------------------------------------------------------------------------
(* The committed state                                                     *)

\* A final read of the memory is the committed value.
LEMMA MemoryReadMatches ==
  ASSUME TypeInv, NEW t \in Tx, NEW l \in Loc, NEW read, FromMemory(t, l, read),
         MemoryCurrent(l, t, read.origins)
  PROVE  read.val = ValueAfter(l, t)
<1>1. CASE LatestWriter(l, t) = NoTx
  <2>1. read.origins = <<>>
    BY ZenonT(60), <1>1 DEF MemoryCurrent
  <2>2. \A p, inc : <<>> # <<<<p, inc>>>>
    BY ZenonT(60)
  <2>3. Writers(l, t) = {}
    <3>1. Writers(l, t) \subseteq Nat
      BY DEF Writers, Tx
    <3> QED
      BY ZenonT(60), <1>1, <3>1, BlockAssumption, LatestWriterIs
  <2>4. read.val = InitStore[l]
    BY ZenonT(60), <2>1, <2>2, <2>3 DEF FromMemory, Writers, Written
  <2> QED
    BY ZenonT(60), <1>1, <2>4 DEF ValueAfter
<1>2. CASE LatestWriter(l, t) # NoTx
  <2>1. PICK q, v : q = LatestWriter(l, t) /\ v = mv_memory[l][q].incarnation
    BY ZenonT(60)
  <2>2. read.origins = <<<<q, v>>>>
    BY ZenonT(60), <1>2, <2>1 DEF MemoryCurrent
  <2>3. <<<<q, v>>>> # <<>>
    BY ZenonT(60)
  <2>4. PICK p, inc : read.origins = <<<<p, inc>>>> /\ VersionIs(l, p, inc, read.val)
    BY ZenonT(60), <2>2, <2>3 DEF FromMemory
  <2>5. p = q /\ inc = v
    BY <2>2, <2>4
  <2>6. mv_memory[l][q].data = read.val
    BY ZenonT(60), <2>1, <2>4, <2>5 DEF VersionIs
  <2> QED
    BY ZenonT(60), <1>2, <2>1, <2>6 DEF ValueAfter
<1> QED
  BY ZenonT(60), <1>1, <1>2

\* The balances of the beneficiary along the first n transactions.
Settled(balances, n) ==
  /\ balances[0] = InitStore[Ben]
  /\ \A k \in 1 .. n : balances[k] = Effected(balances[k - 1], history[k - 1].value)

\* So is a final read of the beneficiary.
LEMMA BeneficiaryReadMatches ==
  ASSUME TypeInv, NEW t \in Tx, NEW read, read.origins \in Seq(Origin), FromHistory(t, read),
         BeneficiaryCurrent(t, read.origins), NEW balances, Settled(balances, t)
  PROVE  read.val = balances[t]
<1>1. PICK n, origins : n = Len(read.origins) /\ origins = read.origins
  BY ZenonT(60)
<1>2. /\ n \in Nat /\ t \in Nat
      /\ n = t \/ (n > 0 /\ history[t - n].value.kind = "Snapshot")
  <2>1. n \in Nat /\ t \in Nat
    BY <1>1 DEF Tx
  <2> QED
    BY ZenonT(60), <1>1, <2>1 DEF BeneficiaryCurrent
<1>3. \A i \in 1 .. n : /\ origins[i] = <<t - i, history[t - i].incarnation>>
                        /\ history[t - i].value # Estimate
  BY ZenonT(60), <1>1 DEF BeneficiaryCurrent
<1>4. \A i \in 1 .. n : t - i \in Tx /\ origins[i][1] = t - i /\ i <= t
  <2>1. \A i \in 1 .. n : origins[i] \in Origin
    BY <1>1
  <2> QED
    BY <1>2, <1>3, <2>1 DEF Origin, Tx
<1>5. n <= t
  <2>1. n = 0 \/ n \in 1 .. n
    BY <1>2
  <2>2. n \in 1 .. n => n <= t
    BY ZenonT(60), <1>4
  <2> QED
    BY <1>2, <2>1, <2>2
<1>6. PICK effects, b :
        /\ b[0] = InitStore[Ben] /\ b[n] = read.val
        /\ \A k \in 1 .. n : b[k] = Effected(b[k - 1], effects[n + 1 - k])
        /\ \A i \in 1 .. n : EffectIs(origins[i][1], origins[i][2], effects[i])
  <2>1. ~(n = 0 /\ t > 0)
    BY <1>2
  <2> QED
    BY ZenonT(60), <1>1, <2>1 DEF FromHistory
<1>7. PICK d : d = t - n /\ d \in Nat /\ d + n = t
  BY <1>2, <1>5
<1>8. PICK effect : effect = [k \in 1 .. n |-> history[d + k - 1].value]
  BY ZenonT(60)
<1>9. ASSUME NEW k \in 1 .. n
      PROVE  /\ b[k] = Effected(b[k - 1], effect[k])
             /\ balances[d + k] = Effected(balances[d + k - 1], effect[k])
  <2>1. n + 1 - k \in 1 .. n /\ t - (n + 1 - k) = d + k - 1 /\ d + k \in 1 .. t
    BY <1>2, <1>7
  <2>2. PICK i, p : i = n + 1 - k /\ p = d + k - 1
    BY ZenonT(60)
  <2>3. /\ i \in 1 .. n /\ p \in Tx /\ origins[i] = <<p, history[p].incarnation>>
        /\ history[p].value # Estimate
    BY ZenonT(60), <1>3, <1>4, <2>1, <2>2
  <2>4. origins[i][1] = p /\ origins[i][2] = history[p].incarnation
    BY <2>3
  <2>5. EffectIs(p, history[p].incarnation, effects[i])
    BY ZenonT(60), <1>6, <2>3, <2>4
  <2>6. history[p].value = effects[i]
    BY ZenonT(60), <2>3, <2>5 DEF EffectIs
  <2>7. effect[k] = history[p].value
    BY ZenonT(60), <1>8, <2>2
  <2>m. PICK m \in 1 .. t : m = d + k
    BY ZenonT(60), <2>1
  <2>8. balances[d + k] = Effected(balances[d + k - 1], history[p].value)
    <3>1. balances[m] = Effected(balances[m - 1], history[m - 1].value)
      BY ZenonT(60), <2>m DEF Settled
    <3>2. m - 1 = p /\ m - 1 = d + k - 1
      BY <1>7, <2>2, <2>m
    <3>3. balances[m] = Effected(balances[m - 1], history[p].value)
      BY ZenonT(60), <3>1, <3>2
    <3> QED
      BY ZenonT(60), <2>m, <3>2, <3>3
  <2>9. b[k] = Effected(b[k - 1], effects[i])
    BY ZenonT(60), <1>6, <2>2
  <2> QED
    BY ZenonT(60), <2>6, <2>7, <2>8, <2>9
<1>b. n \in 0 .. N /\ d \in Nat
  BY <1>2, <1>5, <1>7, BlockAssumption DEF Tx
<1>a. \A s \in 0 .. n : SameEffects(b, balances, d, s, n, effect) => b[n] = balances[d + n]
  BY <1>b, BalancesAgree
<1>10. CASE n = t
  <2>1. d = 0 /\ 0 \in 0 .. n /\ b[0] = balances[d + 0] /\ 0 + 1 = 1
    BY <1>2, <1>6, <1>7, <1>10 DEF Settled
  <2>2. SameEffects(b, balances, d, 0, n, effect)
    BY ZenonT(60), <1>9, <2>1 DEF SameEffects
  <2>3. b[n] = balances[d + n]
    BY ZenonT(60), <1>a, <2>1, <2>2
  <2> QED
    BY ZenonT(60), <1>6, <1>7, <2>3
<1>11. CASE n > 0 /\ history[t - n].value.kind = "Snapshot"
  <2>1. 1 \in 1 .. n /\ 1 \in 0 .. n /\ d + 1 - 1 = t - n /\ \A k \in 1 + 1 .. n : k \in 1 .. n
    BY <1>2, <1>7, <1>11
  <2>2. effect[1].kind = "Snapshot"
    BY ZenonT(60), <1>8, <1>11, <2>1
  <2>3. \A x : Effected(x, effect[1]) = effect[1].amount
    BY ZenonT(60), <2>2 DEF Effected
  <2>4. b[1] = balances[d + 1]
    BY ZenonT(60), <1>9, <2>1, <2>3
  <2>5. SameEffects(b, balances, d, 1, n, effect)
    BY ZenonT(60), <1>9, <2>1, <2>4 DEF SameEffects
  <2>6. b[n] = balances[d + n]
    BY ZenonT(60), <1>a, <2>1, <2>5
  <2> QED
    BY ZenonT(60), <1>6, <1>7, <2>6
<1> QED
  BY ZenonT(60), <1>2, <1>10, <1>11

\* What the commit of t applies was read from the state it is applied to.
CommitReady(t) ==
  /\ t = committed /\ t = Len(output) /\ phase = "parallel" /\ commit_pc = "inner"
  /\ status[t] = "Finality" /\ Uncommitted(t) /\ tx_results[t].kind = "Ok" /\ t < finality

\* Only a final transaction is taken by the commit thread, right after the outcomes so far.
LEMMA CommitTakesNext ==
  ASSUME TypeInv, OwnInv, OutcomeInv, CommitTx
  PROVE  \E t \in Tx : CommitReady(t)
<1>1. commit_pc = "inner" /\ committed < finality
  BY ZenonT(60) DEF CommitTx
<1>2. committed \in 0 .. N /\ finality \in 0 .. N /\ N \in Nat
  BY ZenonT(60), BlockAssumption DEF TypeInv, TypeOK, CtxTypeOK
<1>3. PICK t \in Tx : t = committed /\ t < finality
  <2>1. committed \in Tx
    BY <1>1, <1>2 DEF Tx
  <2> QED
    BY ZenonT(60), <1>1, <2>1
<1>4. commit_pc # "done" /\ commit_pc # "publish" /\ commit_pc \notin {"publish", "done"}
  BY ZenonT(60), <1>1
<1>5. phase = "parallel" /\ Len(output) = committed
  BY ZenonT(60), <1>4 DEF OutcomeInv, ParallelOutcome
<1>6. TxOwn(t)
  BY ZenonT(60) DEF OwnInv
<1>7. status[t] = "Finality" /\ Uncommitted(t) /\ tx_results[t].kind = "Ok"
  BY ZenonT(60), <1>3, <1>4, <1>6 DEF TxOwn, Uncommitted
<1> QED
  BY ZenonT(60), <1>1, <1>3, <1>5, <1>7 DEF CommitReady

\* Everything t has read is what the committed state holds.
LEMMA ReadsMatch ==
  ASSUME TypeInv, StoreInv, FinalReadsCurrent, NEW t \in Tx, CommitReady(t), TxTrace(t)
  PROVE  \A l \in ReadLocs(tx_results[t].reads) : tx_results[t].reads[l].val = store[l]
<1>1. PICK reads : reads = tx_results[t].reads /\ reads \in ReadSets
  BY ZenonT(60) DEF TypeInv, TypeOK, TxTypeOK, TxResults
<1>2. Traced(t, reads) /\ t = Len(output) /\ phase = "parallel" /\ status[t] = "Finality"
  BY ZenonT(60), <1>1 DEF TxTrace, CommitReady
<1>3. ASSUME NEW l \in ReadLocs(reads) PROVE reads[l].val = store[l]
  <2>1. PICK read : read = reads[l]
    BY ZenonT(60)
  <2>2. l \in Loc /\ read.origins \in Seq(Origin)
    BY ZenonT(60), <1>1, <2>1 DEF ReadLocs, ReadSets
  <2>3. CASE l = Ben
    <3>1. FromHistory(t, read) /\ BeneficiaryCurrent(t, read.origins)
      BY ZenonT(60), <1>1, <1>2, <1>3, <2>1, <2>3 DEF Traced, FinalReadsCurrent
    <3>2. PICK balances : Settled(balances, t) /\ balances[t] = store[Ben]
      BY ZenonT(60), <1>2 DEF StoreInv, Settled
    <3>3. read.val = balances[t]
      BY ZenonT(60), <2>2, <3>1, <3>2, BeneficiaryReadMatches
    <3> QED
      BY ZenonT(60), <2>1, <2>3, <3>2, <3>3
  <2>4. CASE l # Ben
    BY ZenonT(60), <1>1, <1>2, <1>3, <2>1, <2>4, <2>2, MemoryReadMatches DEF Traced,
       FinalReadsCurrent, StoreInv
  <2> QED
    BY ZenonT(60), <2>3, <2>4
<1> QED
  BY ZenonT(60), <1>1, <1>3

\* A committed transaction has run on the state its predecessors left.
LEMMA CommitRuns ==
  ASSUME TypeInv, StoreInv, FinalReadsCurrent, NEW t \in Tx, CommitReady(t), TxTrace(t),
         NEW vals, vals = Vals(tx_results[t].reads)
  PROVE  vals \in Readings /\ Run(t, store, vals) /\ Evm(t, vals).op = "ok"
<1>1. PICK reads : reads = tx_results[t].reads /\ reads \in ReadSets
  BY ZenonT(60) DEF TypeInv, TypeOK, TxTypeOK, TxResults
<1>2. vals \in Readings
  BY ZenonT(60), <1>1, ValsType
<1>3. Evm(t, vals).op = "ok"
  BY ZenonT(60) DEF TypeInv, ResultInv, CommitReady
<1>4. Evm(t, vals).op # "read"
  BY ZenonT(60), <1>3
<1>5. Asked(t, vals)
  BY ZenonT(60) DEF TxTrace, CommitReady
<1>6. \A l \in DOMAIN vals : vals[l] = store[l]
  BY ZenonT(60), ReadsMatch DEF Vals
<1> QED
  BY ZenonT(60), <1>2, <1>3, <1>4, <1>5, <1>6 DEF Run

\* The committed state is that after the first n transactions.
Holds(n) ==
  /\ \A l \in Loc \ {Ben} : store[l] = ValueAfter(l, n)
  /\ \E balances \in [0 .. n -> Val] : Settled(balances, n) /\ balances[n] = store[Ben]

\* What the first n transactions have left stays, and so does the state after them.
LEMMA ValueKept ==
  ASSUME TypeInv, NEW n, NEW l \in Loc, \A p \in Tx : p < n => Kept(p)
  PROVE  ValueAfter(l, n)' = ValueAfter(l, n)
<1>1. Writers(l, n)' = Writers(l, n)
  BY ZenonT(60) DEF Writers, Kept
<1>2. LatestWriter(l, n)' = LatestWriter(l, n)
  BY <1>1 DEF LatestWriter
<1>3. LatestWriter(l, n) # NoTx => LatestWriter(l, n) \in Tx /\ LatestWriter(l, n) < n
  BY ZenonT(60), LatestWriterIs DEF Writers
<1>4. PICK q : q = LatestWriter(l, n)
  BY ZenonT(60)
<1>5. q # NoTx => mv_memory'[l][q] = mv_memory[l][q]
  BY ZenonT(60), <1>3, <1>4 DEF Kept
<1> QED
  BY ZenonT(60), <1>2, <1>4, <1>5 DEF ValueAfter

\* The store still holds the first n transactions when none of them moves.
LEMMA HoldsKept ==
  ASSUME TypeInv, NEW n \in 0 .. N, \A p \in Tx : p < n => Kept(p), UNCHANGED store, Holds(n)
  PROVE  Holds(n)'
<1>1. \A l \in Loc \ {Ben} : store'[l] = ValueAfter(l, n)'
  BY ZenonT(60), ValueKept DEF Holds
<1>2. PICK balances \in [0 .. n -> Val] : Settled(balances, n) /\ balances[n] = store[Ben]
  BY ZenonT(60) DEF Holds
<1>3. \A k \in 1 .. n : history'[k - 1] = history[k - 1]
  <2>1. \A k \in 1 .. n : k - 1 \in Tx /\ k - 1 < n
    BY BlockAssumption DEF Tx
  <2> QED
    BY ZenonT(60), <2>1 DEF Kept
<1>4. Settled(balances, n)'
  BY ZenonT(60), <1>2, <1>3 DEF Settled
<1> QED
  BY ZenonT(60), <1>1, <1>2, <1>4 DEF Holds

\* The commit of t adds what t has published.
LEMMA ValueAdded ==
  ASSUME TypeInv, NEW t \in Tx, NEW l \in Loc
  PROVE  ValueAfter(l, t + 1) = IF Written(l, t) THEN mv_memory[l][t].data ELSE ValueAfter(l, t)
<1>0. t \in Nat
  BY DEF Tx
<1>1. CASE Written(l, t)
  <2>1. t \in Writers(l, t + 1) /\ \A i \in Writers(l, t + 1) : i <= t
    BY <1>0, <1>1 DEF Writers, Written, Tx
  <2>2. PICK n : n = t + 1
    BY ZenonT(60)
  <2>3. LatestWriter(l, n) = t
    BY ZenonT(60), <2>1, <2>2, LatestIs
  <2>4. t # NoTx
    BY ZenonT(60), <1>0, BlockAssumption
  <2> QED
    BY ZenonT(60), <1>1, <2>2, <2>3, <2>4 DEF ValueAfter
<1>2. CASE ~Written(l, t)
  <2>1. Writers(l, t + 1) = Writers(l, t)
    BY <1>0, <1>2 DEF Writers, Written, Tx
  <2>2. LatestWriter(l, t + 1) = LatestWriter(l, t)
    <3>1. CASE Writers(l, t) = {}
      BY ZenonT(60), <2>1, <3>1, LatestWriterIs
    <3>2. CASE Writers(l, t) # {}
      <4>1. PICK q, n : q = LatestWriter(l, t) /\ n = t + 1
        BY ZenonT(60)
      <4>2. q \in Writers(l, n) /\ \A i \in Writers(l, n) : i <= q
        BY ZenonT(60), <2>1, <3>2, <4>1, LatestWriterIs
      <4> QED
        BY ZenonT(60), <4>1, <4>2, LatestIs
    <3> QED
      BY ZenonT(60), <3>1, <3>2
  <2> QED
    BY ZenonT(60), <1>2, <2>2 DEF ValueAfter
<1> QED
  BY ZenonT(60), <1>1, <1>2

\* One balance more.
LEMMA BalanceAdded ==
  ASSUME NEW n \in Nat, NEW balances \in [0 .. n -> Val], NEW v \in Val,
         Settled(balances, n), v = Effected(balances[n], history[n].value)
  PROVE  \E more \in [0 .. n + 1 -> Val] : Settled(more, n + 1) /\ more[n + 1] = v
<1>1. PICK more : more = [k \in 0 .. n + 1 |-> IF k = n + 1 THEN v ELSE balances[k]]
  BY ZenonT(60)
<1>2. /\ more \in [0 .. n + 1 -> Val] /\ more[n + 1] = v
      /\ \A k \in 0 .. n : more[k] = balances[k]
  BY <1>1
<1>3. more[0] = InitStore[Ben]
  <2>1. 0 \in 0 .. n
    OBVIOUS
  <2> QED
    BY ZenonT(60), <1>2, <2>1 DEF Settled
<1>4. ASSUME NEW k \in 1 .. n + 1
      PROVE  more[k] = Effected(more[k - 1], history[k - 1].value)
  <2>1. CASE k = n + 1
    <3>1. k - 1 = n /\ n \in 0 .. n
      BY <2>1
    <3> QED
      BY ZenonT(60), <1>2, <2>1, <3>1
  <2>2. CASE k # n + 1
    <3>1. k \in 1 .. n /\ k \in 0 .. n /\ k - 1 \in 0 .. n
      BY <2>2
    <3>2. balances[k] = Effected(balances[k - 1], history[k - 1].value)
      BY ZenonT(60), <3>1 DEF Settled
    <3> QED
      BY ZenonT(60), <1>2, <3>1, <3>2
  <2> QED
    BY ZenonT(60), <2>1, <2>2
<1>5. Settled(more, n + 1)
  BY ZenonT(60), <1>3, <1>4 DEF Settled
<1> QED
  BY ZenonT(60), <1>2, <1>5

\* OrderedCommitter::commit: the state after t is what t has published on top of it.
LEMMA HoldsNext ==
  ASSUME TypeInv, NEW t \in Tx, Exact(t), NEW vals \in Readings, vals = Vals(tx_results[t].reads),
         Run(t, store, vals), Evm(t, vals).op = "ok", Holds(t),
         store' = Apply(store, Changes(t, vals), DeferredReward(t, vals)),
         store' \in [Loc -> Val], UNCHANGED <<mv_memory, history, status, incarnation>>
  PROVE  Holds(t + 1)'
<1>s. store \in [Loc -> Val] /\ t \in Nat /\ Ben \in Loc
  <2>1. t \in Nat
    BY DEF Tx
  <2> QED
    BY ZenonT(60), <2>1, BlockAssumption DEF TypeInv, TypeOK, BlockTypeOK
<1>u. mv_memory' = mv_memory /\ history' = history /\ status' = status
      /\ incarnation' = incarnation
  BY ZenonT(60)
<1>1. ASSUME NEW l \in Loc \ {Ben} PROVE store'[l] = ValueAfter(l, t + 1)'
  <2>1. PICK changes : changes = Changes(t, vals)
    BY ZenonT(60)
  <2>2. store'[l] = IF l \in DOMAIN changes THEN changes[l] ELSE store[l]
    BY ZenonT(60), <2>1 DEF Apply
  <2>3. ValueAfter(l, t + 1)' = ValueAfter(l, t + 1)
    BY ZenonT(60), <1>u, ValueKept DEF Kept
  <2>4. ValueAfter(l, t + 1) = IF Written(l, t) THEN mv_memory[l][t].data ELSE ValueAfter(l, t)
    BY ZenonT(60), ValueAdded
  <2>5. store[l] = ValueAfter(l, t)
    BY ZenonT(60) DEF Holds
  <2>6. CASE l \in Published(t, vals)
    BY ZenonT(60), <2>1, <2>6, <2>2, <2>3, <2>4 DEF Exact, Published
  <2>7. CASE l \notin Published(t, vals)
    BY ZenonT(60), <2>7, <2>1, <2>2, <2>3, <2>4, <2>5 DEF Exact, Published, Run
  <2> QED
    BY ZenonT(60), <2>6, <2>7
<1>2. PICK balances \in [0 .. t -> Val] : Settled(balances, t) /\ balances[t] = store[Ben]
  BY ZenonT(60) DEF Holds
<1>3. PICK v : v = store'[Ben]
  BY ZenonT(60)
<1>4. v = Effected(balances[t], history[t].value)
  BY ZenonT(60), <1>3, <1>s, EffectApplies, <1>2 DEF Exact
<1>5. v \in Val
  BY ZenonT(60), <1>3, <1>s
<1>6. PICK more \in [0 .. t + 1 -> Val] : Settled(more, t + 1) /\ more[t + 1] = v
  BY ZenonT(60), <1>2, <1>4, <1>5, <1>s, BalanceAdded
<1>7. Settled(more, t + 1)'
  BY ZenonT(60), <1>6, <1>u DEF Settled
<1> QED
  BY ZenonT(60), <1>1, <1>3, <1>6, <1>7 DEF Holds

\* A worker that has left takes no step.
LEMMA DoneStays ==
  ASSUME NEW w \in Workers, WorkerStep(w)
  PROVE  pc[w] # "done"
<1>1. CASE ScheduleStep(w)
  BY ZenonT(60), <1>1 DEF ScheduleStep, WorkerExit, ClaimValidation, TakeValidation,
     AdvanceExecution, ClaimExecution, TakeExecution, ReleaseDependents
<1>2. CASE ExecuteStep(w)
  BY ZenonT(60), <1>2 DEF ExecuteStep, BeginExecution, ReadMemory, ReadBacking,
     ReadBeneficiary, PublishWrite, PruneWrite, RecordExecution, MarkFailedWrite,
     RecordFailure, Depend, HoldKeyTx, FinishExecution, StampExecution, RewindExecution
<1>3. CASE ValidateStep(w)
  BY ZenonT(60), <1>3 DEF ValidateStep, BeginValidation, ScanMemory, ScanBeneficiary, Confirm,
     MarkConflictWrite, InvalidateHistory, StampConflict, RewindConflict, AddConflict
<1> QED
  BY ZenonT(60), <1>1, <1>2, <1>3 DEF WorkerStep

\* What the steps of the threads other than a commit leave alone.
LEMMA BlockFrame ==
  ASSUME [Next]_vars, ~CommitTx, ~CallerStep
  PROVE  UNCHANGED <<store, output, results, error, phase>>
<1>1. ASSUME NEW w \in Workers, WorkerStep(w)
      PROVE  UNCHANGED <<store, output, results, error, phase>>
  <2>1. CASE ScheduleStep(w)
    BY ZenonT(60), <2>1 DEF ScheduleStep, WorkerExit, ClaimValidation, TakeValidation,
       AdvanceExecution, ClaimExecution, TakeExecution, ReleaseDependents
  <2>2. CASE ExecuteStep(w)
    BY ZenonT(60), <2>2 DEF ExecuteStep, BeginExecution, ReadMemory, ReadBacking,
       ReadBeneficiary, PublishWrite, PruneWrite, RecordExecution, MarkFailedWrite,
       RecordFailure, Depend, HoldKeyTx, FinishExecution, StampExecution, RewindExecution
  <2>3. CASE ValidateStep(w)
    BY ZenonT(60), <2>3 DEF ValidateStep, BeginValidation, ScanMemory, ScanBeneficiary,
       Confirm, MarkConflictWrite, InvalidateHistory, StampConflict, RewindConflict, AddConflict
  <2> QED
    BY ZenonT(60), <1>1, <2>1, <2>2, <2>3 DEF WorkerStep
<1>2. CASE FinalityStep
  BY ZenonT(60), <1>2 DEF FinalityStep, FinalityCheck, FinalityLock, FinalityPublish
<1>3. CASE CommitStep
  BY ZenonT(60), <1>3 DEF CommitStep, CommitCheck, PublishCommit, ReleaseSuccessor
<1>4. CASE UNCHANGED vars
  BY ZenonT(60), <1>4 DEF vars
<1> QED
  BY ZenonT(60), <1>1, <1>2, <1>3, <1>4 DEF Next, Finished

\* The outcomes are those of final transactions.
LEMMA OutcomesFinal ==
  ASSUME TypeInv, OwnInv, OutcomeInv, phase = "parallel"
  PROVE  /\ Len(output) \in 0 .. N
         /\ \A p \in Tx : p < Len(output) => status[p] = "Finality"
<1>1. /\ committed \in 0 .. N /\ finality \in 0 .. N /\ N \in Nat /\ committed <= finality
      /\ commit_pc = "publish" => committed < finality
      /\ Len(output) = IF commit_pc = "publish" THEN committed + 1 ELSE committed
  BY ZenonT(60), BlockAssumption DEF TypeInv, TypeOK, CtxTypeOK, CursorInv, OutcomeInv,
     ParallelOutcome
<1>2. Len(output) \in 0 .. N /\ Len(output) <= finality
  BY <1>1
<1>3. \A p \in Tx : p < Len(output) => p < finality
  BY <1>1, <1>2 DEF Tx
<1> QED
  BY ZenonT(60), <1>2, <1>3 DEF OwnInv, TxOwn

\* The store's invariant from what one step leaves.
LEMMA StoreNext ==
  ASSUME NEW n, phase' = "parallel" => n = Len(output') /\ Holds(n)',
         phase' # "parallel" => \A w \in Workers : pc'[w] = "done"
  PROVE  StoreInv'
BY ZenonT(60) DEF Holds, StoreInv, Settled

\* The committed state is that after the committed transactions.
LEMMA StoreKept ==
  ASSUME TypeInv, TypeInv', OwnInv, OutcomeInv, FinalReadsCurrent, StoreInv, [Next]_vars,
         \A x \in Tx : TxValue(x) /\ TxTrace(x), \A v \in Workers : WorkerValue(v)
  PROVE  StoreInv'
<1>1. CASE phase # "parallel"
  <2>1. \A w \in Workers : pc[w] = "done"
    BY ZenonT(60), <1>1 DEF StoreInv
  <2>2. pc' = pc /\ (phase' = phase \/ phase' = "done")
    <3>1. CASE \E w \in Workers : WorkerStep(w)
      BY ZenonT(60), <2>1, <3>1, DoneStays
    <3>2. CASE FinalityStep
      BY ZenonT(60), <3>2 DEF FinalityStep, FinalityCheck, FinalityLock, FinalityPublish
    <3>3. CASE CommitStep
      BY ZenonT(60), <3>3 DEF CommitStep, CommitCheck, CommitTx, PublishCommit, ReleaseSuccessor
    <3>4. CASE CallerStep
      BY ZenonT(60), <1>1, <3>4 DEF CallerStep, PostExecute, ReplayTx, ReplayEnd
    <3>5. CASE UNCHANGED vars
      BY ZenonT(60), <3>5 DEF vars
    <3> QED
      BY ZenonT(60), <3>1, <3>2, <3>3, <3>4, <3>5 DEF Next, Finished
  <2>3. phase' # "parallel"
    BY ZenonT(60), <1>1, <2>2
  <2> QED
    BY ZenonT(60), <2>1, <2>2, <2>3, StoreNext
<1>2. CASE phase = "parallel"
  <2>0. Len(output) \in 0 .. N /\ \A p \in Tx : p < Len(output) => status[p] = "Finality"
    BY ZenonT(60), <1>2, OutcomesFinal
  <2>1. PICK n \in 0 .. N : n = Len(output)
    BY ZenonT(60), <2>0
  <2>2. Holds(n)
    BY ZenonT(60), <1>2, <2>1 DEF StoreInv, Holds, Settled
  <2>3. ASSUME UNCHANGED <<store, output, phase>> PROVE StoreInv'
    BY ZenonT(60), AllMove, <2>0, <2>1, <2>2, <2>3, HoldsKept, <1>2, StoreNext DEF Moves
  <2>4. CASE CommitTx
    <3>1. CASE UNCHANGED <<store, output>>
      BY ZenonT(60), <2>4, <2>3, <3>1 DEF CommitTx
    <3>2. CASE ~UNCHANGED <<store, output>>
      <4>1. PICK t \in Tx : CommitReady(t)
        BY ZenonT(60), <2>4, CommitTakesNext
      <4>2. PICK vals : vals = Vals(tx_results[t].reads)
        BY ZenonT(60)
      <4>3. /\ store' = Apply(store, Changes(t, vals), DeferredReward(t, vals))
            /\ output' = Append(output, Executed(vals))
            /\ UNCHANGED <<mv_memory, history, status, incarnation, phase>>
        BY ZenonT(60), <2>4, <3>2, <4>1, <4>2 DEF CommitTx, StopCommit, CommitReady
      <4>4. vals \in Readings /\ Run(t, store, vals) /\ Evm(t, vals).op = "ok"
        BY ZenonT(60), <4>1, <4>2, CommitRuns
      <4>5. Exact(t) /\ t = n
        BY ZenonT(60), <2>1, <4>1 DEF TxValue, CommitReady
      <4>6. store' \in [Loc -> Val]
        BY ZenonT(60) DEF TypeInv, TypeOK, BlockTypeOK
      <4>7. Holds(t + 1)'
        BY ZenonT(60), <2>2, <4>2, <4>3, <4>4, <4>5, <4>6, HoldsNext
      <4>8. Len(output') = t + 1
        <5>1. output \in Seq(Outcomes)
          BY ZenonT(60) DEF TypeInv, TypeOK, BlockTypeOK
        <5> QED
          BY <2>1, <4>3, <4>5, <5>1
      <4> QED
        BY ZenonT(60), <1>2, <4>3, <4>7, <4>8, StoreNext
    <3> QED
      BY ZenonT(60), <3>1, <3>2
  <2>5. CASE CallerStep
    <3>1. PostExecute
      <4>1. ~ReplayTx /\ ~ReplayEnd
        BY ZenonT(60), <1>2 DEF ReplayTx, ReplayEnd
      <4> QED
        BY ZenonT(60), <2>5, <4>1 DEF CallerStep
    <3>2. AllJoined /\ pc' = pc /\ phase' \in {"done", "replay"}
      BY ZenonT(60), <3>1 DEF PostExecute
    <3>3. phase' # "parallel"
      BY ZenonT(60), <3>2
    <3> QED
      BY ZenonT(60), <3>2, <3>3, StoreNext DEF AllJoined
  <2>6. CASE ~CommitTx /\ ~CallerStep
    BY ZenonT(60), <2>3, <2>6, BlockFrame
  <2> QED
    BY ZenonT(60), <2>4, <2>5, <2>6
<1> QED
  BY ZenonT(60), <1>1, <1>2

-----------------------------------------------------------------------------
(* All steps                                                               *)

\* Nothing has been read, published or committed when the block starts.
LEMMA ValueInitially == Init => ValueInv
<1> SUFFICES ASSUME Init PROVE ValueInv
  BY ZenonT(60)
<1>1. /\ \A x \in Tx : /\ status[x] = "Initial" /\ incarnation[x] = 0 /\ tx_results[x] = NoResult
                       /\ \A l \in Loc : mv_memory[l][x].incarnation = 0
      /\ \A w \in Workers : pc[w] = "next" /\ job[w] = Idle
      /\ phase = "parallel" /\ store = InitStore /\ output = <<>>
  BY ZenonT(60) DEF Init, MemoryInit, Absent
<1>2. /\ NoResult.kind = "None" /\ NoResult.reads = NoReads
      /\ Idle.reads = NoReads /\ Idle.chain = <<>>
      /\ ReadLocs(NoReads) = {}
  BY ZenonT(60) DEF NoResult, Idle, ReadLocs, NoReads, NotRead
<1>3. ASSUME NEW x \in Tx PROVE TxValue(x) /\ TxTrace(x)
  <2>1. status[x] \notin {"Executing", "Executed", "Unconfirmed", "Validating", "Finality"}
    BY ZenonT(60), <1>1
  <2>2. TxValue(x)
    <3>1. \A l \in Loc : mv_memory[l][x].incarnation <= incarnation[x]
      BY <1>1
    <3> QED
      BY ZenonT(60), <2>1, <3>1 DEF TxValue
  <2>3. TxTrace(x)
    BY ZenonT(60), <1>2, <1>1 DEF TxTrace, Traced
  <2> QED
    BY ZenonT(60), <2>2, <2>3
<1>4. ASSUME NEW w \in Workers PROVE WorkerValue(w) /\ WorkerTrace(w)
  <2>1. pc[w] \notin {"run", "backing", "scan", "confirm"} \cup RecordedLabels
    BY ZenonT(60), <1>1 DEF RecordedLabels
  <2>2. WorkerValue(w)
    BY ZenonT(60), <2>1 DEF WorkerValue
  <2>3. DOMAIN job[w].chain = {}
    BY <1>1, <1>2
  <2>4. WorkerTrace(w)
    BY ZenonT(60), <1>1, <1>2, <2>1, <2>3 DEF WorkerTrace
  <2> QED
    BY ZenonT(60), <2>2, <2>4
<1>5. StoreInv
  <2>1. \A l \in Loc : ValueAfter(l, 0) = InitStore[l]
    <3>1. \A l \in Loc : Writers(l, 0) = {}
      BY <1>1 DEF Writers
    <3> QED
      BY ZenonT(60), <3>1 DEF ValueAfter, LatestWriter
  <2>2. PICK balances : balances = [k \in 0 .. 0 |-> InitStore[Ben]]
    BY ZenonT(60)
  <2>3. /\ balances \in [0 .. 0 -> Val] /\ balances[0] = InitStore[Ben]
        /\ 1 .. 0 = {} /\ Len(output) = 0
    BY <1>1, <2>2, BlockAssumption
  <2> QED
    BY ZenonT(60), <1>1, <2>1, <2>3 DEF StoreInv
<1> QED
  BY ZenonT(60), <1>3, <1>4, <1>5 DEF ValueInv

\* What an abort leaves when its reason is no fatal error.
LEMMA OtherAbort ==
  ASSUME NEW reason, reason.kind # "FatalEvmError", Abort(reason), FatalInv
  PROVE  FatalInv'
<1>1. abort_reason' = abort_reason \/ abort_reason' = reason
  BY ZenonT(60) DEF Abort
<1> QED
  BY ZenonT(60), <1>1 DEF FatalInv

\* A fatal error comes from an execution.
LEMMA FatalStep ==
  ASSUME TypeInv, FatalInv, [Next]_vars
  PROVE  FatalInv'
<1>k. /\ \A t : ParallelError(t).kind # "FatalEvmError" /\ CommitError(t).kind # "FatalEvmError"
      /\ FallbackSequential.kind # "FatalEvmError"
  BY ZenonT(60) DEF ParallelError, CommitError, FallbackSequential
<1>u. ASSUME UNCHANGED abort_reason PROVE FatalInv'
  BY ZenonT(60), <1>u DEF FatalInv
<1>1. ASSUME NEW w \in Workers, WorkerStep(w) PROVE FatalInv'
  <2>g. ASSUME GiveUp(w) PROVE FatalInv'
    BY ZenonT(60), <1>k, <2>g, OtherAbort DEF GiveUp
  <2>1. CASE RecordFailure(w)
    <3>1. \/ GiveUp(w) \/ UNCHANGED abort_reason
          \/ /\ pc[w] = "run" /\ Failed(w)
             /\ Abort(IF Step(w).op = "invalid" THEN FallbackSequential
                                               ELSE FatalEvmError(job[w].tx))
      BY ZenonT(60), <2>1 DEF RecordFailure
    <3>2. CASE Step(w).op = "invalid"
      BY ZenonT(60), <1>k, <1>u, <2>g, <3>1, <3>2, OtherAbort
    <3>3. CASE pc[w] = "run" /\ Step(w).op = "fatal" /\ Abort(FatalEvmError(job[w].tx))
      <4>1. PICK t : t = job[w].tx
        BY ZenonT(60)
      <4>2. t \in Tx
        BY ZenonT(60), <3>3, <4>1 DEF TypeInv, BusyInv, IdleLabels
      <4>3. PICK vals \in Readings : vals = Vals(job[w].reads)
        BY ZenonT(60), ValsType DEF TypeInv, TypeOK, ThreadTypeOK, Jobs
      <4>4. Evm(t, vals).op = "fatal"
        BY ZenonT(60), <3>3, <4>1, <4>3 DEF Step
      <4>5. FatalEvmError(t).tx = t
        BY ZenonT(60) DEF FatalEvmError
      <4>6. abort_reason' = abort_reason \/ abort_reason' = FatalEvmError(t)
        BY ZenonT(60), <3>3, <4>1 DEF Abort
      <4> QED
        BY ZenonT(60), <1>u, <4>2, <4>4, <4>5, <4>6 DEF FatalInv
    <3> QED
      BY ZenonT(60), <1>u, <2>g, <3>1, <3>2, <3>3 DEF Failed
  <2>2. CASE ScheduleStep(w)
    BY ZenonT(60), <2>2, <1>u DEF ScheduleStep, WorkerExit, ClaimValidation, TakeValidation,
       AdvanceExecution, ClaimExecution, TakeExecution, ReleaseDependents
  <2>3. CASE ExecuteStep(w) /\ ~RecordFailure(w)
    BY ZenonT(60), <2>3, <1>u, <2>g DEF ExecuteStep, BeginExecution, ReadMemory, ReadBacking,
       ReadBeneficiary, PublishWrite, PruneWrite, RecordExecution, MarkFailedWrite, Depend,
       HoldKeyTx, FinishExecution, StampExecution, RewindExecution
  <2>4. CASE ValidateStep(w)
    BY ZenonT(60), <2>4, <1>u, <2>g DEF ValidateStep, BeginValidation, ScanMemory,
       ScanBeneficiary, Confirm, MarkConflictWrite, InvalidateHistory, StampConflict,
       RewindConflict, AddConflict
  <2> QED
    BY ZenonT(60), <1>1, <2>1, <2>2, <2>3, <2>4 DEF WorkerStep
<1>2. CASE CommitTx
  BY ZenonT(60), <1>2, <1>k, <1>u, OtherAbort DEF CommitTx, StopCommit
<1>3. CASE FinalityStep \/ CallerStep \/ UNCHANGED vars \/ (CommitStep /\ ~CommitTx)
  BY ZenonT(60), <1>3, <1>u DEF FinalityStep, FinalityCheck, FinalityLock, FinalityPublish,
     CommitStep, CommitCheck, PublishCommit, ReleaseSuccessor, CallerStep, PostExecute,
     ReplayTx, ReplayEnd, vars
<1> QED
  BY ZenonT(60), <1>1, <1>2, <1>3 DEF Next, Finished

-----------------------------------------------------------------------------
(* The block in order                                                      *)

\* What a step of the block in order does: the next transaction takes effect, with an
\* outcome that says what it has read,
Executes(t, vals) ==
  /\ NonceOk(t, store) /\ Run(t, store, vals) /\ Evm(t, vals).op = "ok"
  /\ store' = Apply(store, Changes(t, vals), DeferredReward(t, vals))
  /\ output' = Append(output, Executed(vals))
  /\ UNCHANGED <<results, error>>

\* it is skipped,
Skips(t, vals) ==
  /\ Run(t, store, vals)
  /\ ~NonceOk(t, store) \/ Evm(t, vals).op = "invalid"
  /\ output' = Append(output, Skipped)
  /\ UNCHANGED <<results, error, store>>

\* or it ends the block with its error.
Fails(t) ==
  /\ \/ t \in DbFail
     \/ /\ NonceOk(t, store)
        /\ \E vals \in Readings : Run(t, store, vals) /\ Evm(t, vals).op = "fatal"
  /\ error' = t
  /\ UNCHANGED <<store, results \o output>>

InOrder ==
  \E t \in Tx :
    /\ t = Len(results \o output) /\ error = NoTx
    /\ Fails(t) \/ \E vals \in Readings : Executes(t, vals) \/ Skips(t, vals)

BlockUnchanged == UNCHANGED <<store, results \o output, error>>

\* post_execute returns the error of the first transaction without an outcome.
FatalReturned ==
  /\ PostExecute /\ abort_reason.kind = "FatalEvmError" /\ error = NoTx
  /\ error' = abort_reason.tx /\ error' = Len(results \o output)
  /\ UNCHANGED <<store, results \o output>>

\* PostExecute hands the outcomes over.
LEMMA PostExecuteInOrder ==
  ASSUME TypeInv, OutcomeInv, OutcomeInv', PostExecute
  PROVE  BlockUnchanged \/ FatalReturned
<1>1. /\ phase = "parallel" /\ results' = output /\ output' = <<>> /\ store' = store
      /\ results = <<>>
  BY ZenonT(60) DEF PostExecute, OutcomeInv, ParallelOutcome
<1>2. results' \o output' = results \o output /\ Len(results') = Len(results \o output)
  <2>1. output \in Seq(Outcomes)
    BY ZenonT(60) DEF TypeInv, TypeOK, BlockTypeOK
  <2>2. output \o <<>> = output /\ <<>> \o output = output
    BY <2>1
  <2> QED
    BY ZenonT(60), <1>1, <2>2
<1>3. CASE error' = error
  BY ZenonT(60), <1>1, <1>2, <1>3 DEF BlockUnchanged
<1>4. CASE error' # error
  <2>1. /\ error = NoTx /\ abort_reason.kind = "FatalEvmError" /\ error' = abort_reason.tx
        /\ phase' = "done"
    BY ZenonT(60), <1>4 DEF PostExecute
  <2>2. error' = Len(results')
    BY ZenonT(60), <1>4, <2>1 DEF OutcomeInv, CompleteOrFailed
  <2> QED
    BY ZenonT(60), <1>1, <1>2, <2>1, <2>2 DEF FatalReturned
<1> QED
  BY ZenonT(60), <1>3, <1>4

\* One transaction of the sequential suffix.
LEMMA ReplayInOrder ==
  ASSUME TypeInv, ReplayTx
  PROVE  InOrder
<1>0. results \in Seq(Outcomes) /\ output \in Seq(Outcomes)
  BY ZenonT(60) DEF TypeInv, TypeOK, BlockTypeOK
<1>1. Len(results \o output) = Replayed /\ Replayed \in Nat
  BY <1>0 DEF Replayed
<1>2. PICK t \in Tx : t = Replayed
  <2>1. Replayed < N
    BY ZenonT(60) DEF ReplayTx
  <2> QED
    BY <1>1, <2>1, BlockAssumption DEF Tx
<1>3. PICK vals \in Readings :
        /\ Run(t, store, vals)
        /\ \/ t \in DbFail /\ ReplayFail(t)
           \/ IF ~NonceOk(t, store) \/ Evm(t, vals).op = "invalid" THEN ReplaySkip
              ELSE IF Evm(t, vals).op = "fatal" THEN ReplayFail(t)
              ELSE ReplayOk(t, vals)
  BY ZenonT(60), <1>2 DEF ReplayTx
<1>4. UNCHANGED results /\ error = NoTx /\ t = Len(results \o output)
  BY ZenonT(60), <1>1, <1>2 DEF ReplayTx
<1>5. CASE /\ ReplayFail(t)
           /\ t \in DbFail \/ (NonceOk(t, store) /\ Evm(t, vals).op = "fatal")
  BY ZenonT(60), <1>3, <1>4, <1>5 DEF InOrder, Fails, ReplayFail
<1>6. CASE ReplaySkip /\ (~NonceOk(t, store) \/ Evm(t, vals).op = "invalid")
  BY ZenonT(60), <1>3, <1>4, <1>6 DEF InOrder, Skips, ReplaySkip
<1>7. CASE /\ ReplayOk(t, vals) /\ NonceOk(t, store)
           /\ Evm(t, vals).op # "invalid" /\ Evm(t, vals).op # "fatal"
  BY ZenonT(60), EvmAssumption, <1>3, <1>7, <1>4 DEF EvmStep, Run, InOrder, Executes, ReplayOk
<1> QED
  BY ZenonT(60), <1>3, <1>5, <1>6, <1>7

\* The commit of a transaction, or of an error in its nonce lookup.
LEMMA CommitInOrder ==
  ASSUME TypeInv, OwnInv, OutcomeInv, FinalReadsCurrent, ValueInv, CommitTx
  PROVE  InOrder \/ BlockUnchanged
<1>1. PICK t \in Tx : CommitReady(t)
  BY ZenonT(60), CommitTakesNext
<1>2. PICK vals : vals = Vals(tx_results[t].reads)
  BY ZenonT(60)
<1>3. vals \in Readings /\ Run(t, store, vals) /\ Evm(t, vals).op = "ok"
  BY ZenonT(60), <1>1, <1>2, CommitRuns DEF ValueInv
<1>4. error = NoTx /\ t = Len(results \o output)
  <2>1. results = <<>> /\ (error # NoTx => commit_pc = "done") /\ output \in Seq(Outcomes)
    BY ZenonT(60), <1>1 DEF CommitReady, OutcomeInv, ParallelOutcome, TypeInv, TypeOK, BlockTypeOK
  <2>2. commit_pc # "done"
    BY ZenonT(60), <1>1 DEF CommitReady
  <2>3. <<>> \o output = output
    BY <2>1
  <2> QED
    BY ZenonT(60), <1>1, <2>1, <2>2, <2>3 DEF CommitReady
<1>5. /\ UNCHANGED results /\ t = committed
      /\ \/ t \in DbFail /\ error' = t /\ UNCHANGED <<store, output>>
         \/ UNCHANGED <<store, output, error>>
         \/ /\ NonceOk(t, store) /\ UNCHANGED error
            /\ store' = Apply(store, Changes(t, vals), DeferredReward(t, vals))
            /\ output' = Append(output, Executed(vals))
  BY ZenonT(60), <1>1, <1>2 DEF CommitTx, StopCommit, CommitReady
<1>6. CASE t \in DbFail /\ error' = t /\ UNCHANGED <<store, output>>
  BY ZenonT(60), <1>5, <1>6, <1>4 DEF InOrder, Fails
<1>7. CASE UNCHANGED <<store, output, error>>
  BY ZenonT(60), <1>5, <1>7 DEF BlockUnchanged
<1>8. CASE /\ NonceOk(t, store) /\ UNCHANGED error
           /\ store' = Apply(store, Changes(t, vals), DeferredReward(t, vals))
           /\ output' = Append(output, Executed(vals))
  BY ZenonT(60), <1>3, <1>4, <1>5, <1>8 DEF InOrder, Executes
<1> QED
  BY ZenonT(60), <1>5, <1>6, <1>7, <1>8

\* Every step is one of the block in order, or returns the error of an execution.
LEMMA BlockStep ==
  ASSUME TypeInv, OwnInv, OutcomeInv, OutcomeInv', FinalReadsCurrent, ValueInv, [Next]_vars
  PROVE  InOrder \/ BlockUnchanged \/ FatalReturned
<1>1. CASE CommitTx
  BY ZenonT(60), <1>1, CommitInOrder
<1>2. CASE CallerStep
  <2>1. CASE PostExecute
    BY ZenonT(60), <2>1, PostExecuteInOrder
  <2>2. CASE ReplayTx
    BY ZenonT(60), <2>2, ReplayInOrder
  <2>3. CASE ReplayEnd
    <3>1. results' = results \o output /\ output' = <<>> /\ store' = store /\ error' = error
      BY ZenonT(60), <2>3 DEF ReplayEnd
    <3>2. results' \o output' = results \o output
      <4>1. results \in Seq(Outcomes) /\ output \in Seq(Outcomes)
        BY ZenonT(60) DEF TypeInv, TypeOK, BlockTypeOK
      <4>2. (results \o output) \o <<>> = results \o output
        BY <4>1
      <4> QED
        BY ZenonT(60), <3>1, <4>2
    <3> QED
      BY ZenonT(60), <3>1, <3>2 DEF BlockUnchanged
  <2> QED
    BY ZenonT(60), <1>2, <2>1, <2>2, <2>3 DEF CallerStep
<1>3. CASE ~CommitTx /\ ~CallerStep
  BY ZenonT(60), <1>3, BlockFrame DEF BlockUnchanged
<1> QED
  BY ZenonT(60), <1>1, <1>2, <1>3

\* The error of the call is that of the block, when an execution that fails has not read
\* values it could not have in block order.
LEMMA ErrorInOrder ==
  ASSUME ErrorsAreReal, TypeInv, OwnInv, OutcomeInv, OutcomeInv', FinalReadsCurrent, ValueInv,
         FatalInv, [Next]_vars
  PROVE  InOrder \/ BlockUnchanged
BY ZenonT(60), BlockStep DEF FatalReturned, FatalInv, ErrorsAreReal, InOrder, Fails

\* A block begins without outcomes.
LEMMA NoOutcomes == Init => results \o output = <<>>
<1> SUFFICES ASSUME Init PROVE results \o output = <<>>
  BY ZenonT(60)
<1>1. results = <<>> /\ output = <<>>
  BY ZenonT(60) DEF Init
<1> QED
  BY <1>1

\* One outcome more.
LEMMA OutcomeAdded ==
  ASSUME NEW r \in Seq(Outcomes), NEW s \in Seq(Outcomes), NEW o \in Outcomes
  PROVE  /\ r \o Append(s, o) = Append(r \o s, o)
         /\ Len(Append(r \o s, o)) = Len(r \o s) + 1
         /\ Append(r \o s, o)[Len(r \o s) + 1] = o
<1>1. r \o s \in Seq(Outcomes) /\ Len(r \o s) = Len(r) + Len(s)
  OBVIOUS
<1>2. r \o Append(s, o) = Append(r \o s, o)
  OBVIOUS
<1> QED
  BY <1>1, <1>2
=============================================================================
