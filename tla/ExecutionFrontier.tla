------------------------- MODULE ExecutionFrontier --------------------------
(***************************************************************************)
(* The lock-free record of which transactions have executed at least once  *)
(* (ExecutionFrontier of src/scheduler/context.rs), one atomic access per  *)
(* step.  The accesses are release stores and acquire loads, so a store to *)
(* executed may still sit in the worker's store buffer when its following  *)
(* load of frontier is answered; the buffer drains at any time, and at the *)
(* latest when the worker does a read-modify-write.                        *)
(***************************************************************************)
EXTENDS Naturals

CONSTANTS
  N,           \* num_txs
  Workers,
  StoreBuffer  \* whether a later load may overtake a store, as on x86-64

ASSUME FrontierAssumption == N \in Nat /\ StoreBuffer \in BOOLEAN

VARIABLES
  executed,  \* the flags every worker sees
  buffered,  \* buffered[w]: the stores of w that only w sees
  frontier,
  call       \* what each worker's call has read so far

frontierVars == <<executed, buffered, frontier, call>>

Index == 0 .. N - 1
End == 0 .. N

\* pc is the next access of the call; index the argument of publish; start
\* and end the locals of advance; asked the first transaction that had not
\* executed when current() was called, result what current() answered.
Calls == [op : {"publish", "current"},
          pc : {"idle", "load", "store", "reload", "test", "scan", "max", "answer"},
          index : End, start : End, end : End, asked : End, result : End]
NewCall(op, pc, index, asked) ==
  [op |-> op, pc |-> pc, index |-> index, start |-> 0, end |-> 0, asked |-> asked, result |-> 0]

FrontierInit ==
  /\ executed = [i \in Index |-> FALSE]
  /\ buffered = [w \in Workers |-> {}]
  /\ frontier = 0
  /\ call = [w \in Workers |-> NewCall("current", "idle", 0, 0)]

\* A worker sees its own stores at once.
Sees(w, i) == executed[i] \/ i \in buffered[w]

\* The first transaction that has not executed, or N.
IsGap(g) == (\A i \in 0 .. g - 1 : executed[i]) /\ (g < N => ~executed[g])

Goto(w, pc) == call' = [call EXCEPT ![w].pc = pc]

-----------------------------------------------------------------------------
\* The store buffer of a worker drains.
Flush(w) ==
  /\ buffered[w] # {}
  /\ executed' = [i \in Index |-> Sees(w, i)]
  /\ buffered' = [buffered EXCEPT ![w] = {}]
  /\ UNCHANGED <<frontier, call>>

\* A worker that has finished executing transaction i enters publish(i); an
\* index is held by one worker at a time and published again by every later
\* incarnation.
CallPublish(w, i) ==
  /\ call[w].pc = "idle"
  /\ \A v \in Workers : call[v].pc # "idle" /\ call[v].op = "publish" => call[v].index # i
  /\ call' = [call EXCEPT ![w] = NewCall("publish", "load", i, 0)]
  /\ UNCHANGED <<executed, buffered, frontier>>

\* publish: the first load of frontier, and the early return.
PublishLoad(w) ==
  /\ call[w].pc = "load" /\ call[w].op = "publish"
  /\ Goto(w, IF call[w].index < frontier THEN "idle" ELSE "store")
  /\ UNCHANGED <<executed, buffered, frontier>>

PublishStore(w) ==
  /\ call[w].pc = "store"
  /\ \/ StoreBuffer /\ buffered' = [buffered EXCEPT ![w] = @ \cup {call[w].index}]
                    /\ UNCHANGED executed
     \/ ~StoreBuffer /\ executed' = [executed EXCEPT ![call[w].index] = TRUE]
                     /\ UNCHANGED buffered
  /\ Goto(w, "reload")
  /\ UNCHANGED frontier

\* publish: the second load, and the call of advance if the gap is filled.
PublishReload(w) ==
  /\ call[w].pc = "reload"
  /\ call' = [call EXCEPT
       ![w].pc = IF call[w].index = frontier THEN "scan" ELSE "idle",
       ![w].start = frontier,
       ![w].end = frontier]
  /\ UNCHANGED <<executed, buffered, frontier>>

CallCurrent(w) ==
  /\ call[w].pc = "idle"
  /\ \E g \in End :
       /\ IsGap(g)
       /\ call' = [call EXCEPT ![w] = NewCall("current", "load", 0, g)]
  /\ UNCHANGED <<executed, buffered, frontier>>

CurrentLoad(w) ==
  /\ call[w].pc = "load" /\ call[w].op = "current"
  /\ call' = [call EXCEPT ![w].pc = "test", ![w].start = frontier,
                          ![w].end = frontier, ![w].result = frontier]
  /\ UNCHANGED <<executed, buffered, frontier>>

\* Faulty variant: a reader does not help.
CurrentTestOnly(w) ==
  /\ call[w].pc = "test"
  /\ Goto(w, "idle")
  /\ UNCHANGED <<executed, buffered, frontier>>

\* current: help if the transaction at the frontier has executed.
CurrentTest(w) ==
  /\ call[w].pc = "test"
  /\ Goto(w, IF call[w].start < N /\ Sees(w, call[w].start) THEN "scan" ELSE "idle")
  /\ UNCHANGED <<executed, buffered, frontier>>

\* advance: one load of executed, the scan's end or the next fetch_max.
Scan(w) ==
  LET c == call[w] IN
  /\ c.pc = "scan"
  /\ \/ /\ c.end < N /\ Sees(w, c.end)
        /\ call' = [call EXCEPT ![w].end = c.end + 1]
     \/ /\ ~(c.end < N /\ Sees(w, c.end))
        /\ Goto(w, IF c.end # c.start THEN "max"
                   ELSE IF c.op = "current" THEN "answer" ELSE "idle")
  /\ UNCHANGED <<executed, buffered, frontier>>

\* advance: fetch_max, after which the scan goes on where the frontier is.
FetchMax(w) ==
  LET f == IF call[w].end > frontier THEN call[w].end ELSE frontier IN
  /\ call[w].pc = "max"
  /\ frontier' = f
  /\ executed' = [i \in Index |-> Sees(w, i)]
  /\ buffered' = [buffered EXCEPT ![w] = {}]
  /\ call' = [call EXCEPT ![w].pc = "scan", ![w].start = f, ![w].end = f]

\* Faulty variant: current answers the frontier it loaded before helping.
CurrentAnswerStale(w) ==
  /\ call[w].pc = "answer"
  /\ Goto(w, "idle")
  /\ UNCHANGED <<executed, buffered, frontier>>

CurrentAnswer(w) ==
  /\ call[w].pc = "answer"
  /\ call' = [call EXCEPT ![w].pc = "idle", ![w].result = frontier]
  /\ UNCHANGED <<executed, buffered, frontier>>

Step(w) ==
  \/ PublishLoad(w) \/ PublishStore(w) \/ PublishReload(w)
  \/ CurrentLoad(w) \/ CurrentTest(w) \/ CurrentAnswer(w)
  \/ Scan(w) \/ FetchMax(w)

FrontierNext == \E w \in Workers :
  \/ Step(w) \/ Flush(w) \/ CallCurrent(w)
  \/ \E i \in Index : CallPublish(w, i)

FrontierSpec == FrontierInit /\ [][FrontierNext]_frontierVars

\* Threads run, stores become visible, and the workers keep asking for the
\* frontier: next_validation_idx calls current() on every turn of a worker's
\* loop.  Nothing obliges a transaction to be published again.
FrontierFairSpec ==
  /\ FrontierSpec
  /\ \A w \in Workers :
       /\ WF_frontierVars(Step(w)) /\ WF_frontierVars(Flush(w))
       /\ SF_frontierVars(CallCurrent(w))

-----------------------------------------------------------------------------
FrontierTypeOK ==
  /\ executed \in [Index -> BOOLEAN]
  /\ buffered \in [Workers -> SUBSET Index]
  /\ frontier \in End
  /\ call \in [Workers -> Calls]

\* advance and publish: whatever workers race to move the frontier, every
\* transaction below it has executed, and so that every worker sees it.
FrontierSound == \A i \in 0 .. frontier - 1 : executed[i]

\* current(): the answer is at least the first gap there was when it was
\* called, whichever publishers were delayed between their store and their
\* fetch_max, and never beyond the frontier.
AnswerIsCurrent ==
  \A w \in Workers :
    call[w].pc = "idle" /\ call[w].op = "current" =>
      call[w].asked <= call[w].result /\ call[w].result <= frontier

\* fetch_max: no worker moves the frontier back.
FrontierMonotone == [][frontier' >= frontier]_frontierVars

\* publish and current(): when all transactions below i have executed the
\* frontier gets there, even if every publisher missed that it filled a gap.
FrontierCatchesUp ==
  \A i \in End : (\A j \in 0 .. i - 1 : executed[j]) ~> frontier >= i
=============================================================================
