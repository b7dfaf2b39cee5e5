-------------------------- MODULE CoordinatorWait ---------------------------
(***************************************************************************)
(* The wait slot of a coordinator thread (src/scheduler/wait.rs), between  *)
(* its users: the commit thread waits for the finality cursor, the         *)
(* finality thread publishes transactions in batches and notifies, and any *)
(* other role may cancel the block.  Every shared access is a step.        *)
(* Unless the stores are ordered, a release store may still be invisible   *)
(* when the storing thread's next load is answered, as on x86-64; an       *)
(* unpark, a read-modify-write, makes it visible first.                    *)
(***************************************************************************)
EXTENDS Naturals

CONSTANT BlockSize

VARIABLES
  ordered,      \* stores are visible at once, and no park_timeout gives up
  registered,   \* WaitSlot::thread is set
  token,        \* the parker's token of the commit thread
  finality,     \* the finality cursor every thread sees
  abort,        \* the abort flag every thread sees
  published,    \* the finality cursor as its owner sees it
  batch,        \* previous_finality_idx
  finalizer,    \* where the finality thread stands
  canceller,    \* where cancel() stands; "no" if nobody cancels
  committer,    \* where the commit thread stands
  commit_idx,
  round         \* which of its two predicate checks wait_while is in

finalizerVars == <<published, batch, finalizer>>
committerVars == <<committer, commit_idx, round>>
waitVars == <<ordered, registered, token, finality, abort, finalizerVars, canceller, committerVars>>

WaitInit ==
  /\ ordered \in BOOLEAN
  /\ registered = FALSE /\ token = FALSE /\ finality = 0 /\ abort = FALSE
  /\ published = 0 /\ batch = 0 /\ finalizer = "scan"
  /\ canceller = "no"
  /\ committer = "register" /\ commit_idx = 0 /\ round = 1

-----------------------------------------------------------------------------
\* WaitSlot::notify: without a registered thread nothing happens.
Notify == token' = (registered \/ token)

\* run_finality_loop: the next transaction becomes final.  The first one of
\* a batch is announced at once.
PublishFinality ==
  /\ finalizer = "scan" /\ published < BlockSize
  /\ published' = published + 1
  /\ finality' = IF ordered THEN published + 1 ELSE finality
  /\ finalizer' = IF published = batch THEN "notify" ELSE "scan"
  /\ UNCHANGED <<ordered, registered, token, abort, batch, canceller, committerVars>>

\* The unpark makes the store before it visible.
Announce == Notify /\ finality' = IF registered THEN published ELSE finality

AnnounceFirst ==
  /\ finalizer = "notify"
  /\ Announce
  /\ finalizer' = "scan"
  /\ UNCHANGED <<ordered, registered, abort, published, batch, canceller, committerVars>>

\* The loop ends at the end of the block or when it sees the abort.
FinalityLoopHead == finalizer' = IF published < BlockSize /\ ~abort THEN "scan" ELSE "done"

\* Faulty variant: the rest of a batch is not announced.
EndBatchSilently ==
  /\ finalizer = "scan" /\ (published > batch \/ abort)
  /\ batch' = published
  /\ FinalityLoopHead
  /\ UNCHANGED <<ordered, registered, token, finality, abort, published, canceller, committerVars>>

\* No further candidate: the rest of a batch is announced.  The thread's own
\* wait for a candidate is left out: one may turn up at any time.
EndBatch ==
  /\ finalizer = "scan" /\ (published > batch \/ abort)
  /\ IF published > batch + 1 THEN Announce ELSE UNCHANGED <<token, finality>>
  /\ batch' = published
  /\ FinalityLoopHead
  /\ UNCHANGED <<ordered, registered, abort, published, canceller, committerVars>>

\* cancel(): the flag first, then the notification.
StoreAbort ==
  /\ canceller = "no"
  /\ canceller' = "notify"
  /\ abort' = ordered
  /\ UNCHANGED <<ordered, registered, token, finality, finalizerVars, committerVars>>

NotifyAbort ==
  /\ canceller = "notify"
  /\ Notify
  /\ abort' = (abort \/ registered)
  /\ canceller' = "done"
  /\ UNCHANGED <<ordered, registered, finality, finalizerVars, committerVars>>

\* The stores leave the store buffers.
FlushStores ==
  /\ finality # published \/ abort # (canceller # "no")
  /\ finality' = published
  /\ abort' = (canceller # "no")
  /\ UNCHANGED <<ordered, registered, token, finalizerVars, canceller, committerVars>>

-----------------------------------------------------------------------------
(* The commit thread *)

register_current_thread ==
  /\ committer = "register"
  /\ registered' = TRUE
  /\ committer' = "loop"
  /\ UNCHANGED <<ordered, token, finality, abort, finalizerVars, canceller, commit_idx, round>>

\* run_commit_loop: while !is_aborted() && commit_idx < block_size.
CommitLoopHead ==
  /\ committer = "loop"
  /\ committer' = IF abort \/ commit_idx = BlockSize THEN "done" ELSE "commit"
  /\ UNCHANGED <<ordered, registered, token, finality, abort, finalizerVars, canceller,
                 commit_idx, round>>

\* The inner loop commits what is final; a turn without progress waits.
CommitNext ==
  /\ committer \in {"commit", "progressed"}
  /\ \/ /\ commit_idx < finality
        /\ commit_idx' = commit_idx + 1
        /\ committer' = "progressed"
        /\ UNCHANGED round
     \/ /\ commit_idx >= finality
        /\ committer' = IF committer = "commit" THEN "abort?" ELSE "loop"
        /\ round' = 1
        /\ UNCHANGED commit_idx
  /\ UNCHANGED <<ordered, registered, token, finality, abort, finalizerVars, canceller>>

\* wait_while evaluates blocked(), one load after the other, once before and
\* once after its yield.
CheckAbort ==
  /\ committer = "abort?"
  /\ committer' = IF abort THEN "loop" ELSE "finality?"
  /\ UNCHANGED <<ordered, registered, token, finality, abort, finalizerVars, canceller,
                 commit_idx, round>>

CheckFinality ==
  /\ committer = "finality?"
  /\ committer' = IF commit_idx < finality THEN "loop"
                  ELSE IF round = 1 THEN "abort?" ELSE "parked"
  /\ round' = 2
  /\ UNCHANGED <<ordered, registered, token, finality, abort, finalizerVars, canceller, commit_idx>>

\* park_timeout returns because of a token, which it consumes.
Unparked ==
  /\ committer = "parked" /\ token
  /\ token' = FALSE
  /\ committer' = "loop"
  /\ UNCHANGED <<ordered, registered, finality, abort, finalizerVars, canceller, commit_idx, round>>

\* Faulty variant: a timeout parks again instead of looking at the cursor.
ParkAgain == committer = "parked" /\ ~token /\ ~ordered /\ UNCHANGED waitVars

\* park_timeout gives up.
TimedOut ==
  /\ committer = "parked" /\ ~token /\ ~ordered
  /\ committer' = "loop"
  /\ UNCHANGED <<ordered, registered, token, finality, abort, finalizerVars, canceller,
                 commit_idx, round>>

Finished == finalizer = "done" /\ committer = "done" /\ UNCHANGED waitVars

Commit ==
  \/ register_current_thread \/ CommitLoopHead \/ CommitNext
  \/ CheckAbort \/ CheckFinality \/ Unparked \/ TimedOut
Finality == PublishFinality \/ AnnounceFirst \/ EndBatch

WaitNext == Commit \/ Finality \/ StoreAbort \/ NotifyAbort \/ FlushStores \/ Finished

WaitSpec == WaitInit /\ [][WaitNext]_waitVars

\* Threads run, parked ones time out if they can, stores become visible, and
\* a started cancel() is finished.  Nobody has to cancel.
WaitFairSpec ==
  /\ WaitSpec
  /\ WF_waitVars(Commit) /\ WF_waitVars(Finality)
  /\ WF_waitVars(NotifyAbort) /\ WF_waitVars(FlushStores)

-----------------------------------------------------------------------------
\* notify and wait_while: when the commit thread sleeps although it has work
\* or is cancelled, its token is set or a notification is still to come: a
\* batch that is not closed, or a cancel() under way.  Notifications that
\* precede the registration and those between the second check and the park
\* are not lost, so with ordered stores no sleep lasts for the timeout.
NeverSleepsOnWork ==
  ordered /\ committer = "parked" /\ (abort \/ commit_idx < finality) =>
    token \/ finalizer = "notify" \/ published > batch + 1 \/ canceller = "notify"

\* wait_while, with stores that become visible after the notification as well:
\* what is final is committed, unless the block is cancelled, and cancel() ends
\* the commit thread.
CommitCatchesUp ==
  /\ \A k \in 1 .. BlockSize : published >= k ~> commit_idx >= k \/ canceller # "no"
  /\ canceller # "no" ~> committer = "done"
=============================================================================
