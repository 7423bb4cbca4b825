---------------------------- MODULE AnalysisRun ----------------------------
(***************************************************************************)
(* One analysis run: its database row, its review requests, its report,    *)
(* its LangGraph thread, the Dramatiq queue that drives it, the workers    *)
(* that execute it under a Postgres advisory lock, and the API handlers    *)
(* that post, cancel, retry, review and resume it.                         *)
(*                                                                         *)
(* A worker executes the twelve nodes of the graph one after the other.    *)
(* Each node is three steps, which other actors interleave: read the row,  *)
(* commit the node's start (or skip the node of a cancelled run), do the   *)
(* work and commit its end.  What a node computes is abstracted: it ends   *)
(* well, fails, or (review_gate) pauses the thread for a human.            *)
(***************************************************************************)
EXTENDS Naturals, Sequences, FiniteSets, Bags, BagsExt

CONSTANTS
  Workers,    \* Dramatiq worker threads
  Nobody,     \* holder of a free advisory lock
  DeadSession,\* holder of a lock whose worker died before Postgres noticed
  MaxPosts,   \* bound: messages the API enqueues
  MaxDeaths,  \* bound: worker crashes and time limits hit
  MaxEvents   \* bound: both of them together

ASSUME HolderAssumption ==
  /\ Nobody \notin Workers
  /\ DeadSession \notin Workers
  /\ Nobody # DeadSession

ASSUME BoundAssumption ==
  MaxPosts \in Nat /\ MaxDeaths \in Nat /\ MaxEvents \in Nat

VARIABLES
  status,     \* analysis_runs.status; "absent" before the first POST
  needsReview,\* analysis_runs.requires_human_review
  failure,    \* analysis_runs.failure_code, by whether retrying can help
  beat,       \* last_heartbeat_at, against the stale-run threshold
  reviews,    \* analysis_review_requests in creation order
  report,     \* the run's analysis_reports row
  thread,     \* the LangGraph checkpoint of the run's thread
  queue,      \* messages Redis will deliver (a bag)
  holder,     \* who holds the run's advisory lock
  worker,     \* each worker thread's local state
  cancelling, \* a cancel handler has read a cancellable row and will commit
  posts, deaths  \* how much of each bound is used

row     == <<status, needsReview, failure, beat>>
budgets == <<posts, deaths>>
vars    == <<status, needsReview, failure, beat, reviews, report, thread, queue,
             holder, worker, cancelling, posts, deaths>>

-----------------------------------------------------------------------------
(* The graph. *)

WorkflowNodes ==
  <<"validate_analysis_request", "ensure_filings_available",
    "ensure_filings_processed", "run_disclosure_comparison",
    "extract_financial_claims", "verify_financial_claims",
    "analyze_contradictions", "validate_evidence", "prioritize_findings",
    "review_gate", "generate_report", "finalize_analysis">>

NodeStatus ==
  <<"validating", "preparing_filings", "processing_filings",
    "comparing_disclosures", "extracting_claims", "verifying_claims",
    "analyzing_contradictions", "validating_evidence", "validating_evidence",
    "awaiting_human_review", "generating_report", "completed">>

Comparison     == 4
ExtractClaims  == 5
Prioritize     == 9
ReviewGate     == 10
GenerateReport == 11
Finalize       == 12
End            == 13

Completed  == {"completed", "completed_with_warnings"}
Terminal   == Completed \cup {"failed", "cancelled"}
Statuses   == {"queued"} \cup {NodeStatus[n] : n \in 1..12} \cup Terminal
StaleEligible == Statuses \ (Terminal \cup {"awaiting_human_review"})

(***************************************************************************)
(* The channels of the graph state that outlive a node.  "verdict" is the  *)
(* review whose decision the review_result channel carries, "asked" the    *)
(* request the last interrupt raised; 0 is none.  A new input restarts the *)
(* thread at its first node and keeps the other channels.                  *)
(***************************************************************************)
Channels == [next: 1..End, needs: BOOLEAN, verdict: Nat, asked: Nat]
NewThread == [next |-> 1, needs |-> FALSE, verdict |-> 0, asked |-> 0]

NoReport == [needs |-> FALSE, verdict |-> 0, asked |-> 0, written |-> FALSE]

(* A run message, or the message resuming from review number "review". *)
Messages  == [kind: {"run", "resume"}, review: Nat, left: Nat]
ActorRetries == 1
RunMessage == [kind |-> "run", review |-> 0, left |-> ActorRetries]
ResumeMessage(r) == [kind |-> "resume", review |-> r, left |-> ActorRetries]

WorkerStates == [pc: {"idle", "loaded", "ready", "starting", "working", "done", "raised"},
                 msg: Messages, seen: Statuses \cup {"absent"},
                 state: Channels, answer: Nat]
IdleWorker == [pc |-> "idle", msg |-> RunMessage, seen |-> "absent",
               state |-> NewThread, answer |-> 0]

Init ==
  /\ status = "absent" /\ needsReview = FALSE /\ failure = "none" /\ beat = "fresh"
  /\ reviews = <<>> /\ report = NoReport /\ thread = NewThread
  /\ queue = EmptyBag
  /\ holder = Nobody
  /\ worker = [w \in Workers |-> IdleWorker]
  /\ cancelling = FALSE
  /\ posts = 0 /\ deaths = 0

LatestDecided == reviews # <<>> /\ reviews[Len(reviews)] = "decided"
HasPending    == reviews # <<>> /\ reviews[Len(reviews)] = "pending"

(* create_review_request returns the pending request if there is one. *)
WithPendingRequest == IF HasPending THEN reviews ELSE Append(reviews, "pending")

StaleOnceBeaten ==   \* mutant: a run that never had a heartbeat is not stale
  status \in StaleEligible \ {"queued"} /\ beat = "stale"

IsStale == status \in StaleEligible /\ beat = "stale"

Send(m) == queue' = BagAdd(queue, m)

MayPost == posts < MaxPosts /\ posts + deaths < MaxEvents
MayDie  == deaths < MaxDeaths /\ posts + deaths < MaxEvents

-----------------------------------------------------------------------------
(* The API handlers.  Each enqueued message counts as a post. *)

(***************************************************************************)
(* POST /analyses creates the row if there is none, commits, and enqueues  *)
(* a run message for new and existing rows alike.  The row survives when   *)
(* the broker cannot be reached after the commit.                          *)
(***************************************************************************)
Post ==
  /\ MayPost
  /\ posts' = posts + 1
  /\ \/ Send(RunMessage)
     \/ UNCHANGED queue
  /\ IF status = "absent"
     THEN status' = "queued" /\ beat' = "fresh"
     ELSE UNCHANGED <<status, beat>>
  /\ UNCHANGED <<needsReview, failure, reviews, report, thread, holder, worker,
                 cancelling, deaths>>

(* POST /retry of a failed run: only the failure is looked at. *)
RetryFailed ==
  /\ MayPost
  /\ status = "failed" /\ failure = "retryable"
  /\ Send(RunMessage)
  /\ posts' = posts + 1
  /\ UNCHANGED <<row, reviews, report, thread, holder, worker, cancelling, deaths>>

(* POST /retry of a run whose heartbeat stopped: its lock must be free. *)
RetryStale ==
  /\ MayPost
  /\ IsStale /\ holder = Nobody
  /\ Send(RunMessage)
  /\ posts' = posts + 1
  /\ UNCHANGED <<row, reviews, report, thread, holder, worker, cancelling, deaths>>

(* POST /resume: awaiting review, and the latest request has its outcome. *)
RequestResume ==
  /\ MayPost
  /\ status = "awaiting_human_review" /\ LatestDecided
  /\ Send(ResumeMessage(Len(reviews)))
  /\ posts' = posts + 1
  /\ UNCHANGED <<row, reviews, report, thread, holder, worker, cancelling, deaths>>

(* POST /review decides the pending request, whatever the run's status. *)
SubmitReview ==
  /\ HasPending
  /\ reviews' = [reviews EXCEPT ![Len(reviews)] = "decided"]
  /\ UNCHANGED <<row, report, thread, queue, holder, worker, cancelling, budgets>>

(***************************************************************************)
(* POST /cancel reads the row, does nothing to a terminal run, and commits *)
(* "cancelled" otherwise: two steps, with no lock between them.            *)
(***************************************************************************)
ReadForCancel ==
  /\ ~cancelling
  /\ status \notin Terminal \cup {"absent"}
  /\ cancelling' = TRUE
  /\ UNCHANGED <<row, reviews, report, thread, queue, holder, worker, budgets>>

CommitCancel ==
  /\ cancelling
  /\ status' = "cancelled" /\ beat' = "fresh"
  /\ cancelling' = FALSE
  /\ UNCHANGED <<needsReview, failure, reviews, report, thread, queue, holder,
                 worker, budgets>>

-----------------------------------------------------------------------------
(* A worker takes a message, and keeps it only if it gets the run's lock. *)

ReceiveWithoutLock(w) ==   \* mutant: pg_try_advisory_lock's result ignored
  /\ worker[w].pc = "idle"
  /\ \E m \in BagToSet(queue) :
       /\ queue' = BagRemove(queue, m)
       /\ holder' = w
       /\ worker' = [worker EXCEPT ![w].pc = "loaded", ![w].msg = m]
  /\ UNCHANGED <<row, reviews, report, thread, cancelling, budgets>>

Receive(w) ==
  /\ worker[w].pc = "idle"
  /\ \E m \in BagToSet(queue) :
       /\ queue' = BagRemove(queue, m)
       /\ IF holder = Nobody
          THEN /\ holder' = w
               /\ worker' = [worker EXCEPT ![w].pc = "loaded", ![w].msg = m]
          ELSE UNCHANGED <<holder, worker>>   \* acknowledged, not executed
  /\ UNCHANGED <<row, reviews, report, thread, cancelling, budgets>>

(* run_analysis: a new input restarts the thread; the row it loaded is the *)
(* one its first node will look at.                                        *)
LoadRun(w) ==
  LET restarted == [thread EXCEPT !.next = 1] IN
  /\ worker[w].pc = "loaded" /\ worker[w].msg.kind = "run"
  /\ worker' = [worker EXCEPT ![w].pc = "starting", ![w].seen = status,
                              ![w].state = restarted, ![w].answer = 0]
  /\ UNCHANGED <<row, reviews, report, thread, queue, holder, cancelling, budgets>>

ResumeAllowedByAnyReview(r) ==   \* mutant: the latest-review check dropped
  /\ r \in DOMAIN reviews /\ reviews[r] = "decided"
  /\ status = "awaiting_human_review"

ResumeAllowed(r) ==
  /\ Len(reviews) = r
  /\ LatestDecided
  /\ status = "awaiting_human_review"

(* resume_analysis: continues the thread where it stopped, with the answer. *)
LoadResume(w) ==
  /\ worker[w].pc = "loaded" /\ worker[w].msg.kind = "resume"
  /\ ResumeAllowed(worker[w].msg.review)
  /\ worker' = [worker EXCEPT ![w].pc = IF thread.next = End THEN "done" ELSE "starting",
                              ![w].seen = status, ![w].state = thread,
                              ![w].answer = worker[w].msg.review]
  /\ UNCHANGED <<row, reviews, report, thread, queue, holder, cancelling, budgets>>

RefuseResume(w) ==
  /\ worker[w].pc = "loaded" /\ worker[w].msg.kind = "resume"
  /\ ~ResumeAllowed(worker[w].msg.review)
  /\ worker' = [worker EXCEPT ![w].pc = "raised"]
  /\ UNCHANGED <<row, reviews, report, thread, queue, holder, cancelling, budgets>>

-----------------------------------------------------------------------------
(* The nodes. *)

AtNode(w, n) == worker[w].pc = "working" /\ worker[w].state.next = n

(***************************************************************************)
(* A superstep ends: w's channels become c.  LangGraph writes that          *)
(* checkpoint while the next node runs and the one before it is there by    *)
(* now; Saved says which of the two an end of the invocation leaves behind. *)
(* The answer of a resume is only there for the node resumed.               *)
(***************************************************************************)
Advance(w, c, pc) ==
  /\ thread' = worker[w].state
  /\ worker' = [worker EXCEPT ![w].state = c, ![w].pc = pc, ![w].answer = 0]

Saved(w) ==
  {thread} \cup (IF worker[w].pc \in {"loaded", "raised"} THEN {} ELSE {worker[w].state})

ReadRow(w) ==
  /\ worker[w].pc = "ready"
  /\ worker' = [worker EXCEPT ![w].pc = "starting", ![w].seen = status]
  /\ UNCHANGED <<row, reviews, report, thread, queue, holder, cancelling, budgets>>

StartCancelledNode(w) ==   \* mutant: the cancelled check dropped
  /\ worker[w].pc = "starting"
  /\ status' = NodeStatus[worker[w].state.next]
  /\ failure' = "none" /\ beat' = "fresh"
  /\ worker' = [worker EXCEPT ![w].pc = "working", ![w].seen = "absent"]
  /\ UNCHANGED <<needsReview, reviews, report, thread, queue, holder, cancelling, budgets>>

(***************************************************************************)
(* The node commits its start.  The ORM writes the columns that differ     *)
(* from the row it read: a status it need not change is not written.       *)
(***************************************************************************)
StartNode(w) ==
  LET new == NodeStatus[worker[w].state.next] IN
  /\ worker[w].pc = "starting" /\ worker[w].seen # "cancelled"
  /\ status' = IF worker[w].seen = new THEN status ELSE new
  /\ failure' = "none" /\ beat' = "fresh"
  /\ worker' = [worker EXCEPT ![w].pc = "working", ![w].seen = "absent"]
  /\ UNCHANGED <<needsReview, reviews, report, thread, queue, holder, cancelling, budgets>>

(* A node of a cancelled run does nothing; skipping review_gate ends the graph. *)
SkipNode(w) ==
  LET s == worker[w].state
      n == IF s.next = ReviewGate THEN End ELSE s.next + 1 IN
  /\ worker[w].pc = "starting" /\ worker[w].seen = "cancelled"
  /\ Advance(w, [s EXCEPT !.next = n], IF n = End THEN "done" ELSE "ready")
  /\ UNCHANGED <<row, reviews, report, queue, holder, cancelling, budgets>>

(* The nodes whose work leaves the run's row alone. *)
FinishNode(w) ==
  /\ \E n \in 1..8 \ {Comparison} :
       /\ AtNode(w, n)
       /\ Advance(w, [worker[w].state EXCEPT !.next = n + 1], "ready")
  /\ UNCHANGED <<row, reviews, report, queue, holder, cancelling, budgets>>

(* The comparison node writes its status again at the end of its work. *)
FinishComparison(w) ==
  /\ AtNode(w, Comparison)
  /\ status' = "comparing_disclosures" /\ failure' = "none" /\ beat' = "fresh"
  /\ Advance(w, [worker[w].state EXCEPT !.next = ExtractClaims], "ready")
  /\ UNCHANGED <<needsReview, reviews, report, queue, holder, cancelling, budgets>>

(* The findings decide whether a human must review. *)
FinishPrioritize(w) ==
  /\ AtNode(w, Prioritize)
  /\ status' = "validating_evidence" /\ failure' = "none" /\ beat' = "fresh"
  /\ \E needed \in BOOLEAN :
       /\ needsReview' = needed
       /\ Advance(w, [worker[w].state EXCEPT !.next = ReviewGate, !.needs = needed], "ready")
  /\ UNCHANGED <<reviews, report, queue, holder, cancelling, budgets>>

PassGateToFinalize(w) ==   \* mutant: the route names the wrong node
  /\ AtNode(w, ReviewGate) /\ ~worker[w].state.needs
  /\ Advance(w, [worker[w].state EXCEPT !.next = Finalize], "ready")
  /\ UNCHANGED <<row, reviews, report, queue, holder, cancelling, budgets>>

PassGate(w) ==
  /\ AtNode(w, ReviewGate) /\ ~worker[w].state.needs
  /\ Advance(w, [worker[w].state EXCEPT !.next = GenerateReport], "ready")
  /\ UNCHANGED <<row, reviews, report, queue, holder, cancelling, budgets>>

(* The gate commits a pending request, then interrupts: the thread stays   *)
(* at the gate and the invocation returns.                                 *)
Pause(w) ==
  /\ AtNode(w, ReviewGate) /\ worker[w].state.needs /\ worker[w].answer = 0
  /\ reviews' = WithPendingRequest
  /\ status' = "awaiting_human_review" /\ needsReview' = TRUE
  /\ failure' = "none" /\ beat' = "fresh"
  /\ Advance(w, [worker[w].state EXCEPT !.asked = Len(reviews')], "done")
  /\ UNCHANGED <<report, queue, holder, cancelling, budgets>>

(* Resumed, the gate runs again from its top, so it commits a request once *)
(* more before its interrupt returns the answer.                           *)
AnswerGate(w) ==
  /\ AtNode(w, ReviewGate) /\ worker[w].state.needs /\ worker[w].answer # 0
  /\ reviews' = WithPendingRequest
  /\ status' = "awaiting_human_review" /\ needsReview' = TRUE
  /\ failure' = "none" /\ beat' = "fresh"
  /\ Advance(w, [worker[w].state EXCEPT !.next = GenerateReport,
                                        !.verdict = worker[w].answer], "ready")
  /\ UNCHANGED <<report, queue, holder, cancelling, budgets>>

(* The readiness guard's review clause, as it stands before the report. *)
ReviewSettled(s) == s.needs => (s.verdict # 0 \/ LatestDecided)

WriteReport(w) ==
  LET s == worker[w].state IN
  /\ AtNode(w, GenerateReport)
  /\ ReviewSettled(s)
  /\ report' = [needs |-> s.needs, verdict |-> s.verdict, asked |-> s.asked, written |-> TRUE]
  /\ Advance(w, [s EXCEPT !.next = Finalize], "ready")
  /\ UNCHANGED <<row, reviews, queue, holder, cancelling, budgets>>

FinishRun(w) ==
  /\ AtNode(w, Finalize)
  /\ status' \in Completed
  /\ failure' = "none" /\ beat' = "fresh"
  /\ Advance(w, [worker[w].state EXCEPT !.next = End], "done")
  /\ UNCHANGED <<needsReview, reviews, report, queue, holder, cancelling, budgets>>

-----------------------------------------------------------------------------
(* How an invocation ends.  The graph's exit waits for its last checkpoint,  *)
(* whose writing may itself be what failed.                                 *)

(* Where an error can reach the actor: from reading the run to the commit   *)
(* after the graph, between two nodes and while one is skipped included.    *)
Invoked == {"loaded", "ready", "starting", "working", "done"}

(* Nothing of a raised invocation is used again but its message. *)
Raised(w) ==
  [worker EXCEPT ![w] = [IdleWorker EXCEPT !.pc = "raised", !.msg = worker[w].msg]]

RecordFailure ==
  /\ status' = "failed" /\ failure' \in {"retryable", "permanent"} /\ beat' = "fresh"
  /\ UNCHANGED needsReview

(* _invoke_graph records whatever the graph raises, whatever the row says by *)
(* then, a cancellation included.  Nothing records an error before or after  *)
(* the graph, nor one of _fail_run itself.                                   *)
FailRun(w) ==
  /\ worker[w].pc \in Invoked /\ worker[w].msg.kind = "run"
  /\ \/ worker[w].pc # "loaded" /\ RecordFailure
     \/ UNCHANGED row
  /\ worker' = Raised(w)
  /\ thread' \in Saved(w)
  /\ UNCHANGED <<reviews, report, queue, holder, cancelling, budgets>>

(* resume_analysis has no handler: the row keeps the status it had. *)
FailResume(w) ==
  /\ worker[w].pc \in Invoked /\ worker[w].msg.kind = "resume"
  /\ worker' = Raised(w)
  /\ thread' \in Saved(w)
  /\ UNCHANGED <<row, reviews, report, queue, holder, cancelling, budgets>>

StillLocked(w) == holder   \* mutant: the finally clause without its unlock

Unlocked(w) == IF holder = w THEN Nobody ELSE holder

Acknowledge(w) ==
  /\ worker[w].pc = "done"
  /\ thread' = worker[w].state
  /\ holder' = Unlocked(w)
  /\ worker' = [worker EXCEPT ![w] = IdleWorker]
  /\ UNCHANGED <<row, reviews, report, queue, cancelling, budgets>>

(* The broker enqueues a failed message again while it has retries left. *)
ReturnMessage(w) ==
  /\ worker[w].pc = "raised"
  /\ holder' = Unlocked(w)
  /\ IF worker[w].msg.left > 0
     THEN Send([worker[w].msg EXCEPT !.left = @ - 1])
     ELSE UNCHANGED queue
  /\ worker' = [worker EXCEPT ![w] = IdleWorker]
  /\ UNCHANGED <<row, reviews, report, thread, cancelling, budgets>>

(* Dramatiq's time limit is no Exception: no handler records it. *)
HitTimeLimit(w) ==
  /\ MayDie
  /\ worker[w].pc \in Invoked
  /\ worker' = Raised(w)
  /\ thread' \in Saved(w)
  /\ deaths' = deaths + 1
  /\ UNCHANGED <<row, reviews, report, queue, holder, cancelling, posts>>

(* A dead worker's message was never acknowledged: it is delivered again.  *)
(* Its database session outlives it until Postgres notices.                *)
Crash(w) ==
  /\ MayDie
  /\ worker[w].pc # "idle"
  /\ queue' = BagAdd(queue, worker[w].msg)
  /\ holder' = IF holder = w THEN DeadSession ELSE holder
  /\ worker' = [worker EXCEPT ![w] = IdleWorker]
  /\ thread' \in Saved(w)
  /\ deaths' = deaths + 1
  /\ UNCHANGED <<row, reviews, report, cancelling, posts>>

ReapSession ==
  /\ holder = DeadSession
  /\ holder' = Nobody
  /\ UNCHANGED <<row, reviews, report, thread, queue, worker, cancelling, budgets>>

(* Time: no heartbeat for the threshold, or a batch transition touches it. *)
GrowStale ==
  /\ status \in StaleEligible /\ beat = "fresh"
  /\ beat' = "stale"
  /\ UNCHANGED <<status, needsReview, failure, reviews, report, thread, queue,
                 holder, worker, cancelling, budgets>>

TouchHeartbeat(w) ==
  /\ AtNode(w, Comparison) \/ AtNode(w, ExtractClaims)
  /\ beat = "stale" /\ beat' = "fresh"
  /\ UNCHANGED <<status, needsReview, failure, reviews, report, thread, queue,
                 holder, worker, cancelling, budgets>>

-----------------------------------------------------------------------------
ClientStep == \/ Post \/ RetryFailed \/ RetryStale \/ RequestResume
              \/ SubmitReview \/ ReadForCancel \/ CommitCancel

Load(w) == LoadRun(w) \/ LoadResume(w) \/ RefuseResume(w)

FinishStep(w) == \/ FinishNode(w) \/ FinishComparison(w) \/ FinishPrioritize(w)
                 \/ PassGate(w) \/ Pause(w) \/ AnswerGate(w)
                 \/ WriteReport(w) \/ FinishRun(w)

(* What an executing worker does next when nothing kills it. *)
Progress(w) == \/ Load(w) \/ ReadRow(w) \/ StartNode(w) \/ SkipNode(w)
               \/ FinishStep(w) \/ FailRun(w) \/ FailResume(w)
               \/ Acknowledge(w) \/ ReturnMessage(w)

Misfortune(w) == HitTimeLimit(w) \/ Crash(w)

Next == \/ ClientStep
        \/ \E w \in Workers : Receive(w) \/ Progress(w) \/ Misfortune(w) \/ TouchHeartbeat(w)
        \/ ReapSession \/ GrowStale

Spec == Init /\ [][Next]_vars

(***************************************************************************)
(* Fairness: asyncio runs a worker's coroutine to its end, the broker      *)
(* delivers, Postgres reaps dead sessions, clocks advance and a cancel     *)
(* handler that read the row commits.  Nothing is assumed of users.        *)
(***************************************************************************)
Fairness ==
  /\ \A w \in Workers : WF_vars(Progress(w))
  /\ WF_vars(\E w \in Workers : Receive(w))
  /\ WF_vars(ReapSession) /\ WF_vars(GrowStale) /\ WF_vars(CommitCancel)

FairSpec == Spec /\ Fairness

-----------------------------------------------------------------------------
Active(w) == worker[w].pc # "idle"
Quiet == \A w \in Workers : ~Active(w)
NothingPending == Quiet /\ queue = EmptyBag

TypeOK ==
  /\ status \in Statuses \cup {"absent"}
  /\ needsReview \in BOOLEAN
  /\ failure \in {"none", "retryable", "permanent"}
  /\ beat \in {"fresh", "stale"}
  /\ reviews \in Seq({"pending", "decided"})
  /\ report \in [needs: BOOLEAN, verdict: Nat, asked: Nat, written: BOOLEAN]
  /\ thread \in Channels
  /\ BagToSet(queue) \subseteq Messages
  /\ holder \in Workers \cup {Nobody, DeadSession}
  /\ worker \in [Workers -> WorkerStates]
  /\ cancelling \in BOOLEAN
  /\ posts \in 0..MaxPosts /\ deaths \in 0..MaxDeaths

(***************************************************************************)
(* The active worker is the one that holds the lock: retries, redeliveries *)
(* and stale recovery never put two workers on a run (held_advisory_lock   *)
(* in workers/tasks.py; RunLock looks at a lock that gets lost).           *)
(***************************************************************************)
OneWorker == \A w \in Workers : Active(w) => holder = w

(* In the terms of the lock's own specification, which RunLock implements  *)
(* with its sessions and probes: one worker starts, stops, another starts. *)
Exclusive == INSTANCE ExclusiveRun WITH executing <- {w \in Workers : Active(w)}
ImplementsExclusiveRun == Exclusive!Spec

(***************************************************************************)
(* A report of a run that needed review carries a decision, and one taken  *)
(* on a request no older than the question the thread asked: a late or     *)
(* repeated resume message never answers a later pause                     *)
(* (resume_analysis's latest-review check with the readiness guard).       *)
(***************************************************************************)
ReportIsReviewed ==
  (report.written /\ report.needs) =>
     /\ report.verdict \in DOMAIN reviews
     /\ reviews[report.verdict] = "decided"
     /\ report.verdict >= report.asked

(* A completed run has its report: neither a cancellation half way through *)
(* nor a restart lets finalize_analysis run without generate_report.       *)
CompletedHasReport ==
  status \in Completed => report.written

(***************************************************************************)
(* A cancelled run does no more work: once no worker is inside a node it   *)
(* started before, or about to start one on the row it read before, no     *)
(* message, retry or resume writes its row, asks for a review or writes    *)
(* its report (_node's first lines).  Only an invocation that is under way *)
(* and raises takes it out of that state, as a failure (_fail_run).        *)
(***************************************************************************)
CancelledForGood ==
  /\ status = "cancelled"
  /\ \A w \in Workers : \/ worker[w].pc \in {"idle", "loaded", "ready", "done", "raised"}
                        \/ worker[w].pc = "starting" /\ worker[w].seen = "cancelled"
CancelledRunStops ==
  [][CancelledForGood =>
       /\ CancelledForGood' \/ (status' = "failed" /\ ~Quiet)
       /\ UNCHANGED <<needsReview, report>> /\ Len(reviews') = Len(reviews)]_vars

(* The lock is never kept: whoever takes it ends its invocation. *)
LockIsReleased == \A w \in Workers : (holder = w) ~> (holder # w)

(***************************************************************************)
(* A run that is in progress with no message and no worker left (a worker  *)
(* died, the broker lost the post, a message met a held lock and was       *)
(* dropped) becomes retryable by itself: stale, with a free lock.          *)
(***************************************************************************)
Abandoned == NothingPending /\ status \in StaleEligible
AbandonedBecomesRetryable ==
  Abandoned ~> (~Abandoned \/ (IsStale /\ holder = Nobody))

=============================================================================
