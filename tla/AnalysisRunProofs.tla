------------------------- MODULE AnalysisRunProofs -------------------------
(***************************************************************************)
(* Proofs about AnalysisRun, for any workers and any bounds.               *)
(***************************************************************************)
EXTENDS AnalysisRun, TLAPS

(* A worker inside the graph stands at one of its twelve nodes. *)
InGraph ==
  \A w \in Workers :
     worker[w].pc \in {"ready", "starting", "working"} => worker[w].state.next # End

Typed == TypeOK /\ InGraph

(***************************************************************************)
(* The strengthening of the safety properties.  A worker that will skip    *)
(* its node looks at a row that is still cancelled.  A worker reaches      *)
(* finalize_analysis only with a report or in a run cancelled for good.    *)
(* The checkpoint may be left there without one, when an invocation raised *)
(* over the cancellation, but then no resume can pick it up and a worker   *)
(* on the run has restarted the thread.  Every copy of the channels        *)
(* reaches generate_report only with the answer it needs.                  *)
(***************************************************************************)
Threads == {thread} \cup {worker[w].state : w \in Workers}

SkipsCancelled ==
  \A w \in Workers :
     (worker[w].pc = "starting" /\ worker[w].seen = "cancelled") => status = "cancelled"

Inside(w) == worker[w].pc \in {"ready", "starting", "working", "done"}

Unreported(c) == c.next = Finalize /\ ~report.written

WorkersReport ==
  \A w \in Workers : (Inside(w) /\ Unreported(worker[w].state)) => CancelledForGood

Restarted ==
  /\ status # "awaiting_human_review"
  /\ \A w \in Workers : Inside(w) => worker[w].state.next = 1

CheckpointReports == Unreported(thread) => (CancelledForGood \/ Restarted)

FinalizedWithReport == WorkersReport /\ CheckpointReports

(* Request number r is decided, and no older than the one c asked for. *)
Answers(r, c) == r \in DOMAIN reviews /\ reviews[r] = "decided" /\ r >= c.asked

AskedBefore == \A c \in Threads : c.asked <= Len(reviews)

CarriedAnswer ==
  \A w \in Workers : worker[w].answer # 0 => Answers(worker[w].answer, worker[w].state)

ReportedWithAnswer ==
  \A c \in Threads : (c.next = GenerateReport /\ c.needs) => Answers(c.verdict, c)

LockInv   == Typed /\ OneWorker
ReportInv == /\ LockInv /\ SkipsCancelled /\ FinalizedWithReport /\ CompletedHasReport
ReviewInv == /\ Typed /\ AskedBefore /\ CarriedAnswer /\ ReportedWithAnswer
             /\ ReportIsReviewed

-----------------------------------------------------------------------------
(* Facts about the operators the actions are built from. *)

(* A node's status is one of the run's statuses. *)
LEMMA NodeStatusType ==
  ASSUME NEW n \in 1..Finalize
  PROVE  NodeStatus[n] \in Statuses
BY DEF NodeStatus, Statuses, Finalize

LEMMA StatusNames ==
  /\ {"queued", "failed", "cancelled", "comparing_disclosures", "validating_evidence",
      "awaiting_human_review"} \subseteq Statuses
  /\ Completed \subseteq Statuses
  <1>1. /\ NodeStatus[4] = "comparing_disclosures" /\ NodeStatus[9] = "validating_evidence"
        /\ NodeStatus[10] = "awaiting_human_review"
    BY DEF NodeStatus
  <1>2. QED
    BY <1>1 DEF Statuses, Terminal, Completed

(* Enqueuing and dequeuing keep the bag's elements among the messages. *)
LEMMA QueueAdd ==
  ASSUME NEW q, NEW m \in Messages, BagToSet(q) \subseteq Messages
  PROVE  BagToSet(BagAdd(q, m)) \subseteq Messages
BY DEF BagToSet, BagAdd

LEMMA QueueRemove ==
  ASSUME NEW q, NEW m, BagToSet(q) \subseteq Messages
  PROVE  BagToSet(BagRemove(q, m)) \subseteq Messages
BY DEF BagToSet, BagRemove

LEMMA MessageTypes ==
  /\ RunMessage \in Messages
  /\ \A r \in Nat : ResumeMessage(r) \in Messages
  /\ \A m \in Messages : m.left > 0 => [m EXCEPT !.left = @ - 1] \in Messages
BY DEF RunMessage, ResumeMessage, Messages, ActorRetries

LEMMA IdleType == IdleWorker \in WorkerStates
BY MessageTypes DEF IdleWorker, WorkerStates, NewThread, Channels, End

(* create_review_request keeps the requests a sequence, and non-empty. *)
LEMMA PendingRequestType ==
  ASSUME reviews \in Seq({"pending", "decided"})
  PROVE  /\ WithPendingRequest \in Seq({"pending", "decided"})
         /\ Len(WithPendingRequest) \in Nat \ {0}
         /\ Len(reviews) \in Nat
BY DEF WithPendingRequest, HasPending

-----------------------------------------------------------------------------
(* Type correctness. *)

LEMMA TypedInit == Init => Typed
  <1> SUFFICES ASSUME Init PROVE Typed
    OBVIOUS
  <1>1. BagToSet(queue) \subseteq Messages
    BY DEF Init, EmptyBag, SetToBag, BagToSet
  <1>2. worker \in [Workers -> WorkerStates] /\ InGraph
    BY IdleType DEF Init, InGraph, IdleWorker
  <1>3. reviews \in Seq({"pending", "decided"})
    BY DEF Init
  <1>4. thread \in Channels
        /\ report \in [needs: BOOLEAN, verdict: Nat, asked: Nat, written: BOOLEAN]
    BY DEF Init, NoReport, NewThread, Channels, End
  <1>5. posts \in 0..MaxPosts /\ deaths \in 0..MaxDeaths
    BY BoundAssumption DEF Init
  <1>6. /\ status \in Statuses \cup {"absent"} /\ needsReview \in BOOLEAN
        /\ failure \in {"none", "retryable", "permanent"} /\ beat \in {"fresh", "stale"}
        /\ holder \in Workers \cup {Nobody, DeadSession} /\ cancelling \in BOOLEAN
    BY DEF Init
  <1>7. QED
    BY <1>1, <1>2, <1>3, <1>4, <1>5, <1>6 DEF Typed, TypeOK

(* The API's actions and those of the environment leave the workers alone. *)
LEMMA TypedClient ==
  ASSUME Typed, ClientStep \/ ReapSession \/ GrowStale
  PROVE  Typed'
  <1> USE DEF Typed, TypeOK, InGraph
  <1>1. CASE Post
    BY <1>1, QueueAdd, MessageTypes, StatusNames, BoundAssumption DEF Post, Send, MayPost
  <1>2. CASE RetryFailed
    BY <1>2, QueueAdd, MessageTypes, BoundAssumption DEF RetryFailed, Send, row, MayPost
  <1>3. CASE RetryStale
    BY <1>3, QueueAdd, MessageTypes, BoundAssumption DEF RetryStale, Send, row, MayPost
  <1>4. CASE RequestResume
    <2>1. ResumeMessage(Len(reviews)) \in Messages
      BY MessageTypes
    <2>2. QED
      BY <1>4, <2>1, QueueAdd, BoundAssumption DEF RequestResume, Send, row, MayPost
  <1>5. CASE SubmitReview
    <2>1. reviews' \in Seq({"pending", "decided"})
      BY <1>5 DEF SubmitReview, HasPending
    <2>2. QED
      BY <1>5, <2>1 DEF SubmitReview, row, budgets
  <1>6. CASE ReadForCancel
    BY <1>6 DEF ReadForCancel, row, budgets
  <1>7. CASE CommitCancel
    BY <1>7, StatusNames DEF CommitCancel, budgets
  <1>8. CASE ReapSession
    BY <1>8 DEF ReapSession, row, budgets
  <1>9. CASE GrowStale
    BY <1>9 DEF GrowStale, budgets
  <1>10. QED
    BY <1>1, <1>2, <1>3, <1>4, <1>5, <1>6, <1>7, <1>8, <1>9 DEF ClientStep

(* The end of a superstep: the channels and the local state stay typed.    *)
LEMMA AdvanceTyped ==
  ASSUME Typed, NEW w \in Workers, NEW c \in Channels, NEW pc \in {"ready", "done"},
         pc = "ready" => c.next # End, Advance(w, c, pc)
  PROVE  thread' \in Channels /\ worker' \in [Workers -> WorkerStates] /\ InGraph'
  <1>1. worker[w] \in WorkerStates /\ worker[w].state \in Channels
    BY DEF Typed, TypeOK, WorkerStates
  <1>2. [worker[w] EXCEPT !.state = c, !.pc = pc, !.answer = 0] \in WorkerStates
    BY <1>1 DEF WorkerStates
  <1>3. worker' = [worker EXCEPT ![w] = [worker[w] EXCEPT !.state = c, !.pc = pc, !.answer = 0]]
    BY DEF Advance, Typed, TypeOK
  <1>4. worker' \in [Workers -> WorkerStates]
    BY <1>2, <1>3 DEF Typed, TypeOK
  <1>5. InGraph'
    BY <1>1, <1>3 DEF Typed, TypeOK, InGraph, WorkerStates
  <1>6. QED
    BY <1>1, <1>4, <1>5 DEF Advance

(* Any other step of w's local state: only its pc decides whether it is in *)
(* the graph.                                                              *)
LEMMA LocalTyped ==
  ASSUME Typed, NEW w \in Workers, NEW l \in WorkerStates,
         worker' = [worker EXCEPT ![w] = l],
         l.pc \in {"ready", "starting", "working"} => l.state.next # End
  PROVE  worker' \in [Workers -> WorkerStates] /\ InGraph'
BY DEF Typed, TypeOK, InGraph

(* Taking a message, and loading what it asks for. *)
LEMMA TypedLoad ==
  ASSUME Typed, NEW w \in Workers, Receive(w) \/ Load(w)
  PROVE  Typed'
  <1> DEFINE l == worker[w]
  <1>1. l \in WorkerStates /\ l.msg \in Messages /\ thread \in Channels
    BY DEF Typed, TypeOK, WorkerStates
  <1>2. CASE Receive(w)
    <2>1. PICK m \in BagToSet(queue) :
             /\ queue' = BagRemove(queue, m)
             /\ IF holder = Nobody
                THEN /\ holder' = w
                     /\ worker' = [worker EXCEPT ![w].pc = "loaded", ![w].msg = m]
                ELSE UNCHANGED <<holder, worker>>
      BY <1>2 DEF Receive
    <2>2. BagToSet(queue') \subseteq Messages /\ m \in Messages
      BY <2>1, QueueRemove DEF Typed, TypeOK
    <2>3. worker' \in [Workers -> WorkerStates] /\ InGraph'
      <3>1. CASE holder = Nobody
        <4>1. [l EXCEPT !.pc = "loaded", !.msg = m] \in WorkerStates
          BY <1>1, <2>2 DEF WorkerStates
        <4>2. worker' = [worker EXCEPT ![w] = [l EXCEPT !.pc = "loaded", !.msg = m]]
          BY <2>1, <3>1 DEF Typed, TypeOK
        <4>3. QED
          BY <1>1, <4>1, <4>2, LocalTyped DEF WorkerStates
      <3>2. CASE holder # Nobody
        BY <2>1, <3>2 DEF Typed, TypeOK, InGraph
      <3>3. QED
        BY <3>1, <3>2
    <2>4. holder' \in Workers \cup {Nobody, DeadSession}
      BY <2>1 DEF Typed, TypeOK
    <2>5. QED
      BY <1>2, <2>2, <2>3, <2>4 DEF Receive, Typed, TypeOK, row, budgets
  <1>3. CASE LoadRun(w)
    <2> DEFINE c == [thread EXCEPT !.next = 1]
               k == [l EXCEPT !.pc = "starting", !.seen = status, !.state = c, !.answer = 0]
    <2>1. c \in Channels /\ c.next # End
      BY <1>1 DEF Channels, End
    <2>2. k \in WorkerStates /\ k.state.next # End
      BY <1>1, <2>1 DEF WorkerStates, Typed, TypeOK
    <2>3. worker' = [worker EXCEPT ![w] = k]
      BY <1>3 DEF LoadRun, Typed, TypeOK
    <2>4. worker' \in [Workers -> WorkerStates] /\ InGraph'
      <3> HIDE DEF k
      <3> QED  BY <2>2, <2>3, LocalTyped
    <2>5. QED
      BY <1>3, <2>4 DEF LoadRun, Typed, TypeOK, row, budgets
  <1>4. CASE LoadResume(w)
    <2> DEFINE k == [l EXCEPT !.pc = IF thread.next = End THEN "done" ELSE "starting",
                              !.seen = status, !.state = thread,
                              !.answer = l.msg.review]
    <2>1. k \in WorkerStates /\ (k.pc = "starting" => k.state.next # End)
          /\ k.pc \in {"done", "starting"}
      BY <1>1 DEF WorkerStates, Messages, Typed, TypeOK
    <2>2. worker' = [worker EXCEPT ![w] = k]
      BY <1>4 DEF LoadResume, Typed, TypeOK
    <2>3. worker' \in [Workers -> WorkerStates] /\ InGraph'
      <3> HIDE DEF k
      <3> QED  BY <2>1, <2>2, LocalTyped
    <2>4. QED
      BY <1>4, <2>3 DEF LoadResume, Typed, TypeOK, row, budgets
  <1>5. CASE RefuseResume(w)
    <2>1. [l EXCEPT !.pc = "raised"] \in WorkerStates
      BY <1>1 DEF WorkerStates
    <2>2. worker' = [worker EXCEPT ![w] = [l EXCEPT !.pc = "raised"]]
      BY <1>5 DEF RefuseResume, Typed, TypeOK
    <2>3. QED
      BY <1>1, <1>5, <2>1, <2>2, LocalTyped, ZenonT(60)
         DEF RefuseResume, Typed, TypeOK, row, budgets, WorkerStates
  <1>6. QED
    BY <1>2, <1>3, <1>4, <1>5 DEF Load

(* Entering a node: reading the row, starting or skipping. *)
LEMMA TypedEnter ==
  ASSUME Typed, NEW w \in Workers, ReadRow(w) \/ StartNode(w) \/ SkipNode(w)
  PROVE  Typed'
  <1> DEFINE l == worker[w]
  <1>1. l \in WorkerStates /\ l.state \in Channels /\ status \in Statuses \cup {"absent"}
    BY DEF Typed, TypeOK, WorkerStates
  <1>2. l.pc \in {"ready", "starting"} => l.state.next \in 1..Finalize
    BY <1>1 DEF Typed, InGraph, Channels, End, Finalize
  <1>3. CASE ReadRow(w)
    <2> DEFINE k == [l EXCEPT !.pc = "starting", !.seen = status]
    <2>1. k \in WorkerStates /\ k.state.next # End
      <3>1. l.state.next # End
        BY <1>2, <1>3 DEF ReadRow, End, Finalize
      <3>2. QED
        BY <1>1, <3>1 DEF WorkerStates
    <2>2. worker' = [worker EXCEPT ![w] = k]
      BY <1>3 DEF ReadRow, Typed, TypeOK
    <2>3. worker' \in [Workers -> WorkerStates] /\ InGraph'
      <3> HIDE DEF k
      <3> QED  BY <2>1, <2>2, LocalTyped
    <2>4. QED
      BY <1>3, <2>3 DEF ReadRow, Typed, TypeOK, row, budgets
  <1>4. CASE StartNode(w)
    <2> DEFINE k == [l EXCEPT !.pc = "working", !.seen = "absent"]
    <2>1. k \in WorkerStates /\ k.state.next # End
      <3>1. l.state.next # End
        BY <1>2, <1>4 DEF StartNode, End, Finalize
      <3>2. QED
        BY <1>1, <3>1 DEF WorkerStates
    <2>2. worker' = [worker EXCEPT ![w] = k]
      BY <1>4 DEF StartNode, Typed, TypeOK
    <2>3. worker' \in [Workers -> WorkerStates] /\ InGraph'
      <3> HIDE DEF k
      <3> QED  BY <2>1, <2>2, LocalTyped
    <2>4. status' \in Statuses \cup {"absent"}
      BY <1>1, <1>2, <1>4, NodeStatusType DEF StartNode
    <2>5. QED
      BY <1>4, <2>3, <2>4 DEF StartNode, Typed, TypeOK, budgets
  <1>5. CASE SkipNode(w)
    <2> DEFINE n == IF l.state.next = ReviewGate THEN End ELSE l.state.next + 1
               c == [l.state EXCEPT !.next = n]
               pc == IF n = End THEN "done" ELSE "ready"
    <2>1. n \in 1..End
      BY <1>2, <1>5 DEF SkipNode, End, Finalize
    <2>2. c \in Channels /\ c.next = n
      BY <1>1, <2>1 DEF Channels
    <2>3. Advance(w, c, pc)
      BY <1>5 DEF SkipNode
    <2>4. thread' \in Channels /\ worker' \in [Workers -> WorkerStates] /\ InGraph'
      <3>1. pc \in {"ready", "done"} /\ (pc = "ready" => c.next # End)
        BY <2>2
      <3> HIDE DEF c, pc
      <3> QED  BY <2>2, <2>3, <3>1, AdvanceTyped
    <2>5. QED
      BY <1>5, <2>4 DEF SkipNode, Typed, TypeOK, row, budgets
  <1>6. QED
    BY <1>3, <1>4, <1>5

(* The two nodes that write two channels. *)
LEMMA GateChannels ==
  ASSUME NEW s \in Channels
  PROVE  /\ \A b \in BOOLEAN :
              /\ [s EXCEPT !.next = ReviewGate, !.needs = b] \in Channels
              /\ [s EXCEPT !.next = ReviewGate, !.needs = b].next = ReviewGate
         /\ \A v \in Nat :
              /\ [s EXCEPT !.next = GenerateReport, !.verdict = v] \in Channels
              /\ [s EXCEPT !.next = GenerateReport, !.verdict = v].next = GenerateReport
  <1>1. /\ [s EXCEPT !.next = ReviewGate] \in Channels
        /\ [s EXCEPT !.next = GenerateReport] \in Channels
    BY DEF Channels, End, ReviewGate, GenerateReport
  <1>2. ASSUME NEW c \in Channels, NEW b \in BOOLEAN
        PROVE  [c EXCEPT !.needs = b] \in Channels
    BY DEF Channels
  <1>3. ASSUME NEW c \in Channels, NEW v \in Nat
        PROVE  [c EXCEPT !.verdict = v] \in Channels
    BY DEF Channels
  <1>4. QED
    BY <1>1, <1>2, <1>3 DEF Channels

(* The end of a node's work. *)
LEMMA TypedFinish ==
  ASSUME Typed, NEW w \in Workers, FinishStep(w)
  PROVE  Typed'
  <1> DEFINE s == worker[w].state
             Good == thread' \in Channels /\ worker' \in [Workers -> WorkerStates] /\ InGraph'
  <1>1. s \in Channels /\ worker[w].answer \in Nat
    BY DEF Typed, TypeOK, WorkerStates
  <1>2. ASSUME NEW c \in Channels, NEW pc \in {"ready", "done"},
               pc = "ready" => c.next # End, Advance(w, c, pc)
        PROVE  Good
    BY <1>2, AdvanceTyped
  <1> HIDE DEF Good
  <1>3. CASE FinishNode(w)
    <2>1. PICK n \in 1..8 \ {Comparison} : Advance(w, [s EXCEPT !.next = n + 1], "ready")
      BY <1>3 DEF FinishNode
    <2>2. [s EXCEPT !.next = n + 1] \in Channels /\ [s EXCEPT !.next = n + 1].next # End
      BY <1>1 DEF Channels, End
    <2>3. Good
      BY <1>2, <2>1, <2>2
    <2>4. QED
      BY <1>3, <2>3 DEF FinishNode, Typed, TypeOK, row, budgets, Good
  <1>4. CASE FinishComparison(w)
    <2> DEFINE c == [s EXCEPT !.next = ExtractClaims]
    <2>1. c \in Channels /\ c.next # End /\ Advance(w, c, "ready")
      BY <1>1, <1>4 DEF FinishComparison, Channels, End, ExtractClaims
    <2>2. Good
      <3> HIDE DEF c
      <3> QED  BY <1>2, <2>1
    <2>3. QED
      BY <1>4, <2>2, StatusNames DEF FinishComparison, Typed, TypeOK, budgets, Good
  <1>5. CASE FinishPrioritize(w)
    <2>1. PICK needed \in BOOLEAN :
             needsReview' = needed
             /\ Advance(w, [s EXCEPT !.next = ReviewGate, !.needs = needed], "ready")
      BY <1>5 DEF FinishPrioritize
    <2> DEFINE c == [s EXCEPT !.next = ReviewGate, !.needs = needed]
    <2>2. c \in Channels /\ c.next # End
      <3>1. c \in Channels /\ c.next = ReviewGate
        BY <1>1, <2>1, GateChannels
      <3>2. QED
        BY <3>1 DEF End, ReviewGate
    <2>3. Good
      <3> HIDE DEF c
      <3> QED  BY <1>2, <2>1, <2>2 DEF c
    <2>4. QED
      BY <1>5, <2>1, <2>3, StatusNames DEF FinishPrioritize, Typed, TypeOK, budgets, Good
  <1>6. CASE PassGate(w)
    <2> DEFINE c == [s EXCEPT !.next = GenerateReport]
    <2>1. c \in Channels /\ c.next # End /\ Advance(w, c, "ready")
      BY <1>1, <1>6 DEF PassGate, Channels, End, GenerateReport
    <2>2. Good
      <3> HIDE DEF c
      <3> QED  BY <1>2, <2>1
    <2>3. QED
      BY <1>6, <2>2 DEF PassGate, Typed, TypeOK, row, budgets, Good
  <1>7. CASE Pause(w)
    <2> DEFINE c == [s EXCEPT !.asked = Len(WithPendingRequest)]
    <2>1. reviews' \in Seq({"pending", "decided"}) /\ Len(WithPendingRequest) \in Nat
      BY <1>7, PendingRequestType DEF Pause, Typed, TypeOK
    <2>2. c \in Channels /\ Advance(w, c, "done")
      BY <1>1, <1>7, <2>1 DEF Pause, Channels
    <2>3. Good
      <3> HIDE DEF c
      <3> QED  BY <1>2, <2>2
    <2>4. QED
      BY <1>7, <2>1, <2>3, StatusNames DEF Pause, Typed, TypeOK, budgets, Good
  <1>8. CASE AnswerGate(w)
    <2> DEFINE c == [s EXCEPT !.next = GenerateReport, !.verdict = worker[w].answer]
    <2>1. reviews' \in Seq({"pending", "decided"})
      BY <1>8, PendingRequestType DEF AnswerGate, Typed, TypeOK
    <2>2. c \in Channels /\ c.next # End
      <3>1. c \in Channels /\ c.next = GenerateReport
        BY <1>1, GateChannels
      <3>2. QED
        BY <3>1 DEF End, GenerateReport
    <2>3. Good
      <3>1. Advance(w, c, "ready")
        BY <1>8 DEF AnswerGate
      <3> HIDE DEF c
      <3> QED  BY <1>2, <2>2, <3>1
    <2>4. QED
      BY <1>8, <2>1, <2>3, StatusNames DEF AnswerGate, Typed, TypeOK, budgets, Good
  <1>9. CASE WriteReport(w)
    <2> DEFINE c == [s EXCEPT !.next = Finalize]
    <2>1. c \in Channels /\ c.next # End /\ Advance(w, c, "ready")
      BY <1>1, <1>9 DEF WriteReport, Channels, End, Finalize
    <2>2. Good
      <3> HIDE DEF c
      <3> QED  BY <1>2, <2>1
    <2>3. report' \in [needs: BOOLEAN, verdict: Nat, asked: Nat, written: BOOLEAN]
      BY <1>1, <1>9 DEF WriteReport, Channels
    <2>4. QED
      BY <1>9, <2>2, <2>3 DEF WriteReport, Typed, TypeOK, row, budgets, Good
  <1>10. CASE FinishRun(w)
    <2> DEFINE c == [s EXCEPT !.next = End]
    <2>1. c \in Channels /\ Advance(w, c, "done")
      BY <1>1, <1>10 DEF FinishRun, Channels, End
    <2>2. Good
      <3> HIDE DEF c
      <3> QED  BY <1>2, <2>1
    <2>3. QED
      BY <1>10, <2>2, StatusNames DEF FinishRun, Typed, TypeOK, budgets, Good
  <1>11. QED
    BY <1>3, <1>4, <1>5, <1>6, <1>7, <1>8, <1>9, <1>10 DEF FinishStep

(* How an invocation ends, and the heartbeat. *)
LEMMA TypedEnd ==
  ASSUME Typed, NEW w \in Workers,
         \/ FailRun(w) \/ FailResume(w) \/ Acknowledge(w) \/ ReturnMessage(w)
         \/ Misfortune(w) \/ TouchHeartbeat(w)
  PROVE  Typed'
  <1> DEFINE l == worker[w]
             Local(k) == worker' = [worker EXCEPT ![w] = k]
             Good == worker' \in [Workers -> WorkerStates] /\ InGraph'
  <1>1. l \in WorkerStates /\ l.state \in Channels /\ l.msg \in Messages
    BY DEF Typed, TypeOK, WorkerStates
  <1>2. ASSUME worker' = Raised(w)
        PROVE  Good
    <2> DEFINE k == [IdleWorker EXCEPT !.pc = "raised", !.msg = l.msg]
    <2>1. k \in WorkerStates /\ k.pc = "raised"
      BY <1>1, IdleType DEF WorkerStates
    <2>2. Local(k)
      BY <1>2 DEF Raised
    <2>3. QED
      <3> HIDE DEF k
      <3> QED  BY <2>1, <2>2, LocalTyped
  <1>3. l.pc # "idle" => Saved(w) \subseteq Channels
    BY <1>1 DEF Saved, Typed, TypeOK
  <1>4. Local(IdleWorker) => Good
    <2>1. IdleWorker.pc = "idle"
      BY DEF IdleWorker
    <2>2. QED
      BY <2>1, IdleType, LocalTyped
  <1>5. CASE FailRun(w)
    <2>1. Good /\ thread' \in Channels
      BY <1>2, <1>3, <1>5 DEF FailRun, Invoked
    <2>2. CASE RecordFailure
      BY <1>5, <2>1, <2>2, StatusNames DEF FailRun, RecordFailure, Typed, TypeOK, budgets
    <2>3. CASE UNCHANGED row
      BY <1>5, <2>1, <2>3 DEF FailRun, Typed, TypeOK, row, budgets
    <2>4. QED
      BY <1>5, <2>2, <2>3 DEF FailRun
  <1>6. CASE FailResume(w)
    <2>1. Good /\ thread' \in Channels
      BY <1>2, <1>3, <1>6 DEF FailResume, Invoked
    <2>2. QED
      BY <1>6, <2>1 DEF FailResume, Typed, TypeOK, row, budgets
  <1>7. CASE Acknowledge(w)
    <2>1. Good
      BY <1>4, <1>7 DEF Acknowledge
    <2>2. QED
      BY <1>1, <1>7, <2>1 DEF Acknowledge, Unlocked, Typed, TypeOK, row, budgets
  <1>8. CASE ReturnMessage(w)
    <2>1. Good
      BY <1>4, <1>8 DEF ReturnMessage
    <2>2. BagToSet(queue') \subseteq Messages
      BY <1>1, <1>8, QueueAdd, MessageTypes DEF ReturnMessage, Send, Typed, TypeOK
    <2>3. QED
      BY <1>8, <2>1, <2>2 DEF ReturnMessage, Unlocked, Typed, TypeOK, row, budgets
  <1>9. CASE HitTimeLimit(w)
    <2>1. Good /\ thread' \in Channels
      BY <1>2, <1>3, <1>9 DEF HitTimeLimit, Invoked
    <2>2. deaths' \in 0..MaxDeaths
      BY <1>9, BoundAssumption DEF HitTimeLimit, MayDie, Typed, TypeOK
    <2>3. QED
      BY <1>9, <2>1, <2>2 DEF HitTimeLimit, Typed, TypeOK, row
  <1>10. CASE Crash(w)
    <2>1. Good
      BY <1>4, <1>10 DEF Crash
    <2>2. BagToSet(queue') \subseteq Messages
      BY <1>1, <1>10, QueueAdd DEF Crash, Typed, TypeOK
    <2>3. deaths' \in 0..MaxDeaths
      BY <1>10, BoundAssumption DEF Crash, MayDie, Typed, TypeOK
    <2>4. thread' \in Channels
      BY <1>3, <1>10 DEF Crash
    <2>5. QED
      BY <1>10, <2>1, <2>2, <2>3, <2>4 DEF Crash, Typed, TypeOK, row
  <1>11. CASE TouchHeartbeat(w)
    BY <1>11 DEF TouchHeartbeat, Typed, TypeOK, InGraph, budgets
  <1>12. QED
    BY <1>5, <1>6, <1>7, <1>8, <1>9, <1>10, <1>11 DEF Misfortune

LEMMA TypedStep ==
  ASSUME Typed, [Next]_vars
  PROVE  Typed'
  <1>1. CASE ClientStep \/ ReapSession \/ GrowStale
    BY <1>1, TypedClient
  <1>2. ASSUME NEW w \in Workers,
               Receive(w) \/ Progress(w) \/ Misfortune(w) \/ TouchHeartbeat(w)
        PROVE  Typed'
    BY <1>2, TypedLoad, TypedEnter, TypedFinish, TypedEnd DEF Progress
  <1>3. CASE UNCHANGED vars
    BY <1>3 DEF vars, Typed, TypeOK, InGraph
  <1>4. QED
    BY <1>1, <1>2, <1>3 DEF Next

LEMMA TypedInvariant == Spec => []Typed
  <1>1. QED
    BY TypedInit, TypedStep, PTL DEF Spec

(***************************************************************************)
(* The variables keep their types, for any number of workers, posts and    *)
(* deaths: in particular no step indexes the graph past its last node, and *)
(* a message never has fewer than zero retries left.                       *)
(***************************************************************************)
THEOREM TypeCorrect == Spec => []TypeOK
  <1>1. Typed => TypeOK
    BY DEF Typed
  <1>2. QED
    BY <1>1, TypedInvariant, PTL

-----------------------------------------------------------------------------
(* Mutual exclusion. *)

WorkerStep(w) == Receive(w) \/ Progress(w) \/ Misfortune(w) \/ TouchHeartbeat(w)

(* A worker's step leaves the others' local states alone. *)
LEMMA OthersUntouched ==
  ASSUME Typed, NEW w \in Workers, WorkerStep(w), NEW v \in Workers \ {w}
  PROVE  worker'[v] = worker[v]
  <1> USE DEF Typed, TypeOK
  <1>1. CASE Receive(w) \/ Load(w)
    BY <1>1 DEF Receive, Load, LoadRun, LoadResume, RefuseResume
  <1>2. CASE ReadRow(w) \/ StartNode(w) \/ SkipNode(w)
    BY <1>2 DEF ReadRow, StartNode, SkipNode, Advance
  <1>3. CASE FinishStep(w)
    BY <1>3 DEF FinishStep, FinishNode, FinishComparison, FinishPrioritize, PassGate, Pause,
                AnswerGate, WriteReport, FinishRun, Advance
  <1>4. CASE FailRun(w) \/ FailResume(w) \/ Acknowledge(w) \/ ReturnMessage(w)
    BY <1>4 DEF FailRun, FailResume, Acknowledge, ReturnMessage, Raised
  <1>5. CASE Misfortune(w) \/ TouchHeartbeat(w)
    BY <1>5 DEF Misfortune, HitTimeLimit, Crash, TouchHeartbeat, Raised
  <1>6. QED
    BY <1>1, <1>2, <1>3, <1>4, <1>5 DEF WorkerStep, Progress

(* Only Receive activates a worker, and only with a free lock; whoever     *)
(* gives the lock up becomes idle.                                         *)
LEMMA LockSteps ==
  ASSUME Typed, NEW w \in Workers, WorkerStep(w)
  PROVE  \/ holder = Nobody /\ holder' = w
         \/ holder' = holder /\ (worker'[w].pc # "idle" => worker[w].pc # "idle")
         \/ worker'[w].pc = "idle" /\ holder' \in {holder} \cup {Nobody, DeadSession}
                                   /\ (holder # w => holder' = holder)
  <1> USE DEF Typed, TypeOK
  <1>1. CASE Receive(w)
    BY <1>1 DEF Receive
  <1>2. CASE Load(w)
    BY <1>2 DEF Load, LoadRun, LoadResume, RefuseResume
  <1>3. CASE ReadRow(w) \/ StartNode(w) \/ SkipNode(w)
    BY <1>3 DEF ReadRow, StartNode, SkipNode
  <1>4. CASE FinishStep(w)
    BY <1>4 DEF FinishStep, FinishNode, FinishComparison, FinishPrioritize, PassGate, Pause,
                AnswerGate, WriteReport, FinishRun, AtNode
  <1>5. CASE FailRun(w) \/ FailResume(w)
    BY <1>5 DEF FailRun, FailResume, Invoked
  <1>6. CASE Acknowledge(w) \/ ReturnMessage(w)
    BY <1>6 DEF Acknowledge, ReturnMessage, Unlocked, IdleWorker
  <1>7. CASE HitTimeLimit(w) \/ TouchHeartbeat(w)
    BY <1>7 DEF HitTimeLimit, TouchHeartbeat, Invoked, AtNode
  <1>8. CASE Crash(w)
    BY <1>8 DEF Crash, IdleWorker
  <1>9. QED
    BY <1>1, <1>2, <1>3, <1>4, <1>5, <1>6, <1>7, <1>8 DEF WorkerStep, Progress, Misfortune

LEMMA OneWorkerStep ==
  ASSUME Typed, OneWorker, [Next]_vars
  PROVE  OneWorker'
  <1>1. CASE ClientStep
    BY <1>1 DEF ClientStep, Post, RetryFailed, RetryStale, RequestResume, SubmitReview,
                ReadForCancel, CommitCancel, OneWorker, Active
  <1>2. CASE ReapSession
    BY <1>2, HolderAssumption DEF ReapSession, OneWorker, Active
  <1>3. CASE GrowStale \/ UNCHANGED vars
    BY <1>3 DEF GrowStale, vars, OneWorker, Active
  <1>4. ASSUME NEW w \in Workers, WorkerStep(w)
        PROVE  OneWorker'
    <2> SUFFICES ASSUME NEW v \in Workers, worker'[v].pc # "idle"
                 PROVE  holder' = v
      BY DEF OneWorker, Active
    <2>1. CASE v = w
      BY <1>4, <2>1, LockSteps DEF OneWorker, Active
    <2>2. CASE v # w
      <3>1. worker[v].pc # "idle"
        BY <1>4, <2>2, OthersUntouched
      <3>2. holder = v
        BY <3>1 DEF OneWorker, Active
      <3>3. QED
        BY <1>4, <2>2, <3>2, LockSteps, HolderAssumption
    <2>3. QED
      BY <2>1, <2>2
  <1>5. QED
    BY <1>1, <1>2, <1>3, <1>4 DEF Next, WorkerStep

LEMMA LockInvariant == Spec => []LockInv
  <1>1. Init => OneWorker
    BY DEF Init, OneWorker, Active, IdleWorker
  <1>2. LockInv /\ [Next]_vars => LockInv'
    BY TypedStep, OneWorkerStep DEF LockInv
  <1>3. Init => LockInv
    BY <1>1, TypedInit DEF LockInv
  <1>4. QED
    BY <1>2, <1>3, PTL DEF Spec

(***************************************************************************)
(* Mutual exclusion: whatever messages are posted, retried, redelivered or *)
(* dropped, the worker acting on the run is the one holding its lock.      *)
(***************************************************************************)
THEOREM MutualExclusion == Spec => []OneWorker
  <1>1. LockInv => OneWorker
    BY DEF LockInv
  <1>2. QED
    BY <1>1, LockInvariant, PTL

(* In the terms of the lock's own specification: a step starts one worker  *)
(* where there was none, stops the only one, or changes nothing.           *)
Executing == {w \in Workers : Active(w)}

LEMMA ExclusiveStep ==
  ASSUME LockInv, LockInv', [Next]_vars
  PROVE  [Exclusive!Next]_Executing
  <1>1. CASE ClientStep \/ ReapSession \/ GrowStale \/ UNCHANGED vars
    <2>1. worker' = worker
      BY <1>1 DEF ClientStep, Post, RetryFailed, RetryStale, RequestResume, SubmitReview,
                  ReadForCancel, CommitCancel, ReapSession, GrowStale, vars
    <2>2. QED
      BY <2>1 DEF Executing, Active
  <1>2. ASSUME NEW w \in Workers, WorkerStep(w)
        PROVE  [Exclusive!Next]_Executing
    <2>1. \A v \in Workers \ {w} : v \in Executing' <=> v \in Executing
      BY <1>2, OthersUntouched DEF LockInv, Executing, Active
    <2>2. (w \notin Executing /\ w \in Executing') => holder = Nobody
      BY <1>2, LockSteps DEF LockInv, Executing, Active
    <2>3. \A v \in Executing : holder = v
      BY DEF LockInv, OneWorker, Executing
    <2>4. Executing \subseteq Workers /\ Executing' \subseteq Workers
      BY DEF Executing
    <2>5. CASE w \notin Executing /\ w \in Executing'
      <3>1. Executing = {} /\ Executing' = {w}
        BY <2>1, <2>2, <2>3, <2>4, <2>5, HolderAssumption
      <3>2. QED
        BY <3>1 DEF Exclusive!Next, Exclusive!Start, Executing
    <2>6. CASE w \in Executing /\ w \notin Executing'
      <3>1. Executing = {w} /\ Executing' = {}
        BY <2>1, <2>3, <2>4, <2>6
      <3>2. QED
        BY <3>1 DEF Exclusive!Next, Exclusive!Stop, Executing
    <2>7. CASE w \in Executing <=> w \in Executing'
      BY <2>1, <2>4, <2>7
    <2>8. QED
      BY <2>5, <2>6, <2>7
  <1>3. QED
    BY <1>1, <1>2 DEF Next, WorkerStep

(***************************************************************************)
(* The run's workers implement the exclusive execution that RunLock's      *)
(* sessions provide: worker starts and stops alternate, one at a time.     *)
(***************************************************************************)
THEOREM WorkersAreExclusive == Spec => ImplementsExclusiveRun
  <1>1. Init => Exclusive!Init
    BY DEF Init, Exclusive!Init, Active, IdleWorker
  <1>2. LockInv /\ LockInv' /\ [Next]_vars => [Exclusive!Next]_Executing
    BY ExclusiveStep
  <1>3. QED
    BY <1>1, <1>2, LockInvariant, PTL
       DEF Spec, ImplementsExclusiveRun, Exclusive!Spec, Executing

-----------------------------------------------------------------------------
(* Cancellation. *)

(* No node is running or about to start: what w can do leaves it that way, *)
(* or records a failure.                                                   *)
LEMMA CancelledWorkerStep ==
  ASSUME Typed, CancelledForGood, NEW w \in Workers, WorkerStep(w)
  PROVE  /\ CancelledForGood' \/ (FailRun(w) /\ status' = "failed")
         /\ UNCHANGED <<needsReview, report, reviews>>
  <1> DEFINE Kept == UNCHANGED <<needsReview, report, reviews>>
             Out == \/ worker'[w].pc \in {"idle", "loaded", "ready", "done", "raised"}
                    \/ worker'[w].pc = "starting" /\ worker'[w].seen = "cancelled"
  <1> USE DEF Typed, TypeOK
  <1>1. /\ worker[w].pc # "working" /\ (worker[w].pc = "starting" => worker[w].seen = "cancelled")
        /\ status = "cancelled"
    BY DEF CancelledForGood
  <1>2. Kept /\ Out /\ (status' = status \/ (FailRun(w) /\ status' = "failed"))
    <2>1. CASE Receive(w)
      <3>1. status' = status /\ Kept
        BY <2>1 DEF Receive, row
      <3>2. worker'[w].pc = "loaded" \/ worker'[w].pc = "idle"
        <4>1. worker[w].pc = "idle"
          BY <2>1 DEF Receive
        <4>2. \/ worker' = worker
              \/ \E x \in BagToSet(queue) :
                    worker' = [worker EXCEPT ![w].pc = "loaded", ![w].msg = x]
          BY <2>1 DEF Receive
        <4>3. QED
          BY <4>1, <4>2 DEF WorkerStates
      <3>3. QED
        BY <3>1, <3>2
    <2>2. CASE Load(w)
      <3>1. CASE LoadRun(w)
        BY <1>1, <3>1 DEF LoadRun, row
      <3>2. CASE LoadResume(w)
        BY <1>1, <3>2 DEF LoadResume, ResumeAllowed
      <3>3. CASE RefuseResume(w)
        BY <3>3 DEF RefuseResume, row
      <3>4. QED
        BY <2>2, <3>1, <3>2, <3>3 DEF Load
    <2>3. CASE ReadRow(w)
      BY <1>1, <2>3 DEF ReadRow, row
    <2>4. CASE SkipNode(w)
      BY <1>1, <2>4 DEF SkipNode, Advance, row
    <2>5. CASE StartNode(w) \/ FinishStep(w)
      BY <1>1, <2>5 DEF StartNode, FinishStep, FinishNode, FinishComparison, FinishPrioritize,
         PassGate, Pause, AnswerGate, WriteReport, FinishRun, AtNode
    <2>6. ASSUME worker' = Raised(w)
          PROVE  Out
      <3>1. worker'[w].pc = "raised"
        BY <2>6 DEF Raised, IdleWorker
      <3>2. QED
        BY <3>1
    <2>7. CASE FailRun(w) \/ FailResume(w)
      BY <2>6, <2>7 DEF FailRun, FailResume, RecordFailure, row
    <2>8. CASE Acknowledge(w) \/ ReturnMessage(w)
      BY <2>8 DEF Acknowledge, ReturnMessage, IdleWorker, row
    <2>9. CASE HitTimeLimit(w)
      BY <2>6, <2>9 DEF HitTimeLimit, row
    <2>10. CASE Crash(w)
      BY <2>10 DEF Crash, IdleWorker, row
    <2>11. CASE TouchHeartbeat(w)
      BY <1>1, <2>11 DEF TouchHeartbeat, AtNode
    <2>12. QED
      BY <2>1, <2>2, <2>3, <2>4, <2>5, <2>7, <2>8, <2>9, <2>10, <2>11
         DEF WorkerStep, Progress, Misfortune
  <1>3. \A v \in Workers \ {w} : worker'[v] = worker[v]
    BY OthersUntouched
  <1>4. QED
    <2> HIDE DEF Typed, TypeOK
    <2> QED  BY <1>1, <1>2, <1>3 DEF CancelledForGood

LEMMA CancelledStep ==
  ASSUME Typed, CancelledForGood, [Next]_vars
  PROVE  /\ CancelledForGood' \/ (status' = "failed" /\ ~Quiet)
         /\ UNCHANGED <<needsReview, report>> /\ Len(reviews') = Len(reviews)
  <1>1. CASE SubmitReview
    <2>1. Len(reviews') = Len(reviews)
      BY <1>1 DEF SubmitReview, HasPending, Typed, TypeOK
    <2>2. QED
      BY <1>1, <2>1 DEF SubmitReview, CancelledForGood, row
  <1>2. CASE ClientStep /\ ~SubmitReview
    BY <1>2 DEF ClientStep, Post, RetryFailed, RetryStale, RequestResume,
                ReadForCancel, CommitCancel, CancelledForGood, row
  <1>3. CASE ReapSession \/ GrowStale \/ UNCHANGED vars
    BY <1>3 DEF ReapSession, GrowStale, vars, row, CancelledForGood
  <1>4. ASSUME NEW w \in Workers, WorkerStep(w)
        PROVE  /\ CancelledForGood' \/ (status' = "failed" /\ ~Quiet)
               /\ UNCHANGED <<needsReview, report>> /\ Len(reviews') = Len(reviews)
    <2>1. FailRun(w) => ~Quiet
      BY DEF FailRun, Invoked, Quiet, Active
    <2>2. QED
      BY <1>4, <2>1, CancelledWorkerStep
  <1>5. QED
    BY <1>1, <1>2, <1>3, <1>4 DEF Next, WorkerStep

(***************************************************************************)
(* A cancelled run that no worker is inside of does no more work, whatever *)
(* is posted, retried, resumed or redelivered afterwards: it keeps its     *)
(* status, its report and its review requests, until an invocation that is *)
(* under way raises and records a failure in place of the cancellation.    *)
(***************************************************************************)
THEOREM CancelledRunsStop == Spec => CancelledRunStops
  <1>1. Typed /\ [Next]_vars =>
          [CancelledForGood =>
             /\ CancelledForGood' \/ (status' = "failed" /\ ~Quiet)
             /\ UNCHANGED <<needsReview, report>> /\ Len(reviews') = Len(reviews)]_vars
    BY CancelledStep
  <1>2. QED
    BY <1>1, TypedInvariant, PTL DEF Spec, CancelledRunStops

-----------------------------------------------------------------------------
(* Completion implies a report. *)

LEMMA OnlyFinalizeCompletes ==
  ASSUME NEW n \in 1..Finalize, NodeStatus[n] \in Completed
  PROVE  n = Finalize
BY DEF NodeStatus, Completed, Finalize

LEMMA OnlyGateAwaits ==
  ASSUME NEW n \in 1..Finalize, NodeStatus[n] = "awaiting_human_review"
  PROVE  n = ReviewGate
BY DEF NodeStatus, ReviewGate, Finalize

(* A step of w changes no copy of the channels but the checkpoint and w's own. *)
LEMMA ThreadsChange ==
  ASSUME Typed, NEW w \in Workers, WorkerStep(w), NEW c \in Threads'
  PROVE  c \in Threads \/ c = thread' \/ c = worker'[w].state
  <1>1. CASE c = thread'
    BY <1>1
  <1>2. ASSUME NEW v \in Workers, c = worker'[v].state
        PROVE  c \in Threads \/ c = worker'[w].state
    BY <1>2, OthersUntouched DEF Threads
  <1>3. QED
    BY <1>1, <1>2 DEF Threads

(* How a step of w moves the checkpoint and w's own channels: they are      *)
(* restarted, picked up by a resume, left, or advanced by a superstep that *)
(* moves the checkpoint behind them; finalize_analysis is entered behind   *)
(* generate_report or by skipping it.                                      *)
Advances(w) ==
  /\ Inside(w) /\ thread' = worker[w].state
  /\ worker'[w].state.next = Finalize => (report'.written \/ SkipNode(w))

LEMMA ThreadSteps ==
  ASSUME Typed, NEW w \in Workers, WorkerStep(w)
  PROVE  /\ thread' = thread \/ (Inside(w) /\ thread' = worker[w].state)
         /\ Inside(w)' => \/ Inside(w) /\ worker'[w].state = worker[w].state
                          \/ worker'[w].state.next = 1
                          \/ LoadResume(w) /\ worker'[w].state = thread
                          \/ Advances(w)
  <1> DEFINE l == worker[w]
             Goal == /\ thread' = thread \/ (Inside(w) /\ thread' = worker[w].state)
                     /\ Inside(w)' => \/ Inside(w) /\ worker'[w].state = worker[w].state
                                      \/ worker'[w].state.next = 1
                                      \/ LoadResume(w) /\ worker'[w].state = thread
                                      \/ Advances(w)
  <1>1. l \in WorkerStates /\ l.state \in Channels /\ thread \in Channels
    BY DEF Typed, TypeOK, WorkerStates
  <1>2. ASSUME NEW d, NEW pc, Advance(w, d, pc), Inside(w),
               d.next # Finalize \/ report'.written \/ SkipNode(w)
        PROVE  Goal
    BY <1>1, <1>2 DEF Advance, Advances, Typed, TypeOK, WorkerStates
  <1>3. ASSUME thread' \in Saved(w), w \in Workers, l.pc # "idle", ~Inside(w)'
        PROVE  Goal
    BY <1>1, <1>3 DEF Saved, Inside, WorkerStates
  <1>4. ASSUME worker' = Raised(w) \/ worker' = [worker EXCEPT ![w] = IdleWorker]
        PROVE  ~Inside(w)'
    <2>1. worker'[w].pc = "raised" \/ worker'[w] = IdleWorker
      BY <1>4 DEF Raised, IdleWorker, Typed, TypeOK
    <2>2. QED
      BY <2>1 DEF IdleWorker, Inside
  <1> USE DEF Typed, TypeOK
  <1>5. CASE Receive(w)
    <2>1. thread' = thread /\ worker'[w].pc \in {"idle", "loaded"}
      BY <1>1, <1>5 DEF Receive, WorkerStates
    <2>2. QED
      BY <2>1 DEF Inside
  <1>6. CASE LoadRun(w)
    BY <1>1, <1>6 DEF LoadRun, WorkerStates, Channels
  <1>7. CASE LoadResume(w) \/ RefuseResume(w)
    BY <1>1, <1>7 DEF LoadResume, RefuseResume, WorkerStates, Inside
  <1>9. CASE ReadRow(w) \/ StartNode(w) \/ TouchHeartbeat(w)
    BY <1>1, <1>9 DEF ReadRow, StartNode, TouchHeartbeat, AtNode, WorkerStates, Inside
  <1>10. CASE SkipNode(w)
    <2>1. Inside(w)
      BY <1>10 DEF SkipNode, Inside
    <2>2. QED
      BY <1>2, <1>10, <2>1 DEF SkipNode
  <1>8. CASE FinishStep(w)
    <2>0. Inside(w)
      BY <1>8 DEF FinishStep, FinishNode, FinishComparison, FinishPrioritize, PassGate, Pause,
             AnswerGate, WriteReport, FinishRun, AtNode, Inside
    <2>1. CASE WriteReport(w)
      <3>1. PICK d : Advance(w, d, "ready") /\ report'.written
        BY <2>1 DEF WriteReport
      <3>2. QED
        BY <2>0, <3>1, <1>2
    <2>2. CASE FinishNode(w)
      <3>1. PICK n \in 1..8 \ {Comparison} : Advance(w, [l.state EXCEPT !.next = n + 1], "ready")
        BY <2>2 DEF FinishNode
      <3>2. [l.state EXCEPT !.next = n + 1].next # Finalize
        <4>1. n + 1 # 12
          BY <3>1
        <4>2. [l.state EXCEPT !.next = n + 1].next = n + 1
          BY <1>1 DEF Channels
        <4>3. QED
          BY <4>1, <4>2 DEF Finalize
      <3>3. QED
        BY <1>2, <2>0, <3>1, <3>2
    <2>3. CASE FinishPrioritize(w)
      <3>1. PICK b \in BOOLEAN :
              Advance(w, [l.state EXCEPT !.next = ReviewGate, !.needs = b], "ready")
        BY <2>3 DEF FinishPrioritize
      <3>2. [l.state EXCEPT !.next = ReviewGate, !.needs = b].next = ReviewGate
        BY <1>1, <3>1, GateChannels
      <3>3. [l.state EXCEPT !.next = ReviewGate, !.needs = b].next # Finalize
        BY <3>2 DEF ReviewGate, Finalize
      <3>4. QED
        BY <1>2, <2>0, <3>1, <3>3
    <2>4. CASE FinishComparison(w)
      <3>1. Advance(w, [l.state EXCEPT !.next = ExtractClaims], "ready")
            /\ [l.state EXCEPT !.next = ExtractClaims].next # Finalize
        BY <1>1, <2>4 DEF FinishComparison, Channels, ExtractClaims, Finalize
      <3>2. QED
        BY <1>2, <2>0, <3>1
    <2>5. CASE PassGate(w)
      <3>1. Advance(w, [l.state EXCEPT !.next = GenerateReport], "ready")
            /\ [l.state EXCEPT !.next = GenerateReport].next # Finalize
        BY <1>1, <2>5 DEF PassGate, Channels, GenerateReport, Finalize
      <3>2. QED
        BY <1>2, <2>0, <3>1
    <2>6. CASE Pause(w)
      <3>1. Advance(w, [l.state EXCEPT !.asked = Len(reviews')], "done")
        BY <2>6 DEF Pause
      <3>2. [l.state EXCEPT !.asked = Len(reviews')].next = ReviewGate
        BY <1>1, <2>6 DEF Pause, AtNode, Channels
      <3>3. [l.state EXCEPT !.asked = Len(reviews')].next # Finalize
        BY <3>2 DEF ReviewGate, Finalize
      <3>4. QED
        BY <1>2, <2>0, <3>1, <3>3
    <2>7. CASE AnswerGate(w)
      <3>1. Advance(w, [l.state EXCEPT !.next = GenerateReport, !.verdict = l.answer], "ready")
            /\ l.answer \in Nat
        BY <1>1, <2>7 DEF AnswerGate, WorkerStates
      <3>2. [l.state EXCEPT !.next = GenerateReport, !.verdict = l.answer].next = GenerateReport
        BY <1>1, <3>1, GateChannels
      <3>3. [l.state EXCEPT !.next = GenerateReport, !.verdict = l.answer].next # Finalize
        BY <3>2 DEF GenerateReport, Finalize
      <3>4. QED
        BY <1>2, <2>0, <3>1, <3>3
    <2>8. CASE FinishRun(w)
      <3>1. Advance(w, [l.state EXCEPT !.next = End], "done")
            /\ [l.state EXCEPT !.next = End].next # Finalize
        BY <1>1, <2>8 DEF FinishRun, Channels, End, Finalize
      <3>2. QED
        BY <1>2, <2>0, <3>1
    <2>9. QED
      BY <1>8, <2>1, <2>2, <2>3, <2>4, <2>5, <2>6, <2>7, <2>8 DEF FinishStep
  <1>11. CASE FailRun(w) \/ FailResume(w) \/ HitTimeLimit(w) \/ Crash(w)
    <2>1. thread' \in Saved(w) /\ l.pc # "idle"
      BY <1>11 DEF FailRun, FailResume, HitTimeLimit, Crash, Invoked
    <2>2. ~Inside(w)'
      BY <1>4, <1>11 DEF FailRun, FailResume, HitTimeLimit, Crash
    <2>3. QED
      BY <1>3, <2>1, <2>2
  <1>12. CASE Acknowledge(w) \/ ReturnMessage(w)
    <2>1. ~Inside(w)'
      BY <1>4, <1>12 DEF Acknowledge, ReturnMessage
    <2>2. thread' = thread \/ (Inside(w) /\ thread' = l.state)
      BY <1>12 DEF Acknowledge, ReturnMessage, Inside
    <2>3. QED
      BY <2>1, <2>2
  <1>13. QED
    BY <1>5, <1>6, <1>7, <1>8, <1>9, <1>10, <1>11, <1>12 DEF WorkerStep, Progress, Load, Misfortune

(* What a worker's step does to the row's status and to the report. *)
LEMMA RowSteps ==
  ASSUME Typed, NEW w \in Workers, WorkerStep(w)
  PROVE  /\ status' = status \/ worker[w].pc # "idle"
         /\ report.written => report'.written
         /\ status' = status \/ status' # "awaiting_human_review"
              \/ (Inside(w) /\ worker[w].state.next = ReviewGate)
         /\ \/ status' = status \/ status' \notin Completed
            \/ /\ worker[w].pc = "starting" /\ worker[w].seen # "cancelled"
               /\ worker[w].state.next = Finalize
            \/ worker[w].pc = "working" /\ worker[w].state.next = Finalize
  <1> USE DEF Typed, TypeOK
  <1>1. CASE Receive(w) \/ Load(w) \/ ReadRow(w) \/ SkipNode(w)
    BY <1>1 DEF Receive, Load, LoadRun, LoadResume, RefuseResume, ReadRow, SkipNode, row
  <1>2. CASE StartNode(w)
    <2>1. worker[w].state.next \in 1..Finalize /\ worker[w].pc = "starting"
          /\ worker[w].seen # "cancelled"
      <3>1. worker[w].pc = "starting" /\ worker[w].seen # "cancelled"
        BY <1>2 DEF StartNode
      <3>2. worker[w].state.next # End /\ worker[w].state \in Channels
        BY <3>1 DEF InGraph, WorkerStates
      <3>3. QED
        BY <3>1, <3>2 DEF Channels, End, Finalize
    <2>2. status' \in {status, NodeStatus[worker[w].state.next]} /\ report' = report
      BY <1>2 DEF StartNode
    <2>3. QED
      BY <2>1, <2>2, OnlyFinalizeCompletes, OnlyGateAwaits DEF Inside
  <1>3. CASE FinishRun(w)
    BY <1>3 DEF FinishRun, AtNode, Completed
  <1>4. CASE FinishNode(w) \/ PassGate(w) \/ WriteReport(w)
    BY <1>4 DEF FinishNode, PassGate, WriteReport, AtNode, row
  <1>5. CASE FinishComparison(w) \/ FinishPrioritize(w) \/ Pause(w) \/ AnswerGate(w)
    BY <1>5 DEF FinishComparison, FinishPrioritize, Pause, AnswerGate, AtNode, Completed,
                Inside
  <1>6. CASE FailRun(w) \/ FailResume(w)
    BY <1>6 DEF FailRun, FailResume, RecordFailure, Invoked, Completed, row
  <1>7. CASE Acknowledge(w) \/ ReturnMessage(w) \/ Misfortune(w) \/ TouchHeartbeat(w)
    BY <1>7 DEF Acknowledge, ReturnMessage, Misfortune, HitTimeLimit, Crash, TouchHeartbeat, row
  <1>8. QED
    BY <1>1, <1>2, <1>3, <1>4, <1>5, <1>6, <1>7 DEF WorkerStep, Progress, FinishStep

(* The worker that stands to skip its node is alone on a cancelled run. *)
LEMMA SkipperIsAlone ==
  ASSUME ReportInv, NEW w \in Workers, SkipNode(w)
  PROVE  CancelledForGood
  <1>1. worker[w].pc = "starting" /\ worker[w].seen = "cancelled" /\ status = "cancelled"
    BY DEF SkipNode, ReportInv, SkipsCancelled
  <1>2. \A v \in Workers \ {w} : worker[v].pc = "idle"
    BY <1>1 DEF ReportInv, LockInv, OneWorker, Active
  <1>3. QED
    BY <1>1, <1>2 DEF CancelledForGood

LEMMA ReportClient ==
  ASSUME ReportInv, ClientStep \/ ReapSession \/ GrowStale \/ UNCHANGED vars
  PROVE  SkipsCancelled' /\ FinalizedWithReport' /\ CompletedHasReport'
  <1>1. /\ worker' = worker /\ thread' = thread /\ report' = report
        /\ status' \in {status, "cancelled"} \/ status = "absent"
        /\ status' \in {status, "cancelled", "queued"}
    BY DEF ClientStep, Post, RetryFailed, RetryStale, RequestResume, SubmitReview,
           ReadForCancel, CommitCancel, ReapSession, GrowStale, vars, row
  <1>2. CancelledForGood => CancelledForGood'
    BY <1>1 DEF CancelledForGood
  <1>3. SkipsCancelled'
    BY <1>1 DEF SkipsCancelled, ReportInv
  <1>4. FinalizedWithReport'
    BY <1>1, <1>2 DEF FinalizedWithReport, WorkersReport, CheckpointReports, Restarted,
                      Unreported, Inside, ReportInv
  <1>5. CompletedHasReport'
    BY <1>1 DEF CompletedHasReport, ReportInv, Completed
  <1>6. QED
    BY <1>3, <1>4, <1>5

(* A step of w leaves the cancellation standing, or records a failure;     *)
(* then w has raised and nobody else is at work.                           *)
LEMMA CancelledOrRestarted ==
  ASSUME ReportInv, NEW w \in Workers, WorkerStep(w), CancelledForGood
  PROVE  CancelledForGood' \/ (FailRun(w) /\ Restarted')
  <1>1. Typed
    BY DEF ReportInv, LockInv
  <1>2. CancelledForGood' \/ (FailRun(w) /\ status' = "failed")
    BY <1>1, CancelledWorkerStep
  <1>3. ASSUME FailRun(w), status' = "failed"
        PROVE  Restarted'
    <2>1. ~Inside(w)'
      BY <1>1, <1>3 DEF FailRun, Raised, IdleWorker, Inside, Typed, TypeOK
    <2>2. \A v \in Workers \ {w} : worker[v].pc = "idle"
      BY <1>3 DEF FailRun, Invoked, ReportInv, LockInv, OneWorker, Active
    <2>3. \A v \in Workers \ {w} : ~Inside(v)'
      BY <1>1, <2>2, OthersUntouched DEF Inside
    <2>4. QED
      BY <1>3, <2>1, <2>3 DEF Restarted
  <1>4. QED
    BY <1>2, <1>3

LEMMA WorkersReportStep ==
  ASSUME ReportInv, NEW w \in Workers, WorkerStep(w)
  PROVE  WorkersReport'
  <1>1. Typed /\ (Inside(w)' => ~FailRun(w)) /\ (report.written => report'.written)
    <2>1. Typed
      BY DEF ReportInv, LockInv
    <2>2. FailRun(w) => ~Inside(w)'
      BY <2>1 DEF FailRun, Raised, IdleWorker, Inside, Typed, TypeOK
    <2>3. QED
      BY <2>1, <2>2, RowSteps
  <1> SUFFICES ASSUME NEW v \in Workers, Inside(v)', worker'[v].state.next = Finalize,
                      ~report'.written
               PROVE  CancelledForGood'
    BY DEF WorkersReport, Unreported
  <1>2. CASE v # w
    <2>1. worker'[v] = worker[v] /\ Inside(v)
      BY <1>1, <1>2, OthersUntouched DEF Inside
    <2>2. CancelledForGood
      BY <1>1, <2>1 DEF ReportInv, FinalizedWithReport, WorkersReport, Unreported
    <2>3. worker[w].pc = "idle"
      BY <1>2, <2>1 DEF ReportInv, LockInv, OneWorker, Active, Inside
    <2>4. QED
      BY <2>2, <2>3, CancelledOrRestarted DEF FailRun, Invoked
  <1>3. CASE v = w
    <2>1. CancelledForGood \/ (LoadResume(w) /\ worker'[w].state = thread)
      <3>0. worker'[w].state.next = Finalize /\ ~report'.written /\ ~report.written
        BY <1>1, <1>3
      <3>1. CASE Inside(w) /\ worker'[w].state = worker[w].state
        BY <3>0, <3>1 DEF ReportInv, FinalizedWithReport, WorkersReport, Unreported
      <3>2. CASE Advances(w)
        BY <3>0, <3>2, SkipperIsAlone DEF Advances
      <3>3. QED
        BY <1>1, <1>3, <3>1, <3>2, ThreadSteps DEF Finalize
    <2>2. CASE LoadResume(w) /\ worker'[w].state = thread
      <3>1. status = "awaiting_human_review" /\ Unreported(thread)
        BY <1>1, <1>3, <2>2 DEF LoadResume, ResumeAllowed, Unreported
      <3>2. QED
        BY <3>1 DEF ReportInv, FinalizedWithReport, CheckpointReports, Restarted, CancelledForGood
    <2>3. CASE CancelledForGood
      BY <1>1, <1>3, <2>3, CancelledOrRestarted
    <2>4. QED
      BY <2>1, <2>2, <2>3
  <1>4. QED
    BY <1>2, <1>3

LEMMA CheckpointStep ==
  ASSUME ReportInv, NEW w \in Workers, WorkerStep(w)
  PROVE  CheckpointReports'
  <1>1. Typed /\ (report.written => report'.written)
    BY RowSteps DEF ReportInv, LockInv
  <1> SUFFICES ASSUME thread'.next = Finalize, ~report'.written
               PROVE  CancelledForGood' \/ Restarted'
    BY DEF CheckpointReports, Unreported
  <1>2. CancelledForGood \/ (Restarted /\ thread' = thread)
    <2>1. CASE thread' = thread
      BY <1>1, <2>1 DEF ReportInv, FinalizedWithReport, CheckpointReports, Unreported
    <2>2. CASE Inside(w) /\ thread' = worker[w].state
      BY <1>1, <2>2 DEF ReportInv, FinalizedWithReport, WorkersReport, Unreported
    <2>3. QED
      BY <1>1, <2>1, <2>2, ThreadSteps
  <1>3. CASE CancelledForGood
    BY <1>3, CancelledOrRestarted
  <1>4. CASE Restarted /\ thread' = thread
    <2>1. status' # "awaiting_human_review"
      BY <1>1, <1>4, RowSteps DEF Restarted, ReviewGate
    <2>2. ASSUME NEW v \in Workers, Inside(v)'
          PROVE  worker'[v].state.next = 1
      <3>1. CASE v # w
        BY <1>1, <1>4, <2>2, <3>1, OthersUntouched DEF Restarted, Inside
      <3>2. CASE v = w
        <4>1. ~LoadResume(w)
          BY <1>4 DEF LoadResume, ResumeAllowed, Restarted
        <4>2. ~Advances(w)
          BY <1>4 DEF Advances, Restarted, Finalize
        <4>3. QED
          BY <1>1, <1>4, <2>2, <3>2, <4>1, <4>2, ThreadSteps DEF Restarted
      <3>3. QED
        BY <3>1, <3>2
    <2>3. QED
      BY <2>1, <2>2 DEF Restarted
  <1>5. QED
    BY <1>2, <1>3, <1>4

LEMMA ReportWorker ==
  ASSUME ReportInv, NEW w \in Workers, WorkerStep(w)
  PROVE  SkipsCancelled' /\ FinalizedWithReport' /\ CompletedHasReport'
  <1>1. Typed
    BY DEF ReportInv, LockInv
  <1>2. SkipsCancelled'
    <2> SUFFICES ASSUME NEW v \in Workers, worker'[v].pc = "starting", worker'[v].seen = "cancelled"
                 PROVE  status' = "cancelled"
      BY DEF SkipsCancelled
    <2>1. CASE v # w
      <3>1. worker[v].pc = "starting" /\ worker[v].seen = "cancelled"
        BY <1>1, <2>1, OthersUntouched
      <3>2. holder = v /\ status = "cancelled"
        BY <3>1 DEF ReportInv, LockInv, OneWorker, Active, SkipsCancelled
      <3>3. worker[w].pc = "idle"
        BY <2>1, <3>2 DEF ReportInv, LockInv, OneWorker, Active
      <3>4. QED
        BY <1>1, <3>2, <3>3, RowSteps
    <2>2. CASE v = w
      <3>1. CASE ReadRow(w)
        BY <1>1, <2>2, <3>1 DEF ReadRow, row, Typed, TypeOK, WorkerStates
      <3>2. CASE LoadRun(w) \/ LoadResume(w)
        BY <1>1, <2>2, <3>2 DEF LoadRun, LoadResume, row, Typed, TypeOK, WorkerStates
      <3>3. CASE TouchHeartbeat(w)
        BY <2>2, <3>3 DEF TouchHeartbeat, ReportInv, SkipsCancelled
      <3>4. CASE Receive(w) \/ RefuseResume(w) \/ StartNode(w)
        BY <1>1, <2>2, <3>4 DEF Receive, RefuseResume, StartNode, Typed, TypeOK, WorkerStates
      <3>5. CASE SkipNode(w)
        BY <1>1, <2>2, <3>5 DEF SkipNode, Advance, Typed, TypeOK, WorkerStates
      <3>6. CASE FinishStep(w)
        <4>1. ASSUME NEW d, NEW pc \in {"ready", "done"}, Advance(w, d, pc)
              PROVE  worker'[w].pc # "starting"
          BY <1>1, <4>1 DEF Advance, Typed, TypeOK, WorkerStates
        <4>2. CASE FinishNode(w) \/ FinishComparison(w) \/ PassGate(w) \/ WriteReport(w)
          BY <2>2, <4>1, <4>2 DEF FinishNode, FinishComparison, PassGate, WriteReport
        <4>3. CASE FinishPrioritize(w) \/ AnswerGate(w)
          BY <2>2, <4>1, <4>3 DEF FinishPrioritize, AnswerGate
        <4>4. CASE Pause(w) \/ FinishRun(w)
          BY <2>2, <4>1, <4>4 DEF Pause, FinishRun
        <4>5. QED
          BY <3>6, <4>2, <4>3, <4>4 DEF FinishStep
      <3>7. CASE FailRun(w) \/ FailResume(w) \/ HitTimeLimit(w)
        BY <1>1, <2>2, <3>7 DEF FailRun, FailResume, HitTimeLimit, Raised, IdleWorker, Typed, TypeOK
      <3>8. CASE Acknowledge(w) \/ ReturnMessage(w) \/ Crash(w)
        BY <1>1, <2>2, <3>8 DEF Acknowledge, ReturnMessage, Crash, IdleWorker, Typed, TypeOK
      <3>9. QED
        BY <3>1, <3>2, <3>3, <3>4, <3>5, <3>6, <3>7, <3>8
           DEF WorkerStep, Progress, Load, Misfortune
    <2>3. QED
      BY <2>1, <2>2
  <1>3. WorkersReport' /\ CheckpointReports'
    BY WorkersReportStep, CheckpointStep
  <1>4. CompletedHasReport'
    <2> SUFFICES ASSUME status' \in Completed, ~report'.written
                 PROVE  FALSE
      BY DEF CompletedHasReport
    <2>1. status \notin Completed /\ ~report.written
      BY <1>1, RowSteps DEF ReportInv, CompletedHasReport
    <2>2. /\ worker[w].state.next = Finalize
          /\ \/ worker[w].pc = "working"
             \/ worker[w].pc = "starting" /\ worker[w].seen # "cancelled"
      BY <1>1, <2>1, RowSteps
    <2>3. CancelledForGood
      BY <2>1, <2>2 DEF ReportInv, FinalizedWithReport, WorkersReport, Unreported, Inside
    <2>4. QED
      BY <2>2, <2>3 DEF CancelledForGood
  <1>5. QED
    BY <1>2, <1>3, <1>4 DEF FinalizedWithReport

LEMMA ReportInvariant == Spec => []ReportInv
  <1>1. Init => ReportInv
    <2> SUFFICES ASSUME Init PROVE ReportInv
      OBVIOUS
    <2>1. LockInv
      BY TypedInit DEF LockInv, Init, OneWorker, Active, IdleWorker
    <2>2. SkipsCancelled /\ CompletedHasReport
      BY DEF Init, SkipsCancelled, CompletedHasReport, IdleWorker, Completed
    <2>3. FinalizedWithReport
      BY DEF Init, IdleWorker, NewThread, Finalize, FinalizedWithReport, WorkersReport,
             CheckpointReports, Unreported
    <2>4. QED
      BY <2>1, <2>2, <2>3 DEF ReportInv
  <1>2. ReportInv /\ [Next]_vars => ReportInv'
    <2> SUFFICES ASSUME ReportInv, [Next]_vars PROVE ReportInv'
      OBVIOUS
    <2>1. LockInv'
      BY TypedStep, OneWorkerStep DEF ReportInv, LockInv
    <2>2. SkipsCancelled' /\ FinalizedWithReport' /\ CompletedHasReport'
      BY ReportClient, ReportWorker DEF Next, WorkerStep
    <2>3. QED
      BY <2>1, <2>2 DEF ReportInv
  <1>3. QED
    BY <1>1, <1>2, PTL DEF Spec

(***************************************************************************)
(* A run that says it completed has its report: although finalize_analysis *)
(* commits "completed" before it does anything, no cancellation, restart   *)
(* or resume takes the graph there around generate_report.                 *)
(***************************************************************************)
THEOREM CompletionHasReport == Spec => []CompletedHasReport
  <1>1. ReportInv => CompletedHasReport
    BY DEF ReportInv
  <1>2. QED
    BY <1>1, ReportInvariant, PTL

-----------------------------------------------------------------------------
(* A report of a run that needed review carries a decision on the question *)
(* last asked, or on a later one.                                          *)

(* Requests are only added, and a decision is never taken back. *)
LEMMA ReviewsGrow ==
  ASSUME Typed, [Next]_vars
  PROVE  /\ Len(reviews) \in Nat /\ Len(reviews') \in Nat
         /\ Len(reviews') >= Len(reviews)
         /\ \A r \in DOMAIN reviews :
              r \in DOMAIN reviews' /\ (reviews[r] = "decided" => reviews'[r] = "decided")
  <1> USE DEF Typed, TypeOK
  <1>1. CASE reviews' = reviews
    BY <1>1
  <1>2. CASE SubmitReview
    BY <1>2 DEF SubmitReview, HasPending
  <1>3. CASE reviews' = Append(reviews, "pending")
    BY <1>3
  <1>4. ASSUME NEW w \in Workers, WorkerStep(w)
        PROVE  reviews' = reviews \/ reviews' = Append(reviews, "pending")
    <2>1. CASE Receive(w) \/ Load(w) \/ ReadRow(w) \/ StartNode(w) \/ SkipNode(w)
      BY <2>1 DEF Receive, Load, LoadRun, LoadResume, RefuseResume, ReadRow, StartNode, SkipNode
    <2>2. CASE Pause(w) \/ AnswerGate(w)
      BY <2>2 DEF Pause, AnswerGate, WithPendingRequest
    <2>3. CASE FinishNode(w) \/ FinishComparison(w) \/ FinishPrioritize(w) \/ PassGate(w)
               \/ WriteReport(w) \/ FinishRun(w)
      BY <2>3 DEF FinishNode, FinishComparison, FinishPrioritize, PassGate, WriteReport, FinishRun
    <2>4. CASE FailRun(w) \/ FailResume(w) \/ Acknowledge(w) \/ ReturnMessage(w)
               \/ Misfortune(w) \/ TouchHeartbeat(w)
      BY <2>4 DEF FailRun, FailResume, Acknowledge, ReturnMessage, Misfortune, HitTimeLimit,
                  Crash, TouchHeartbeat
    <2>5. QED
      BY <1>4, <2>1, <2>2, <2>3, <2>4 DEF WorkerStep, Progress, FinishStep
  <1>5. CASE ReapSession \/ GrowStale \/ UNCHANGED vars \/ (ClientStep /\ ~SubmitReview)
    <2>1. reviews' = reviews
      BY <1>5 DEF ReapSession, GrowStale, vars, ClientStep, Post, RetryFailed, RetryStale,
                  RequestResume, ReadForCancel, CommitCancel
    <2>2. QED
      BY <1>1, <2>1
  <1>6. QED
    BY <1>1, <1>2, <1>3, <1>4, <1>5 DEF Next, WorkerStep

(* An answer stays one. *)
LEMMA AnswersStable ==
  ASSUME Typed, [Next]_vars, NEW r, NEW c, Answers(r, c)
  PROVE  Answers(r, c)'
BY ReviewsGrow DEF Answers

-----------------------------------------------------------------------------
(* Where a copy of the channels can come from. *)

(* c asks what a copy asked before, and does not stand before the report   *)
(* of a run that needs review.                                             *)
Kept(c) == \E d \in Threads : c.asked = d.asked /\ (c.next # GenerateReport \/ ~c.needs)

Asks(c) == c.asked = Len(reviews') /\ c.next # GenerateReport

Answered(w, c) == /\ worker[w].answer # 0
                  /\ c.verdict = worker[w].answer /\ c.asked = worker[w].state.asked

LEMMA ThreadSources ==
  ASSUME Typed, NEW w \in Workers, WorkerStep(w), NEW c \in Threads'
  PROVE  c \in Threads \/ Kept(c) \/ c = NewThread \/ Asks(c) \/ Answered(w, c)
  <1> DEFINE l == worker[w]
             s == worker[w].state
             Kind(d) == d \in Threads \/ Kept(d) \/ d = NewThread \/ Asks(d) \/ Answered(w, d)
  <1>1. l \in WorkerStates /\ s \in Channels /\ thread \in Channels
        /\ s \in Threads /\ thread \in Threads /\ l.answer \in Nat
    BY DEF Typed, TypeOK, WorkerStates, Threads
  <1>2. SUFFICES Kind(thread') /\ Kind(worker'[w].state)
    BY ThreadsChange
  <1>3. ASSUME NEW d, NEW pc, Advance(w, d, pc), Kind(d)
        PROVE  Kind(thread') /\ Kind(worker'[w].state)
    <2>1. thread' = s /\ worker'[w].state = d
      BY <1>1, <1>3 DEF Advance, Typed, TypeOK, WorkerStates
    <2>2. QED
      BY <1>1, <1>3, <2>1
  <1>4. ASSUME NEW n \in 1..End, n # GenerateReport \/ ~s.needs
        PROVE  Kind([s EXCEPT !.next = n])
    BY <1>1, <1>4 DEF Kept, Channels
  <1> USE DEF Typed, TypeOK
  <1>5. CASE Receive(w)
    <2>1. thread' = thread /\ worker'[w].state = s
      BY <1>1, <1>5 DEF Receive, WorkerStates
    <2>2. QED
      BY <1>1, <2>1
  <1>6. CASE LoadRun(w)
    <2> DEFINE d == [thread EXCEPT !.next = 1]
    <2>1. thread' = thread /\ worker'[w].state = d
      BY <1>1, <1>6 DEF LoadRun, WorkerStates
    <2>2. Kept(d)
      BY <1>1 DEF Kept, Channels, GenerateReport
    <2>3. QED
      BY <1>1, <2>1, <2>2
  <1>7. CASE LoadResume(w) \/ RefuseResume(w) \/ ReadRow(w) \/ StartNode(w) \/ TouchHeartbeat(w)
    <2>1. thread' = thread /\ worker'[w].state \in {s, thread}
      BY <1>1, <1>7 DEF LoadResume, RefuseResume, ReadRow, StartNode, TouchHeartbeat, WorkerStates
    <2>2. QED
      BY <1>1, <2>1
  <1>8. CASE SkipNode(w)
    <2> DEFINE n == IF s.next = ReviewGate THEN End ELSE s.next + 1
    <2>1. s.next \in 1..Finalize
      <3>1. s.next # End /\ s.next \in 1..End
        BY <1>1, <1>8 DEF SkipNode, InGraph, Channels
      <3>2. QED
        BY <3>1 DEF End, Finalize
    <2>2. n \in 1..End /\ n # GenerateReport
      <3>1. ASSUME NEW m \in 1..Finalize
            PROVE  /\ (IF m = ReviewGate THEN End ELSE m + 1) \in 1..End
                   /\ (IF m = ReviewGate THEN End ELSE m + 1) # GenerateReport
        BY <3>1 DEF End, Finalize, ReviewGate, GenerateReport
      <3>2. QED
        BY <2>1, <3>1
    <2>3. QED
      BY <1>3, <1>4, <1>8, <2>2 DEF SkipNode
  <1>9. CASE FinishNode(w)
    <2>1. PICK n \in 1..8 \ {Comparison} : Advance(w, [s EXCEPT !.next = n + 1], "ready")
      BY <1>9 DEF FinishNode
    <2>2. n + 1 \in 1..End /\ n + 1 # GenerateReport
      BY <2>1 DEF End, GenerateReport
    <2>3. QED
      BY <1>3, <1>4, <2>1, <2>2
  <1>10. CASE FinishComparison(w) \/ WriteReport(w) \/ FinishRun(w) \/ PassGate(w)
    <2>1. /\ {ExtractClaims, Finalize, End, GenerateReport} \subseteq 1..End
          /\ GenerateReport \notin {ExtractClaims, Finalize, End}
      BY DEF ExtractClaims, Finalize, End, GenerateReport
    <2>2. CASE FinishComparison(w)
      BY <1>3, <1>4, <2>1, <2>2 DEF FinishComparison
    <2>3. CASE WriteReport(w)
      BY <1>3, <1>4, <2>1, <2>3 DEF WriteReport
    <2>4. CASE FinishRun(w)
      BY <1>3, <1>4, <2>1, <2>4 DEF FinishRun
    <2>5. CASE PassGate(w)
      BY <1>3, <1>4, <2>1, <2>5 DEF PassGate
    <2>6. QED
      BY <1>10, <2>2, <2>3, <2>4, <2>5
  <1>11. CASE FinishPrioritize(w)
    <2>1. PICK b \in BOOLEAN :
            Advance(w, [s EXCEPT !.next = ReviewGate, !.needs = b], "ready")
      BY <1>11 DEF FinishPrioritize
    <2> DEFINE d == [s EXCEPT !.next = ReviewGate, !.needs = b]
    <2>2. d.next = ReviewGate
      BY <1>1, <2>1, GateChannels
    <2>3. d.asked = s.asked
      BY <1>1 DEF Channels
    <2>4. Kept(d)
      BY <1>1, <2>2, <2>3 DEF Kept, ReviewGate, GenerateReport
    <2>5. QED
      BY <1>3, <2>1, <2>4
  <1>12. CASE Pause(w)
    <2> DEFINE d == [s EXCEPT !.asked = Len(reviews')]
    <2>1. d.asked = Len(reviews') /\ d.next = ReviewGate
      BY <1>1, <1>12 DEF Pause, AtNode, Channels
    <2>2. Asks(d)
      BY <2>1 DEF Asks, ReviewGate, GenerateReport
    <2>3. QED
      BY <1>3, <1>12, <2>2 DEF Pause
  <1>13. CASE AnswerGate(w)
    <2> DEFINE d == [s EXCEPT !.next = GenerateReport, !.verdict = l.answer]
    <2>1. d.verdict = l.answer /\ d.asked = s.asked
      BY <1>1 DEF Channels
    <2>2. Answered(w, d)
      BY <1>13, <2>1 DEF Answered, AnswerGate
    <2>3. QED
      BY <1>3, <1>13, <2>2 DEF AnswerGate
  <1>14. CASE FailRun(w) \/ FailResume(w) \/ HitTimeLimit(w)
    <2>1. thread' \in {thread, s} /\ worker'[w].state = NewThread
      BY <1>1, <1>14 DEF FailRun, FailResume, HitTimeLimit, Saved, Raised, IdleWorker
    <2>2. QED
      BY <1>1, <2>1
  <1>15. CASE Acknowledge(w) \/ ReturnMessage(w) \/ Crash(w)
    <2>1. thread' \in {thread, s} /\ worker'[w].state = NewThread
      BY <1>1, <1>15 DEF Acknowledge, ReturnMessage, Crash, Saved, IdleWorker
    <2>2. QED
      BY <1>1, <2>1
  <1>16. QED
    BY <1>5, <1>6, <1>7, <1>8, <1>9, <1>10, <1>11, <1>12, <1>13, <1>14, <1>15
       DEF WorkerStep, Progress, Load, FinishStep, Misfortune

-----------------------------------------------------------------------------
(* The invariant. *)

LEMMA ThreadsKeepAnswers ==
  ASSUME ReviewInv, [Next]_vars, Threads' \subseteq Threads
  PROVE  AskedBefore' /\ ReportedWithAnswer'
  <1>1. Typed
    BY DEF ReviewInv
  <1>2. AskedBefore'
    <2>1. \A c \in Threads : c.asked \in Nat
      BY <1>1 DEF Typed, TypeOK, Threads, WorkerStates, Channels
    <2>2. QED
      BY <1>1, <2>1, ReviewsGrow DEF ReviewInv, AskedBefore
  <1>3. ReportedWithAnswer'
    BY <1>1, AnswersStable DEF ReviewInv, ReportedWithAnswer
  <1>4. QED
    BY <1>2, <1>3

(* Steps that touch neither the workers, the thread nor the report. *)
LEMMA ReviewClient ==
  ASSUME ReviewInv, [Next]_vars, UNCHANGED <<worker, thread, report>>
  PROVE  AskedBefore' /\ CarriedAnswer' /\ ReportedWithAnswer' /\ ReportIsReviewed'
  <1>1. Typed
    BY DEF ReviewInv
  <1>2. AskedBefore' /\ ReportedWithAnswer'
    BY ThreadsKeepAnswers DEF Threads
  <1>3. CarriedAnswer'
    BY <1>1, AnswersStable DEF ReviewInv, CarriedAnswer
  <1>4. ReportIsReviewed'
    BY <1>1, ReviewsGrow DEF ReviewInv, ReportIsReviewed
  <1>5. QED
    BY <1>2, <1>3, <1>4

LEMMA ReviewWorker ==
  ASSUME ReviewInv, NEW w \in Workers, WorkerStep(w)
  PROVE  AskedBefore' /\ CarriedAnswer' /\ ReportedWithAnswer' /\ ReportIsReviewed'
  <1> DEFINE l == worker[w]
  <1>1. /\ Typed /\ [Next]_vars
        /\ l \in WorkerStates /\ l.state \in Threads /\ thread \in Threads
    BY DEF ReviewInv, Next, WorkerStep, Typed, TypeOK, Threads
  <1>2. \A c \in Threads : c.asked \in Nat /\ c.asked <= Len(reviews)
    BY <1>1 DEF ReviewInv, AskedBefore, Typed, TypeOK, Threads, WorkerStates, Channels
  <1>3. AskedBefore'
    <2> SUFFICES ASSUME NEW c \in Threads'
                 PROVE  c.asked <= Len(reviews')
      BY DEF AskedBefore
    <2>1. (\E d \in Threads : c.asked = d.asked) \/ c.asked = Len(reviews') \/ c.asked = 0
      BY <1>1, ThreadSources DEF Kept, Asks, Answered, NewThread
    <2>2. QED
      BY <1>1, <1>2, <2>1, ReviewsGrow
  <1>4. ReportedWithAnswer'
    <2> SUFFICES ASSUME NEW c \in Threads', c.next = GenerateReport, c.needs
                 PROVE  Answers(c.verdict, c)'
      BY DEF ReportedWithAnswer, Answers
    <2>1. c \in Threads \/ Answered(w, c)
      BY <1>1, ThreadSources DEF Kept, Asks, NewThread, GenerateReport
    <2>2. Answers(c.verdict, c)
      BY <2>1 DEF ReviewInv, ReportedWithAnswer, CarriedAnswer, Answered, Answers
    <2>3. QED
      BY <1>1, <2>2, AnswersStable
  <1>5. CarriedAnswer'
    <2> DEFINE Still(r, c) == r \in DOMAIN reviews' /\ reviews'[r] = "decided" /\ r >= c.asked
    <2> SUFFICES ASSUME NEW v \in Workers, worker'[v].answer # 0
                 PROVE  Still(worker'[v].answer, worker'[v].state)
      BY DEF CarriedAnswer, Answers
    <2>1. CASE worker'[v].answer = worker[v].answer /\ worker'[v].state = worker[v].state
      <3>1. Answers(worker[v].answer, worker[v].state)
        BY <2>1 DEF ReviewInv, CarriedAnswer
      <3>2. QED
        BY <1>1, <2>1, <3>1, ReviewsGrow DEF Answers
    <2>2. CASE v # w
      BY <1>1, <2>1, <2>2, OthersUntouched
    <2>3. CASE v = w /\ LoadResume(w)
      <3>1. /\ worker'[w].answer = Len(reviews) /\ worker'[w].state = thread
            /\ reviews # <<>> /\ reviews[Len(reviews)] = "decided" /\ reviews' = reviews
        BY <1>1, <2>3 DEF LoadResume, ResumeAllowed, LatestDecided, Typed, TypeOK, WorkerStates
      <3>2. Len(reviews) \in DOMAIN reviews /\ thread.asked <= Len(reviews)
        BY <1>1, <1>2, <3>1 DEF Typed, TypeOK
      <3>3. QED
        BY <2>3, <3>1, <3>2
    <2>4. CASE v = w /\ ~LoadResume(w)
      <3>1. ASSUME NEW d, NEW pc, Advance(w, d, pc)
            PROVE  worker'[w].answer = 0
        BY <1>1, <3>1 DEF Advance, Typed, TypeOK, WorkerStates
      <3>2. CASE SkipNode(w) \/ FinishComparison(w) \/ PassGate(w) \/ WriteReport(w)
                 \/ FinishRun(w)
        BY <2>4, <3>1, <3>2 DEF SkipNode, FinishComparison, PassGate, WriteReport, FinishRun
      <3>3. CASE FinishNode(w) \/ FinishPrioritize(w) \/ Pause(w) \/ AnswerGate(w)
        BY <2>4, <3>1, <3>3 DEF FinishNode, FinishPrioritize, Pause, AnswerGate
      <3>4. CASE LoadRun(w) \/ Acknowledge(w) \/ ReturnMessage(w) \/ Crash(w)
        BY <1>1, <2>4, <3>4 DEF LoadRun, Acknowledge, ReturnMessage, Crash, IdleWorker,
                                Typed, TypeOK, WorkerStates
      <3>5. CASE Receive(w) \/ RefuseResume(w) \/ ReadRow(w) \/ StartNode(w)
        BY <1>1, <2>1, <2>4, <3>5 DEF Receive, RefuseResume, ReadRow, StartNode,
                                      Typed, TypeOK, WorkerStates
      <3>6. CASE FailRun(w) \/ FailResume(w) \/ HitTimeLimit(w)
        BY <1>1, <2>4, <3>6 DEF FailRun, FailResume, HitTimeLimit, Raised, IdleWorker,
                                Typed, TypeOK
      <3>7. CASE TouchHeartbeat(w)
        BY <2>1, <2>4, <3>7 DEF TouchHeartbeat
      <3>8. QED
        BY <2>4, <3>2, <3>3, <3>4, <3>5, <3>6, <3>7
           DEF WorkerStep, Progress, Load, FinishStep, Misfortune
    <2>5. QED
      BY <2>2, <2>3, <2>4
  <1>6. ReportIsReviewed'
    <2>1. CASE WriteReport(w)
      <3>1. /\ report' = [needs |-> l.state.needs, verdict |-> l.state.verdict,
                          asked |-> l.state.asked, written |-> TRUE]
            /\ l.state.next = GenerateReport /\ reviews' = reviews
        BY <2>1 DEF WriteReport, AtNode
      <3>2. l.state.needs => Answers(l.state.verdict, l.state)
        BY <1>1, <3>1 DEF ReviewInv, ReportedWithAnswer
      <3>3. QED
        BY <3>1, <3>2 DEF ReportIsReviewed, Answers
    <2>2. CASE report' = report
      BY <1>1, <2>2, ReviewsGrow DEF ReviewInv, ReportIsReviewed
    <2>3. CASE ~WriteReport(w)
      <3>1. report' = report
        BY <2>3 DEF WorkerStep, Progress, Load, FinishStep, Misfortune, Receive, LoadRun,
           LoadResume, RefuseResume, ReadRow, StartNode, SkipNode, FinishNode, FinishComparison,
           FinishPrioritize, PassGate, Pause, AnswerGate, FinishRun, FailRun, FailResume,
           Acknowledge, ReturnMessage, HitTimeLimit, Crash, TouchHeartbeat
      <3>2. QED
        BY <2>2, <3>1
    <2>4. QED
      BY <2>1, <2>3
  <1>7. QED
    BY <1>3, <1>4, <1>5, <1>6

LEMMA ReviewInvariant == Spec => []ReviewInv
  <1>1. Init => ReviewInv
    <2> SUFFICES ASSUME Init PROVE ReviewInv
      OBVIOUS
    <2>1. Typed
      BY TypedInit
    <2>2. \A c \in Threads : c = NewThread
      BY DEF Init, Threads, IdleWorker
    <2>3. AskedBefore /\ ReportedWithAnswer
      BY <2>2 DEF Init, AskedBefore, ReportedWithAnswer, NewThread, GenerateReport
    <2>4. CarriedAnswer /\ ReportIsReviewed
      BY DEF Init, CarriedAnswer, ReportIsReviewed, IdleWorker, NoReport
    <2>5. QED
      BY <2>1, <2>3, <2>4 DEF ReviewInv
  <1>2. ReviewInv /\ [Next]_vars => ReviewInv'
    <2> SUFFICES ASSUME ReviewInv, [Next]_vars PROVE ReviewInv'
      OBVIOUS
    <2>1. Typed'
      BY TypedStep DEF ReviewInv
    <2>2. CASE ClientStep \/ ReapSession \/ GrowStale \/ UNCHANGED vars
      <3>1. UNCHANGED <<worker, thread, report>>
        BY <2>2 DEF ClientStep, Post, RetryFailed, RetryStale, RequestResume, SubmitReview,
                    ReadForCancel, CommitCancel, ReapSession, GrowStale, vars
      <3>2. QED
        BY <2>1, <3>1, ReviewClient DEF ReviewInv
    <2>3. ASSUME NEW w \in Workers, WorkerStep(w)
          PROVE  ReviewInv'
      BY <2>1, <2>3, ReviewWorker DEF ReviewInv
    <2>4. QED
      BY <2>2, <2>3 DEF Next, WorkerStep
  <1>3. QED
    BY <1>1, <1>2, PTL DEF Spec

(***************************************************************************)
(* A report of a run that needed review carries a decided review request,  *)
(* no older than the last question the thread asked, under any number of   *)
(* late, repeated or redelivered resume messages.                          *)
(***************************************************************************)
THEOREM ReportsAreReviewed == Spec => []ReportIsReviewed
  <1>1. ReviewInv => ReportIsReviewed
    BY DEF ReviewInv
  <1>2. QED
    BY <1>1, ReviewInvariant, PTL

=============================================================================
