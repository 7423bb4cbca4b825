----------------------------- MODULE StageLocks -----------------------------
(* The per-filing and per-comparison advisory locks of the worker's stages,   *)
(* and the connection pool they travel through.                               *)
(*                                                                            *)
(* A worker invocation (workers/async_runner.py) owns the pool of             *)
(* db/session.py until it disposes it at its end.  Its session takes the      *)
(* connection that has been idle longest when a transaction begins and gives  *)
(* it back when the transaction ends.  Comparison and claim extraction hold   *)
(* their lock on a connection of its own (held_advisory_lock); the other      *)
(* stages take it on the session's connection, commit, and release it in the  *)
(* transaction that follows.  Postgres ties a lock to the connection that     *)
(* took it.  The connection of the run lock never reaches the pool before the *)
(* invocation ends, and is left out; RunLock has it.                          *)
EXTENDS Naturals, Sequences

CONSTANTS Workers,   \* worker processes
          MaxJobs    \* bound: messages the workers receive in a behaviour


Stages == {"process", "compare", "extract", "verify", "analyze", "filing_claims"}
OnItsOwnConnection == {"compare", "extract"}

(* advisory_lock_key of each repository: the identifier moved by a power of   *)
(* two of its own, so that one identifier has a different lock in each.  Two  *)
(* identifiers whose moved values collide are left out.                       *)
FilingKey(id) == <<id, 0>>
ComparisonKey(id) == <<id, 62>>
FinancialKey(id) == <<id, 61>>
CopiedKey(id) == <<id, 61>>   \* mutant: the offset of the financial repository
ContradictionKey(id) == <<id, 60>>

(* The lock of a stage: of the filing, or of the comparison made with it.     *)
Key(s) ==
  CASE s = "process" -> FilingKey("filing")
    [] s = "filing_claims" -> FinancialKey("filing")
    [] s = "compare" -> ComparisonKey("comparison")
    [] s = "analyze" -> ContradictionKey("comparison")
    [] OTHER -> FinancialKey("comparison")   \* extract, verify

Keys == {Key(s) : s \in Stages}

(* The locked stages of the analysis workflow, in order.                      *)
Workflow == <<"process", "compare", "extract", "verify", "analyze">>

(* The actors of workers/tasks.py that take one of these locks.               *)
Actors == {"process", "compare", "verify", "analyze", "filing_claims"}

NoConn == 0

ASSUME Assumptions == MaxJobs \in Nat /\ NoConn \notin Workers

Free == [worker |-> NoConn, conn |-> NoConn, depth |-> 0]

VARIABLES
  opened,     \* worker -> connections of its pool, idle or not
  pool,       \* worker -> its idle connections, the longest idle first
  session,    \* worker -> connection of the session's open transaction
  dedicated,  \* worker -> connection held_advisory_lock has checked out
  holder,     \* key -> connection that holds its lock, and how often
  pc,         \* worker -> where its invocation is
  todo,       \* worker -> stages of the invocation not finished yet
  inflow,     \* worker -> whether it runs the workflow
  ok,         \* worker -> whether the current stage raised nothing
  done,       \* stages whose effects are committed
  passed,     \* worker -> whether its workflow passed the readiness guard
  jobs        \* messages received

vars == <<opened, pool, session, dedicated, holder, pc, todo, inflow, ok, done, passed, jobs>>
conns == <<opened, pool, session, dedicated>>

Init ==
  /\ opened = [w \in Workers |-> 0]
  /\ pool = [w \in Workers |-> <<>>]
  /\ session = [w \in Workers |-> NoConn]
  /\ dedicated = [w \in Workers |-> NoConn]
  /\ holder = [k \in Keys |-> Free]
  /\ pc = [w \in Workers |-> "idle"]
  /\ todo = [w \in Workers |-> <<>>]
  /\ inflow = [w \in Workers |-> FALSE]
  /\ ok = [w \in Workers |-> TRUE]
  /\ done = {}
  /\ passed = [w \in Workers |-> FALSE]
  /\ jobs = 0

-----------------------------------------------------------------------------
(* The pool.  Connections of a worker are numbered as they are opened; one    *)
(* that is replaced after the database dropped it keeps its number.           *)

Longest(w) == IF pool[w] = <<>> THEN opened[w] + 1 ELSE Head(pool[w])
Rest(w) == IF pool[w] = <<>> THEN <<>> ELSE Tail(pool[w])
Checkout(w) == opened' = [opened EXCEPT ![w] = IF pool[w] = <<>> THEN @ + 1 ELSE @]

(* A transaction of the session from begin to end.                            *)
Rotated(w) == Append(Rest(w), Longest(w))

(* The session's transaction ends.                                            *)
EndSession(w) ==
  /\ pool' = [pool EXCEPT ![w] = Append(@, session[w])]
  /\ session' = [session EXCEPT ![w] = NoConn]
  /\ UNCHANGED opened

(* The session begins a transaction.                                          *)
BeginSession(w) ==
  /\ session' = [session EXCEPT ![w] = Longest(w)]
  /\ pool' = [pool EXCEPT ![w] = Rest(w)]
  /\ Checkout(w)

(* The session has a transaction of its own between two others.               *)
PassThrough(w) ==
  /\ pool' = [pool EXCEPT ![w] = Rotated(w)]
  /\ Checkout(w)
  /\ UNCHANGED session

Stage(w) == Head(todo[w])
HeldOn(k, w, c) == holder[k].worker = w /\ holder[k].conn = c
LockableAlways(k, w, c) ==   \* mutant: the lock of another worker does not count
  holder[k].worker # w \/ HeldOn(k, w, c)
Lockable(k, w, c) == holder[k] = Free \/ HeldOn(k, w, c)

(* pg_try_advisory_lock and pg_advisory_unlock: locks nest on a connection,   *)
(* and unlocking on a connection that does not hold the lock changes nothing. *)
Locked(k, w, c) == [worker |-> w, conn |-> c, depth |-> holder[k].depth + 1]
UnlockedOnce(k, w, c) ==   \* mutant: the last unlock is forgotten
  IF HeldOn(k, w, c) /\ holder[k].depth > 1 THEN [holder[k] EXCEPT !.depth = @ - 1]
  ELSE holder[k]
Unlocked(k, w, c) ==
  IF ~HeldOn(k, w, c) THEN holder[k]
  ELSE IF holder[k].depth > 1 THEN [holder[k] EXCEPT !.depth = @ - 1]
  ELSE Free

-----------------------------------------------------------------------------
(* A message reaches an idle worker: one stage, or the whole workflow, whose  *)
(* session has a transaction open when the first node starts.                 *)
Receive(w) ==
  /\ pc[w] = "idle"
  /\ jobs < MaxJobs
  /\ jobs' = jobs + 1
  /\ \/ /\ \E s \in Actors : todo' = [todo EXCEPT ![w] = <<s>>]
        /\ inflow' = [inflow EXCEPT ![w] = FALSE]
        /\ pc' = [pc EXCEPT ![w] = "try"]
        /\ UNCHANGED <<opened, pool, session>>
     \/ /\ todo' = [todo EXCEPT ![w] = Workflow]
        /\ inflow' = [inflow EXCEPT ![w] = TRUE]
        /\ pc' = [pc EXCEPT ![w] = "node"]
        /\ BeginSession(w)
  /\ ok' = [ok EXCEPT ![w] = TRUE]
  /\ passed' = [passed EXCEPT ![w] = FALSE]
  /\ UNCHANGED <<dedicated, holder, done>>

(* _node records that the node started, commits and closes the session.       *)
StartNode(w) ==
  /\ pc[w] = "node"
  /\ pc' = [pc EXCEPT ![w] = "try"]
  /\ \/ session[w] # NoConn /\ EndSession(w)
     \/ session[w] = NoConn /\ PassThrough(w)
  /\ UNCHANGED <<dedicated, holder, todo, inflow, ok, done, passed, jobs>>

(* ensure_filings_processed: a filing that is ready is not processed again.   *)
SkipProcessing(w) ==
  /\ pc[w] = "try"
  /\ inflow[w]
  /\ Stage(w) = "process"
  /\ "process" \in done
  /\ BeginSession(w)
  /\ pc' = [pc EXCEPT ![w] = "finish"]
  /\ UNCHANGED <<dedicated, holder, todo, inflow, ok, done, passed, jobs>>

(* The lock is taken on the longest idle connection.                          *)
TakeLock(w) ==
  LET k == Key(Stage(w)) IN
  /\ pc[w] = "try"
  /\ Lockable(k, w, Longest(w))
  /\ holder' = [holder EXCEPT ![k] = Locked(k, w, Longest(w))]
  /\ \/ /\ Stage(w) \in OnItsOwnConnection
        /\ dedicated' = [dedicated EXCEPT ![w] = Longest(w)]
        /\ pool' = [pool EXCEPT ![w] = Rest(w)]
        /\ Checkout(w)
        /\ UNCHANGED session
     \/ /\ Stage(w) \notin OnItsOwnConnection
        /\ BeginSession(w)
        /\ UNCHANGED dedicated
  /\ pc' = [pc EXCEPT ![w] = "work"]
  /\ UNCHANGED <<todo, inflow, ok, done, passed, jobs>>

(* The lock is held elsewhere: the stage returns without doing anything.  In  *)
(* the workflow only processing and comparison look at what came of it: an    *)
(* extraction that was refused leaves no batch of the run unfinished, and the *)
(* two stages after it report completion whatever their service returned.     *)
LockRefused(w) ==
  LET k == Key(Stage(w)) IN
  /\ pc[w] = "try"
  /\ ~Lockable(k, w, Longest(w))
  /\ IF Stage(w) \in OnItsOwnConnection
       THEN PassThrough(w)
       ELSE BeginSession(w)
  /\ ok' = [ok EXCEPT ![w] = Stage(w) \in {"process", "compare"} => Stage(w) \in done]
  /\ pc' = [pc EXCEPT ![w] = "finish"]
  /\ UNCHANGED <<dedicated, holder, todo, inflow, done, passed, jobs>>

(* The transactions of the stage's work: it commits, or it fails and rolls    *)
(* back.  The session keeps no connection either way.                         *)
EndWork(w) ==
  /\ pc[w] = "work"
  /\ \/ session[w] # NoConn /\ EndSession(w)
     \/ session[w] = NoConn /\ PassThrough(w)
  /\ pc' = [pc EXCEPT ![w] = "release"]
  /\ UNCHANGED <<dedicated, holder, todo, inflow, passed, jobs>>

Work(w) ==
  /\ EndWork(w)
  /\ done' = done \union {Stage(w)}
  /\ UNCHANGED ok

FailWork(w) ==
  /\ EndWork(w)
  /\ ok' = [ok EXCEPT ![w] = FALSE]
  /\ UNCHANGED done

(* The lock is released: on the connection that took it, which goes back to   *)
(* the pool, or in a new transaction of the session.                          *)
Release(w) ==
  LET k == Key(Stage(w)) IN
  /\ pc[w] = "release"
  /\ \/ /\ Stage(w) \in OnItsOwnConnection
        /\ holder' = [holder EXCEPT ![k] = Unlocked(k, w, dedicated[w])]
        /\ pool' = [pool EXCEPT ![w] = Append(@, dedicated[w])]
        /\ dedicated' = [dedicated EXCEPT ![w] = NoConn]
        /\ UNCHANGED <<opened, session>>
     \/ /\ Stage(w) \notin OnItsOwnConnection
        /\ holder' = [holder EXCEPT ![k] = Unlocked(k, w, Longest(w))]
        /\ BeginSession(w)
        /\ UNCHANGED dedicated
  /\ pc' = [pc EXCEPT ![w] = "finish"]
  /\ UNCHANGED <<todo, inflow, ok, done, passed, jobs>>

(* _node reads the stage's results, records its completion and commits; the   *)
(* next node follows, or the readiness guard.                                 *)
FinishNode(w) ==
  /\ pc[w] = "finish"
  /\ inflow[w]
  /\ ok[w]
  /\ \/ session[w] # NoConn /\ EndSession(w)
     \/ session[w] = NoConn /\ PassThrough(w)
  /\ todo' = [todo EXCEPT ![w] = Tail(@)]
  /\ pc' = [pc EXCEPT ![w] = IF Len(todo[w]) = 1 THEN "gate" ELSE "node"]
  /\ UNCHANGED <<dedicated, holder, inflow, ok, done, passed, jobs>>

(* _require_ready: every node reported completion, so the run advances.       *)
PassGate(w) ==
  /\ pc[w] = "gate"
  /\ passed' = [passed EXCEPT ![w] = TRUE]
  /\ pc' = [pc EXCEPT ![w] = "end"]
  /\ UNCHANGED <<conns, holder, todo, inflow, ok, done, jobs>>

(* An actor of a single stage returns, or a failed stage ends the workflow.   *)
Leave(w) ==
  /\ pc[w] = "finish"
  /\ ~inflow[w] \/ ~ok[w]
  /\ pc' = [pc EXCEPT ![w] = "end"]
  /\ UNCHANGED <<conns, holder, todo, inflow, ok, done, passed, jobs>>

(* The connections of the worker are closed, which frees what they hold.      *)
KeptOpen(w) == holder   \* mutant: the engine is not disposed
Closed(w) == [k \in Keys |-> IF holder[k].worker = w THEN Free ELSE holder[k]]
Dispose(w) ==
  /\ opened' = [opened EXCEPT ![w] = 0]
  /\ pool' = [pool EXCEPT ![w] = <<>>]
  /\ session' = [session EXCEPT ![w] = NoConn]
  /\ dedicated' = [dedicated EXCEPT ![w] = NoConn]
  /\ holder' = Closed(w)

(* The invocation returns and disposes the engine, or its process dies.       *)
End(w) ==
  /\ pc[w] = "end"
  /\ Dispose(w)
  /\ pc' = [pc EXCEPT ![w] = "idle"]
  /\ todo' = [todo EXCEPT ![w] = <<>>]
  /\ UNCHANGED <<inflow, ok, done, passed, jobs>>

Crash(w) ==
  /\ pc[w] \notin {"idle", "end"}
  /\ Dispose(w)
  /\ pc' = [pc EXCEPT ![w] = "idle"]
  /\ todo' = [todo EXCEPT ![w] = <<>>]
  /\ UNCHANGED <<inflow, ok, done, passed, jobs>>

(* The database drops an idle connection that holds a lock; the pool replaces *)
(* it when it is next taken (pool_pre_ping, pool_recycle).                    *)
DropIdle(w) ==
  \E k \in Keys :
    /\ holder[k].worker = w
    /\ \E i \in 1..Len(pool[w]) : pool[w][i] = holder[k].conn
    /\ holder' = [holder EXCEPT ![k] = Free]
    /\ UNCHANGED <<conns, pc, todo, inflow, ok, done, passed, jobs>>

Step(w) ==
  \/ StartNode(w) \/ SkipProcessing(w) \/ TakeLock(w) \/ LockRefused(w)
  \/ Work(w) \/ FailWork(w) \/ Release(w)
  \/ FinishNode(w) \/ PassGate(w) \/ Leave(w) \/ End(w)

Next == \E w \in Workers : Receive(w) \/ Step(w) \/ Crash(w) \/ DropIdle(w)

Spec == Init /\ [][Next]_vars

(* The event loop runs an invocation to its end.                              *)
FairSpec == Spec /\ \A w \in Workers : WF_vars(Step(w))

-----------------------------------------------------------------------------
Locks == {Free} \union [worker : Workers, conn : 1..2, depth : {1}]

(* Every variable has its type; an invocation never has more than two         *)
(* connections beside the run lock's, and no lock is taken twice.             *)
TypeOK ==
  /\ opened \in [Workers -> 0..2]
  /\ pool \in [Workers -> UNION {[1..n -> 1..2] : n \in 0..2}]
  /\ session \in [Workers -> 0..2]
  /\ dedicated \in [Workers -> 0..2]
  /\ holder \in [Keys -> Locks]
  /\ pc \in [Workers -> {"idle", "node", "try", "work", "release", "finish", "gate", "end"}]
  /\ todo \in [Workers -> {SubSeq(Workflow, i, 5) : i \in 1..6} \union {<<s>> : s \in Actors}]
  /\ inflow \in [Workers -> BOOLEAN]
  /\ ok \in [Workers -> BOOLEAN]
  /\ done \subseteq Stages
  /\ passed \in [Workers -> BOOLEAN]
  /\ jobs \in 0..MaxJobs

(* Two workers are never inside stages of one lock at the same time: the same *)
(* stage of one filing or comparison, or extraction beside verification.      *)
(* Duplicate jobs do not write the same rows concurrently, on whichever       *)
(* pooled connection the lock was taken and whatever is left locked there     *)
(* (try_acquire_filing_lock, held_advisory_lock, try_acquire_verification_    *)
(* lock, try_acquire_analysis_lock).                                          *)
WorkIsExclusive ==
  \A v, w \in Workers :
    v # w /\ pc[v] = "work" /\ pc[w] = "work" => Key(Stage(v)) # Key(Stage(w))

(* The place of a lock in the lock ordering of docs/database-design.md.       *)
Level(k) ==
  CASE k[2] = 0 -> 1 [] k[2] = 62 -> 2 [] k[2] = 61 -> 3 [] OTHER -> 4

(* Locks are taken in the documented order, the ones an invocation failed to  *)
(* release counted in: a stage that is about to take its lock finds its own   *)
(* worker holding only locks of earlier levels.  So no invocation is refused  *)
(* a lock by itself, and none nests one (FilingProcessingService,             *)
(* FinancialVerificationService, ContradictionAnalysisService release theirs  *)
(* on whatever connection the pool gives; _run_and_dispose_engine frees the   *)
(* rest).                                                                     *)
LocksAreTakenInOrder ==
  \A w \in Workers, k \in Keys :
    pc[w] = "try" /\ holder[k].worker = w => Level(k) < Level(Key(Stage(w)))

(* An actor of a single stage has released its lock when its service returns: *)
(* alone, a stage commits and releases on one and the same connection.        *)
AloneReleasesItsLock ==
  \A w \in Workers, k \in Keys : pc[w] = "end" /\ ~inflow[w] => holder[k].worker # w

(* What analysis_completeness promises of the deterministic stages: the       *)
(* workflow advances only when verification and contradiction analysis have   *)
(* been carried out, by itself or by another job.                             *)
DeterministicStagesAreDone ==
  \A w \in Workers : passed[w] => {"verify", "analyze"} \subseteq done

(* A lock a worker holds comes free, also one it failed to release.           *)
LocksComeFree ==
  \A w \in Workers, k \in Keys : holder[k].worker = w ~> holder[k].worker # w

=============================================================================
