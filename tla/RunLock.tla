------------------------------- MODULE RunLock -------------------------------
(***************************************************************************)
(* The advisory lock of one analysis run, down to the database sessions    *)
(* that hold it: workers that hold it on a dedicated connection kept alive *)
(* by pings (held_advisory_lock), and retry requests that probe it by      *)
(* taking it and letting it go again (is_advisory_lock_free).              *)
(***************************************************************************)
EXTENDS Naturals, FiniteSets

CONSTANTS
  Threads,     \* worker threads
  Requests,    \* retry requests in flight
  Nobody,      \* owner of a free lock
  MaxMessages, \* bound: messages enqueued
  MaxLosses    \* bound: connections the database drops

ASSUME OwnerAssumption ==
  /\ Nobody \notin Threads \cup Requests
  /\ Threads \cap Requests = {}
ASSUME LossAssumption == MaxLosses \in Nat

VARIABLES
  owner,      \* the session that holds the lock
  connection, \* of each worker: "none", "open" or "dropped"
  executing,  \* workers that believe they hold the lock, and execute the run
  request,    \* of each retry request, how far it is
  messages,   \* run messages waiting
  sent, losses

lockVars == <<owner, connection, executing, request, messages, sent, losses>>

InitLock ==
  /\ owner = Nobody
  /\ connection = [w \in Threads |-> "none"]
  /\ executing = {}
  /\ request = [r \in Requests |-> "new"]
  /\ messages = 1 /\ sent = 1 /\ losses = 0

Idle(w) == connection[w] = "none"

-----------------------------------------------------------------------------
(* The worker side. *)

StartUnchecked(w) ==   \* mutant: the result of pg_try_advisory_lock ignored
  /\ Idle(w) /\ messages > 0
  /\ messages' = messages - 1
  /\ owner' = w
  /\ connection' = [connection EXCEPT ![w] = "open"]
  /\ executing' = executing \cup {w}
  /\ UNCHANGED <<request, sent, losses>>

(* The message is consumed; without the lock it is not executed. *)
Start(w) ==
  /\ Idle(w) /\ messages > 0
  /\ messages' = messages - 1
  /\ IF owner = Nobody
     THEN /\ owner' = w
          /\ connection' = [connection EXCEPT ![w] = "open"]
          /\ executing' = executing \cup {w}
     ELSE UNCHANGED <<owner, connection, executing>>
  /\ UNCHANGED <<request, sent, losses>>

(* The database ends the session of w, and with it the lock; the pings     *)
(* that fail are suppressed, so w goes on.                                 *)
DropConnection(w) ==
  /\ losses < MaxLosses
  /\ connection[w] = "open"
  /\ connection' = [connection EXCEPT ![w] = "dropped"]
  /\ owner' = Nobody
  /\ losses' = losses + 1
  /\ UNCHANGED <<executing, request, messages, sent>>

(* Leaving the context unlocks on w's own connection, if it still is one. *)
Finish(w) ==
  /\ w \in executing
  /\ executing' = executing \ {w}
  /\ connection' = [connection EXCEPT ![w] = "none"]
  /\ owner' = IF connection[w] = "open" THEN Nobody ELSE owner
  /\ UNCHANGED <<request, messages, sent, losses>>

-----------------------------------------------------------------------------
(* The retry request of a stale run. *)

Probe(r) ==
  /\ request[r] = "new"
  /\ IF owner = Nobody
     THEN owner' = r /\ request' = [request EXCEPT ![r] = "probing"]
     ELSE UNCHANGED owner /\ request' = [request EXCEPT ![r] = "refused"]
  /\ UNCHANGED <<connection, executing, messages, sent, losses>>

LetGo(r) ==
  /\ request[r] = "probing"
  /\ owner' = Nobody
  /\ request' = [request EXCEPT ![r] = "free"]
  /\ UNCHANGED <<connection, executing, messages, sent, losses>>

(* The run was free when probed: its message is enqueued. *)
Enqueue(r) ==
  /\ request[r] = "free"
  /\ sent < MaxMessages
  /\ messages' = messages + 1 /\ sent' = sent + 1
  /\ request' = [request EXCEPT ![r] = "accepted"]
  /\ UNCHANGED <<owner, connection, executing, losses>>

Reply(r) ==
  /\ request[r] \in {"accepted", "refused"}
  /\ request' = [request EXCEPT ![r] = "new"]
  /\ UNCHANGED <<owner, connection, executing, messages, sent, losses>>

NextLock ==
  \/ \E w \in Threads : Start(w) \/ DropConnection(w) \/ Finish(w)
  \/ \E r \in Requests : Probe(r) \/ LetGo(r) \/ Enqueue(r) \/ Reply(r)

LockSpec == InitLock /\ [][NextLock]_lockVars

-----------------------------------------------------------------------------
LockTypeOK ==
  /\ owner \in Threads \cup Requests \cup {Nobody}
  /\ connection \in [Threads -> {"none", "open", "dropped"}]
  /\ executing \subseteq Threads
  /\ request \in [Requests -> {"new", "probing", "free", "accepted", "refused"}]
  /\ messages \in Nat /\ sent \in Nat /\ losses \in 0..MaxLosses

(***************************************************************************)
(* A session that still has its connection owns the lock: a second worker  *)
(* appears only where the database dropped a connection, and a probe never *)
(* disturbs a worker's lock (is_advisory_lock_free).                       *)
(***************************************************************************)
ConnectedIsOwner ==
  /\ \A w \in Threads : connection[w] = "open" <=> owner = w
  /\ \A r \in Requests : request[r] = "probing" <=> owner = r
  /\ \A w \in Threads : connection[w] # "none" <=> w \in executing

(***************************************************************************)
(* What the sessions, probes and keep-alives give for sure, however often  *)
(* the database drops a connection: the workers that still hold the lock's *)
(* connection follow one another, one at a time (held_advisory_lock).      *)
(***************************************************************************)
Connected == {w \in Threads : connection[w] = "open"}
Exclusive == INSTANCE ExclusiveRun WITH Workers <- Threads, executing <- Connected
ImplementsExclusiveRun == Exclusive!Spec

=============================================================================
