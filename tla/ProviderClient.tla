---------------------------- MODULE ProviderClient ----------------------------
(***************************************************************************)
(* The client that every request to the model provider goes through        *)
(* (app/ai/openai_compatible.py), with the multi-item request of a batched *)
(* stage on top of it.  Callers are coroutines of one process: they share  *)
(* the pacing clock, and nothing else.                                     *)
(*                                                                         *)
(* Time is counted in ticks.  A sleep is the number of ticks left of it,   *)
(* the age of a call the number of ticks since, no larger than the gap     *)
(* that pacing keeps.                                                      *)
(***************************************************************************)
EXTENDS Integers, Sequences, SequencesExt

CONSTANTS
  Callers,
  Items,          \* the items of a multi-item request
  Answers,        \* what may come back from a post: see AnswerKinds
  Envelopes,      \* valid envelopes: sequences of entries [id, valid]
  MaxRetries,     \* ai_provider_max_retries
  Repairs,        \* ai_provider_structured_output_repair_attempts
  ChatDelay,      \* ai_provider_chat_delay_seconds
  BaseDelay, MaxDelay, Jitter   \* ai_provider_retry_*_seconds

ASSUME ClientAssumption ==
  /\ MaxRetries \in Nat \ {0} /\ Repairs \in Nat /\ ChatDelay \in Nat
  /\ BaseDelay \in Nat /\ MaxDelay \in Nat /\ Jitter \in Nat

None == "none"
NoStatus == 0
NoHint == -1

(* Hints are parsed to seconds, none of them negative, or to none.         *)
ASSUME AnswerAssumption ==
  \A answer \in Answers :
    \/ answer.kind \in {"timeout", "network_error"}
    \/ /\ answer.kind = "response" /\ answer.status \in Nat /\ answer.usage \in BOOLEAN
       /\ answer.body \in Nat \cup {NoHint} /\ answer.header \in Nat \cup {NoHint}

VARIABLES
  age,    \* ticks since _last_chat_call_monotonic was written
  calls   \* caller -> its chat_json call, and what came of the one before

vars == <<age, calls>>

Smaller(a, b) == IF a < b THEN a ELSE b

(* An answer is a transport failure, or a response: its status, what the   *)
(* text of an error names, the retry hints of its body and its headers,    *)
(* and for a success what its content holds.                               *)
AnswerKinds == {"timeout", "network_error", "response"}
Retryable(status) == status \in {408, 409, 425, 429} \/ status >= 500

ErrorCategory(status) ==
  IF status = NoStatus THEN "network_error"
  ELSE IF status = 429 THEN "rate_limited"
  ELSE IF status = 408 THEN "timeout"
  ELSE IF status >= 500 THEN "server_error"
  ELSE IF status >= 400 THEN "client_error"
  ELSE "unknown_error"

(* The body's own hint first; one of no seconds does not count.            *)
RetryHint(answer) == IF answer.body > 0 THEN answer.body ELSE answer.header

ErrorSubtype(answer) ==
  IF answer.status # 429 THEN ErrorCategory(answer.status)
  ELSE IF answer.names = "day" THEN "quota_exhausted_daily"
  ELSE IF answer.names = "minute" THEN "rate_limited_short_term"
  ELSE IF RetryHint(answer) \in 0..120 THEN "rate_limited_short_term"
  ELSE "resource_exhausted"

RetryDelays(attempt, hint) ==
  IF hint # NoHint THEN {Smaller(hint, MaxDelay)}
  ELSE {Smaller(BaseDelay * 2 ^ attempt + j, MaxDelay) : j \in 0..Jitter}

(* The request failed as the answer says.                                  *)
FailureOf(answer) ==
  IF answer.kind # "response"
  THEN [category |-> answer.kind, subtype |-> answer.kind, status |-> NoStatus, hint |-> NoHint]
  ELSE [category |-> ErrorCategory(answer.status), subtype |-> ErrorSubtype(answer),
        status |-> answer.status, hint |-> RetryHint(answer)]

-----------------------------------------------------------------------------
NoUsage == [requests |-> 0, reporting |-> 0]
NoFailure == [category |-> None, subtype |-> None, status |-> NoStatus, hint |-> NoHint]
NoOutcome == [kind |-> None, failure |-> NoFailure, accepted |-> {}]
NotHeard == [kind |-> None]
Idle(own) ==
  [phase |-> "idle", left |-> 0, repair |-> 0, attempt |-> 0, usage |-> NoUsage, sent |-> 0,
   answered |-> 0, outcome |-> NoOutcome, heard |-> NotHeard, own |-> own]

Init ==
  /\ age = ChatDelay
  /\ calls = [c \in Callers |-> Idle(ChatDelay)]

Remaining == ChatDelay - age

(* Pacing is over for the caller: it writes the shared clock and posts.    *)
Started(call) ==
  [call EXCEPT !.phase = "post", !.left = 0, !.attempt = 0, !.sent = @ + 1, !.own = 0]

(* The wait owed since the last call of any caller, then the post.         *)
Pace(c, call) ==
  IF ChatDelay = 0
  THEN age' = age /\ calls' = [calls EXCEPT ![c] = Started(call)]
  ELSE IF Remaining > 0
  THEN age' = age /\ calls' = [calls EXCEPT ![c] =
                       [call EXCEPT !.phase = "pace", !.left = Remaining]]
  ELSE age' = 0 /\ calls' = [calls EXCEPT ![c] = Started(call)]

BeginCall(c) ==
  /\ calls[c].phase = "idle"
  /\ Pace(c, Idle(calls[c].own))

(* The sleep of pacing is over; what others wrote meanwhile is not read.   *)
EndPaceUnstamped(c) ==   \* mutant: the clock is written only when nothing was owed
  /\ calls[c].phase = "pace" /\ calls[c].left = 0
  /\ calls' = [calls EXCEPT ![c] = Started(@)]
  /\ UNCHANGED age
EndPace(c) ==
  /\ calls[c].phase = "pace" /\ calls[c].left = 0
  /\ age' = 0
  /\ calls' = [calls EXCEPT ![c] = Started(@)]

EndBackoff(c) ==
  /\ calls[c].phase = "backoff" /\ calls[c].left = 0
  /\ calls' = [calls EXCEPT ![c].phase = "post", ![c].attempt = @ + 1, ![c].sent = @ + 1]
  /\ UNCHANGED age

Ended(call, kind, failure, accepted) ==
  [call EXCEPT !.phase = "idle",
               !.outcome = [kind |-> kind, failure |-> failure, accepted |-> accepted]]

-----------------------------------------------------------------------------
(* A post that may be tried again.                                         *)
FailForGood(c, failure) ==
  \/ calls[c].attempt = MaxRetries - 1
  \/ failure.subtype = "quota_exhausted_daily"

RetryPost(c, answer) ==
  /\ calls[c].phase = "post"
  /\ answer.kind = "response" => Retryable(answer.status)
  /\ LET failure == FailureOf(answer) IN
     \/ /\ FailForGood(c, failure)
        /\ calls' = [calls EXCEPT ![c] =
                       Ended([@ EXCEPT !.heard = answer], "provider_error", failure, {})]
     \/ /\ ~FailForGood(c, failure)
        /\ \E delay \in RetryDelays(calls[c].attempt, failure.hint) :
             calls' = [calls EXCEPT ![c].phase = "backoff", ![c].left = delay,
                                    ![c].heard = answer]
  /\ UNCHANGED age

(* A status that is not tried again.                                       *)
RejectPost(c, answer) ==
  /\ calls[c].phase = "post"
  /\ answer.kind = "response" /\ ~Retryable(answer.status) /\ answer.status # 200
  /\ calls' = [calls EXCEPT ![c] = Ended([@ EXCEPT !.heard = answer], "provider_error",
                 [category |-> ErrorCategory(answer.status), subtype |-> "provider_rejected",
                  status |-> answer.status, hint |-> NoHint], {})]
  /\ UNCHANGED age

(* A success whose body is no JSON ends in an exception of the parser,     *)
(* before its usage is read.                                               *)
Unreadable(c, answer) ==
  /\ calls[c].phase = "post"
  /\ answer.kind = "response" /\ answer.status = 200 /\ answer.content = "no_json"
  /\ calls' = [calls EXCEPT ![c] = Ended([@ EXCEPT !.heard = answer], "exception", NoFailure, {})]
  /\ UNCHANGED age

Counted(usage, answer) ==
  [requests |-> usage.requests + 1,
   reporting |-> usage.reporting + IF answer.usage THEN 1 ELSE 0]

RepairForEver(c, answer) ==   \* mutant: repairs are not counted
  /\ calls[c].phase = "post"
  /\ answer.kind = "response" /\ answer.status = 200
  /\ answer.content \in {"invalid", "empty"}
  /\ Pace(c, [calls[c] EXCEPT !.heard = answer, !.sent = 0, !.answered = 0, !.usage = NoUsage])

RepairUncounted(c, answer) ==   \* mutant: only usable answers are counted
  /\ calls[c].phase = "post"
  /\ answer.kind = "response" /\ answer.status = 200
  /\ answer.content \in {"invalid", "empty"}
  /\ LET call == [calls[c] EXCEPT !.heard = answer, !.answered = @ + 1] IN
     IF call.repair >= Repairs
     THEN /\ calls' = [calls EXCEPT ![c] = Ended(call, "structured_output_error", NoFailure, {})]
          /\ UNCHANGED age
     ELSE Pace(c, [call EXCEPT !.repair = @ + 1])

(* Content that is no valid JSON of the schema, a refusal or nothing at    *)
(* all: the model is asked to correct it, in a paced request of its own,   *)
(* until no repair is left; then no item of a batch has an outcome.        *)
RepairContent(c, answer) ==
  /\ calls[c].phase = "post"
  /\ answer.kind = "response" /\ answer.status = 200
  /\ answer.content \in {"invalid", "empty"}
  /\ LET call == [calls[c] EXCEPT !.heard = answer, !.answered = @ + 1,
                                  !.usage = Counted(@, answer)] IN
     IF call.repair >= Repairs
     THEN /\ calls' = [calls EXCEPT ![c] = Ended(call, "structured_output_error", NoFailure, {})]
          /\ UNCHANGED age
     ELSE Pace(c, [call EXCEPT !.repair = @ + 1])

(* An item has an outcome when exactly one entry bears its id and the      *)
(* entry is valid; entries of other ids are passed over.                   *)
OutcomeOf(item, envelope) ==
  LET entries == SelectSeq(envelope, LAMBDA e : e.id = item)
  IN  Len(entries) = 1 /\ entries[1].valid

AcceptContent(c, answer, envelope) ==
  /\ calls[c].phase = "post"
  /\ answer.kind = "response" /\ answer.status = 200 /\ answer.content = "valid"
  /\ LET call == [calls[c] EXCEPT !.heard = answer, !.answered = @ + 1,
                                  !.usage = Counted(@, answer)] IN
     calls' = [calls EXCEPT ![c] = Ended(call, "outcomes", NoFailure,
                 {item \in Items : OutcomeOf(item, envelope)})]
  /\ UNCHANGED age

(* Time passes.                                                            *)
Older(n) == Smaller(n + 1, ChatDelay)
Tick ==
  /\ age' = Older(age)
  /\ calls' = [c \in Callers |->
                 [calls[c] EXCEPT !.left = IF @ > 0 THEN @ - 1 ELSE 0, !.own = Older(@)]]

Receive(c) ==
  \E answer \in Answers :
    \/ RetryPost(c, answer)
    \/ RejectPost(c, answer)
    \/ Unreadable(c, answer)
    \/ RepairContent(c, answer)
    \/ \E envelope \in Envelopes : AcceptContent(c, answer, envelope)

Next ==
  \/ Tick
  \/ \E c \in Callers : BeginCall(c) \/ EndPace(c) \/ EndBackoff(c) \/ Receive(c)

(* The clock runs, sleeps end, and a post is answered or times out; nobody *)
(* has to begin a call.                                                    *)
Fairness ==
  /\ WF_vars(Tick)
  /\ \A c \in Callers : WF_vars(EndPace(c)) /\ WF_vars(EndBackoff(c)) /\ WF_vars(Receive(c))

Spec == Init /\ [][Next]_vars
FairSpec == Spec /\ Fairness

-----------------------------------------------------------------------------
Categories ==
  {None, "timeout", "network_error", "rate_limited", "server_error", "client_error",
   "unknown_error"}
Subtypes ==
  Categories \cup {"quota_exhausted_daily", "rate_limited_short_term", "resource_exhausted",
                  "provider_rejected"}
Failures ==
  [category : Categories, subtype : Subtypes, status : Nat, hint : Nat \cup {NoHint}]
Endings == {None, "provider_error", "structured_output_error", "exception", "outcomes"}

(* What remains of a sleep is a number of ticks: in pacing, no more than   *)
(* the gap; one between retries is left open, since it is an exponential.  *)
Typed(call) ==
  /\ DOMAIN call = {"phase", "left", "repair", "attempt", "usage", "sent", "answered",
                    "outcome", "heard", "own"}
  /\ call.phase \in {"idle", "pace", "post", "backoff"}
  /\ call.phase # "backoff" => call.left \in 0..ChatDelay
  /\ call.repair \in 0..Repairs /\ call.attempt \in 0..MaxRetries - 1
  /\ call.usage \in [requests : Nat, reporting : Nat]
  /\ call.sent \in Nat /\ call.answered \in Nat
  /\ call.outcome \in [kind : Endings, failure : Failures, accepted : SUBSET Items]
  /\ call.heard \in Answers \cup {NotHeard}
  /\ call.own \in 0..ChatDelay

TypeOK ==
  /\ age \in 0..ChatDelay
  /\ DOMAIN calls = Callers
  /\ \A c \in Callers : Typed(calls[c])

(* A call sends no more than the repairs and the retries of each allow,    *)
(* and what it is charged for is every answer it got, the unusable ones    *)
(* included.                                                               *)
CostIsBounded ==
  \A c \in Callers :
    /\ calls[c].sent <= (Repairs + 1) * MaxRetries
    /\ calls[c].usage.requests = calls[c].answered

(* A request other than a retry leaves: the first of a call, or a repair.  *)
Leaves(c) ==
  /\ calls'[c].phase = "post" /\ calls[c].phase # "backoff"
  /\ calls[c].phase # "post" \/ calls'[c].repair # calls[c].repair

(* Pacing keeps a caller's own requests apart, whoever writes the clock    *)
(* while it sleeps; retries are not paced.                                 *)
OwnCallsAreApart == [][\A c \in Callers : Leaves(c) => calls[c].own >= ChatDelay]_vars

(* Every call ends, with an answer or an error.                            *)
EveryCallEnds == \A c \in Callers : calls[c].phase # "idle" ~> calls[c].phase = "idle"

=============================================================================
