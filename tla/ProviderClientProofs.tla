------------------------ MODULE ProviderClientProofs ------------------------
(***************************************************************************)
(* Proofs about the provider client, for any callers, answers, retries,    *)
(* repairs and delays: what a call costs, and how far apart a caller's     *)
(* requests are although all callers share one clock.                      *)
(***************************************************************************)
EXTENDS ProviderClient, TLAPS

(* What a call may have sent: all retries of the repairs behind it, and    *)
(* those of the request it is at.                                          *)
Sendable(call) ==
  CASE call.phase = "pace" -> call.repair * MaxRetries
    [] call.phase = "post" -> call.repair * MaxRetries + call.attempt + 1
    [] call.phase = "backoff" -> call.repair * MaxRetries + call.attempt + 1
    [] OTHER -> (Repairs + 1) * MaxRetries

Spent(call) ==
  /\ call.sent <= Sendable(call)
  /\ call.usage.requests = call.answered
  /\ call.phase = "backoff" => call.attempt < MaxRetries - 1

(* The shared clock is never older than a caller's own; one that sleeps    *)
(* wakes when its own is old enough.                                       *)
Paced(call, clock) ==
  /\ clock <= call.own
  /\ call.phase = "pace" => call.own + call.left >= ChatDelay

Fine(call, clock) == Typed(call) /\ Spent(call) /\ Paced(call, clock)

IInv ==
  /\ age \in 0..ChatDelay
  /\ DOMAIN calls = Callers
  /\ \A c \in Callers : Fine(calls[c], age)

LEMMA InvariantIsTyped == IInv => TypeOK
  BY DEF IInv, Fine, TypeOK

-----------------------------------------------------------------------------
(* Repairs multiply retries.                                               *)
LEMMA Products ==
  ASSUME NEW r \in 0..Repairs
  PROVE  /\ r * MaxRetries \in Nat
         /\ (r + 1) * MaxRetries = r * MaxRetries + MaxRetries
         /\ (r + 1) * MaxRetries <= (Repairs + 1) * MaxRetries
         /\ (Repairs + 1) * MaxRetries \in Nat
<1>1. MaxRetries \in Nat /\ Repairs \in Nat
  BY ClientAssumption
<1>2. \A a, b, k \in Nat : a <= b => a * k \in Nat /\ a * k <= b * k /\ (a + 1) * k = a * k + k
  OBVIOUS
<1> QED
  BY <1>1, <1>2

(* In any phase, no more than all repairs and their retries.               *)
LEMMA SendableIsBounded ==
  ASSUME NEW call, Typed(call), Spent(call)
  PROVE  call.sent <= (Repairs + 1) * MaxRetries
<1> DEFINE sofar == call.repair * MaxRetries
           all   == (Repairs + 1) * MaxRetries
<1>1. /\ sofar \in Nat /\ all \in Nat
      /\ sofar + MaxRetries <= all
  BY Products DEF Typed
<1>2. call.attempt \in Nat /\ call.attempt + 1 <= MaxRetries /\ MaxRetries \in Nat
  BY ClientAssumption DEF Typed
<1>3. call.sent <= sofar \/ call.sent <= sofar + call.attempt + 1 \/ call.sent <= all
  BY DEF Spent, Sendable, Typed
<1> HIDE DEF sofar, all
<1>4. call.sent \in Nat
  BY DEF Typed
<1>5. call.sent <= all
  BY <1>1, <1>2, <1>3, <1>4
<1> QED
  BY <1>5 DEF all

(* The clock is written: every caller's own is older.                      *)
LEMMA ClockWritten ==
  ASSUME NEW call, NEW clock, Fine(call, clock)
  PROVE  Fine(call, 0)
  BY ClientAssumption DEF Fine, Paced, Typed

(* A request leaves, paced: the repairs so far account for the rest.       *)
LEMMA StartedIsFine ==
  ASSUME NEW call, Typed(call), call.usage.requests = call.answered,
         call.sent <= call.repair * MaxRetries
  PROVE  Fine(Started(call), 0) /\ Started(call).phase = "post"
<1>1. Typed(Started(call))
  BY ClientAssumption DEF Typed, Started
<1>2. Spent(Started(call))
  BY <1>1, Products, ClientAssumption DEF Spent, Sendable, Started, Typed
<1>3. Paced(Started(call), 0)
  BY <1>1, ClientAssumption DEF Paced, Started, Typed
<1> QED
  BY <1>1, <1>2, <1>3 DEF Fine, Started, Typed

(* Pacing a call keeps the invariant, and a request that leaves at once    *)
(* does so late enough.                                                    *)
LEMMA PaceStep ==
  ASSUME IInv, NEW c \in Callers, NEW call, Typed(call), call.usage.requests = call.answered,
         call.sent <= call.repair * MaxRetries, call.own = calls[c].own, Pace(c, call)
  PROVE  IInv' /\ (calls'[c].phase = "post" => calls[c].own >= ChatDelay)
<1> USE ClientAssumption
<1>1. /\ age \in 0..ChatDelay /\ age <= calls[c].own /\ calls[c].own \in 0..ChatDelay
      /\ \A d \in Callers : Fine(calls[d], age) /\ Fine(calls[d], 0)
  BY ClockWritten DEF IInv, Fine, Paced, Typed
<1>2. CASE age' \in {0, age} /\ calls' = [calls EXCEPT ![c] = Started(call)] /\ (ChatDelay = 0 \/ age' = 0)
           /\ age >= ChatDelay
  <2>1. age' = 0
    BY <1>1, <1>2
  <2>2. Fine(Started(call), 0)
    BY StartedIsFine
  <2>3. DOMAIN calls' = Callers /\ calls'[c] = Started(call)
        /\ \A d \in Callers : d # c => calls'[d] = calls[d]
    BY <1>2 DEF IInv
  <2>4. \A d \in Callers : Fine(calls'[d], age')
    BY <1>1, <2>1, <2>2, <2>3
  <2> QED
    BY <1>1, <1>2, <2>1, <2>3, <2>4 DEF IInv
<1>3. CASE /\ Remaining > 0 /\ age' = age
           /\ calls' = [calls EXCEPT ![c] = [call EXCEPT !.phase = "pace", !.left = Remaining]]
  <2> DEFINE new == [call EXCEPT !.phase = "pace", !.left = Remaining]
  <2>1. Remaining \in 0..ChatDelay
    BY <1>1, <1>3 DEF Remaining
  <2>2. Typed(new)
    BY <2>1 DEF Typed
  <2>3. Spent(new)
    BY DEF Spent, Sendable, Typed
  <2>4. Paced(new, age)
    BY <1>1, <2>1 DEF Paced, Remaining, Typed
  <2>5. DOMAIN calls' = Callers /\ calls'[c] = new /\ new.phase = "pace"
        /\ \A d \in Callers : d # c => calls'[d] = calls[d]
    BY <1>3 DEF IInv, Typed
  <2> QED
    BY <1>1, <1>3, <2>2, <2>3, <2>4, <2>5 DEF IInv, Fine
<1> QED
  BY <1>1, <1>2, <1>3 DEF Pace, Remaining

-----------------------------------------------------------------------------
(* A call alone changes, and stays fine by the same clock.                 *)
LEMMA OneCallStep ==
  ASSUME IInv, NEW c \in Callers, NEW call, Fine(call, age), UNCHANGED age,
         calls' = [calls EXCEPT ![c] = call]
  PROVE  IInv'
<1>1. DOMAIN calls' = Callers /\ calls'[c] = call
      /\ \A d \in Callers : d # c => calls'[d] = calls[d]
  BY DEF IInv
<1> QED
  BY <1>1 DEF IInv

(* A call that ends has sent no more than it may have sent while it ran.   *)
LEMMA EndedIsFine ==
  ASSUME NEW call, NEW clock, Fine(call, clock), call.phase = "post",
         NEW kind \in Endings, NEW failure \in Failures, NEW accepted \in SUBSET Items
  PROVE  Fine(Ended(call, kind, failure, accepted), clock)
<1> DEFINE new == Ended(call, kind, failure, accepted)
<1>1. Typed(new)
  BY DEF Typed, Ended, Fine
<1>2. call.sent <= (Repairs + 1) * MaxRetries
  BY SendableIsBounded DEF Fine
<1>3. Spent(new)
  BY <1>2 DEF Spent, Sendable, Ended, Typed, Fine
<1>4. Paced(new, clock)
  BY DEF Paced, Ended, Typed, Fine
<1> QED
  BY <1>1, <1>3, <1>4 DEF Fine

(* What an answer says of a failure.                                       *)
LEMMA FailureTypes ==
  ASSUME NEW answer \in Answers
  PROVE  /\ FailureOf(answer) \in Failures
         /\ answer.kind = "response" => ErrorCategory(answer.status) \in Categories
  BY AnswerAssumption DEF FailureOf, Failures, Categories, Subtypes, ErrorCategory, ErrorSubtype, RetryHint, NoStatus

(* An answer is noted, and counted: it may be repaired or accepted.        *)
LEMMA HeardIsFine ==
  ASSUME NEW call, NEW clock, Fine(call, clock), NEW answer \in Answers
  PROVE  /\ Fine([call EXCEPT !.heard = answer], clock)
         /\ answer.kind = "response" =>
              LET new == [call EXCEPT !.heard = answer, !.answered = @ + 1,
                                      !.usage = Counted(@, answer)]
              IN  Fine(new, clock) /\ new.phase = call.phase /\ new.sent = call.sent
                  /\ new.own = call.own /\ new.attempt = call.attempt /\ new.repair = call.repair
<1> DEFINE heard == [call EXCEPT !.heard = answer]
           new   == [call EXCEPT !.heard = answer, !.answered = @ + 1, !.usage = Counted(@, answer)]
<1>1. Fine(heard, clock)
  BY DEF Fine, Typed, Spent, Sendable, Paced
<1>2. ASSUME answer.kind = "response" PROVE Fine(new, clock)
  <2>1. /\ Counted(call.usage, answer) \in [requests : Nat, reporting : Nat]
        /\ Counted(call.usage, answer).requests = call.usage.requests + 1
    BY <1>2, AnswerAssumption DEF Counted, Fine, Typed
  <2>2. Typed(new)
    BY <2>1 DEF Fine, Typed
  <2>3. Spent(new) /\ Paced(new, clock)
    BY <2>1 DEF Fine, Typed, Spent, Sendable, Paced
  <2> QED
    BY <2>2, <2>3 DEF Fine
<1> QED
  BY <1>1, <1>2 DEF Fine, Typed

-----------------------------------------------------------------------------
LEMMA ReceiveStep ==
  ASSUME IInv, NEW c \in Callers, Receive(c)
  PROVE  /\ IInv'
         /\ calls'[c].phase = "post" => calls[c].own >= ChatDelay
<1> PICK answer \in Answers :
      \/ RetryPost(c, answer) \/ RejectPost(c, answer) \/ Unreadable(c, answer)
      \/ RepairContent(c, answer) \/ \E envelope \in Envelopes : AcceptContent(c, answer, envelope)
  BY DEF Receive
<1> DEFINE call  == calls[c]
           heard == [call EXCEPT !.heard = answer]
           new   == [call EXCEPT !.heard = answer, !.answered = @ + 1, !.usage = Counted(@, answer)]
<1>1. Fine(call, age) /\ DOMAIN calls = Callers
  BY DEF IInv
<1>2. call.phase = "post"
  BY DEF RetryPost, RejectPost, Unreadable, RepairContent, AcceptContent
<1>3. Fine(heard, age) /\ heard.phase = "post"
  BY <1>1, <1>2, HeardIsFine DEF Fine, Typed
<1>4. answer.kind = "response" =>
        /\ Fine(new, age) /\ new.phase = "post" /\ new.sent = call.sent
        /\ new.own = call.own /\ new.repair = call.repair
  BY <1>1, <1>2, HeardIsFine
<1>5. NoFailure \in Failures /\ FailureOf(answer) \in Failures
      /\ (answer.kind = "response" => ErrorCategory(answer.status) \in Categories)
  BY FailureTypes DEF NoFailure, NoStatus, Failures, Categories, Subtypes
<1>6. /\ {} \in SUBSET Items
      /\ {"provider_error", "structured_output_error", "exception", "outcomes"} \subseteq Endings
  BY DEF Endings
<1>7. ASSUME NEW was, Fine(was, age), was.phase = "post", NEW kind \in Endings,
             NEW failure \in Failures, NEW accepted \in SUBSET Items, UNCHANGED age,
             calls' = [calls EXCEPT ![c] = Ended(was, kind, failure, accepted)]
      PROVE  IInv' /\ calls'[c].phase = "idle"
  <2>1. Fine(Ended(was, kind, failure, accepted), age)
    BY <1>7, EndedIsFine
  <2>2. calls'[c].phase = "idle"
    BY <1>1, <1>7 DEF Ended, Fine, Typed
  <2> QED
    BY <1>7, <2>1, <2>2, OneCallStep
<1> HIDE DEF heard, new
<1>8. CASE RetryPost(c, answer)
  <2>1. CASE /\ calls' = [calls EXCEPT ![c] = Ended(heard, "provider_error", FailureOf(answer), {})]
             /\ UNCHANGED age
    <3>1. IInv' /\ calls'[c].phase = "idle"
      BY <1>3, <1>5, <1>6, <1>7, <2>1
    <3> QED
      BY <3>1
  <2>2. ASSUME NEW delay, ~FailForGood(c, FailureOf(answer)), UNCHANGED age,
               calls' = [calls EXCEPT ![c].phase = "backoff", ![c].left = delay,
                                      ![c].heard = answer]
        PROVE  IInv' /\ calls'[c].phase = "backoff"
    <3> DEFINE waiting == [call EXCEPT !.phase = "backoff", !.left = delay, !.heard = answer]
    <3>1. calls' = [calls EXCEPT ![c] = waiting]
      BY <1>1, <2>2
    <3>2. Typed(waiting)
      BY <1>1 DEF Fine, Typed
    <3>3. Spent(waiting)
      BY <1>1, <1>2, <2>2, ClientAssumption DEF Fine, Typed, Spent, Sendable, FailForGood
    <3>4. Paced(waiting, age)
      BY <1>1 DEF Fine, Typed, Paced
    <3>5. waiting.phase = "backoff"
      BY <1>1 DEF Fine, Typed
    <3> QED
      BY <1>1, <2>2, <3>1, <3>2, <3>3, <3>4, <3>5, OneCallStep DEF Fine
  <2> QED
    BY <1>8, <2>1, <2>2 DEF RetryPost, heard
<1>9. CASE RejectPost(c, answer)
  <2> DEFINE failure == [category |-> ErrorCategory(answer.status), subtype |-> "provider_rejected",
                         status |-> answer.status, hint |-> NoHint]
  <2>1. failure \in Failures
    BY <1>5, <1>9, AnswerAssumption DEF RejectPost, Failures, Subtypes
  <2> QED
    BY <1>3, <1>6, <1>7, <1>9, <2>1 DEF RejectPost, heard
<1>10. CASE Unreadable(c, answer)
  BY <1>3, <1>5, <1>6, <1>7, <1>10 DEF Unreadable, heard
<1>11. CASE RepairContent(c, answer)
  <2>1. answer.kind = "response"
    BY <1>11 DEF RepairContent
  <2>2. CASE /\ calls' = [calls EXCEPT ![c] = Ended(new, "structured_output_error", NoFailure, {})]
             /\ UNCHANGED age
    BY <1>4, <1>5, <1>6, <1>7, <2>1, <2>2
  <2>3. CASE new.repair < Repairs /\ Pace(c, [new EXCEPT !.repair = @ + 1])
    <3> DEFINE again == [new EXCEPT !.repair = @ + 1]
    <3>1. /\ Typed(again) /\ again.own = calls[c].own /\ again.repair = new.repair + 1
          /\ again.sent = new.sent /\ again.usage.requests = again.answered
      BY <1>4, <2>1, <2>3, ClientAssumption DEF Fine, Typed, Spent
    <3>2. again.sent <= again.repair * MaxRetries
      <4>1. new.sent <= new.repair * MaxRetries + new.attempt + 1
        BY <1>4, <2>1 DEF Fine, Spent, Sendable
      <4>2. /\ new.repair * MaxRetries \in Nat
            /\ (new.repair + 1) * MaxRetries = new.repair * MaxRetries + MaxRetries
        BY <1>4, <2>1, Products DEF Fine, Typed
      <4>3. new.attempt \in 0..MaxRetries - 1 /\ new.sent \in Nat /\ MaxRetries \in Nat
        BY <1>4, <2>1, ClientAssumption DEF Fine, Typed
      <4> QED
        BY <3>1, <4>1, <4>2, <4>3
    <3> HIDE DEF again
    <3> QED
      BY <2>3, <3>1, <3>2, PaceStep DEF again
  <2>4. new.repair \in Nat /\ Repairs \in Nat
    BY <1>4, <2>1, ClientAssumption DEF Fine, Typed
  <2> QED
    BY <1>11, <2>2, <2>3, <2>4 DEF RepairContent, new
<1>12. CASE \E envelope \in Envelopes : AcceptContent(c, answer, envelope)
  <2>1. PICK envelope \in Envelopes : AcceptContent(c, answer, envelope)
    BY <1>12
  <2>2. answer.kind = "response"
    BY <2>1 DEF AcceptContent
  <2>3. {item \in Items : OutcomeOf(item, envelope)} \in SUBSET Items
    OBVIOUS
  <2> QED
    BY <1>4, <1>5, <1>6, <1>7, <2>1, <2>2, <2>3 DEF AcceptContent, new
<1> QED
  BY <1>8, <1>9, <1>10, <1>11, <1>12

LEMMA BeginStep ==
  ASSUME IInv, NEW c \in Callers, BeginCall(c)
  PROVE  IInv' /\ (calls'[c].phase = "post" => calls[c].own >= ChatDelay)
<1> DEFINE call == Idle(calls[c].own)
<1>1. Typed(calls[c])
  BY DEF IInv, Fine
<1>2. NoUsage \in [requests : Nat, reporting : Nat] /\ NoUsage.requests = 0
  BY DEF NoUsage
<1>3. NoOutcome \in [kind : Endings, failure : Failures, accepted : SUBSET Items]
  BY DEF NoOutcome, NoFailure, NoStatus, Endings, Failures, Categories, Subtypes
<1>4. Typed(call) /\ call.own = calls[c].own /\ call.sent = 0 /\ call.repair = 0
      /\ call.usage.requests = call.answered
  BY <1>1, <1>2, <1>3, ClientAssumption DEF Typed, Idle
<1>5. call.sent <= call.repair * MaxRetries
  BY <1>4, ClientAssumption
<1> HIDE DEF call
<1> QED
  BY <1>4, <1>5, PaceStep DEF BeginCall, call

(* The sleep is over: the caller's own clock is old enough by now.         *)
LEMMA EndPaceStep ==
  ASSUME IInv, NEW c \in Callers, EndPace(c)
  PROVE  IInv' /\ calls[c].own >= ChatDelay
<1> DEFINE call == calls[c]
<1>1. Fine(call, age) /\ call.phase = "pace" /\ call.left = 0
  BY DEF IInv, EndPace
<1>2. call.own >= ChatDelay
  BY <1>1, ClientAssumption DEF Fine, Typed, Paced
<1>3. Fine(Started(call), 0)
  BY <1>1, StartedIsFine DEF Fine, Spent, Sendable
<1>4. DOMAIN calls' = Callers /\ calls'[c] = Started(call)
      /\ \A d \in Callers : d # c => calls'[d] = calls[d]
  BY DEF IInv, EndPace
<1>5. \A d \in Callers : Fine(calls'[d], 0)
  BY <1>3, <1>4, ClockWritten DEF IInv
<1>6. age' = 0
  BY DEF EndPace
<1> QED
  BY <1>2, <1>4, <1>5, <1>6, ClientAssumption DEF IInv

LEMMA EndBackoffStep ==
  ASSUME IInv, NEW c \in Callers, EndBackoff(c)
  PROVE  IInv'
<1> DEFINE call == calls[c]
           again == [call EXCEPT !.phase = "post", !.attempt = @ + 1, !.sent = @ + 1]
<1>1. Fine(call, age) /\ call.phase = "backoff" /\ call.left = 0 /\ DOMAIN calls = Callers
  BY DEF IInv, EndBackoff
<1>2. calls' = [calls EXCEPT ![c] = again] /\ UNCHANGED age
  BY <1>1 DEF EndBackoff
<1>3. Typed(again)
  BY <1>1, ClientAssumption DEF Fine, Typed, Spent
<1>4. Spent(again)
  <2>1. again.sent = call.sent + 1 /\ again.attempt = call.attempt + 1
        /\ again.repair = call.repair /\ again.phase = "post"
        /\ again.usage = call.usage /\ again.answered = call.answered
    BY <1>1 DEF Fine, Typed
  <2>2. call.repair * MaxRetries \in Nat /\ call.attempt \in Nat /\ call.sent \in Nat
    BY <1>1, Products, ClientAssumption DEF Fine, Typed
  <2>3. call.sent <= call.repair * MaxRetries + call.attempt + 1
        /\ call.usage.requests = call.answered
    BY <1>1 DEF Fine, Spent, Sendable
  <2>4. again.sent <= again.repair * MaxRetries + again.attempt + 1
    BY <2>1, <2>2, <2>3
  <2> HIDE DEF again
  <2> QED
    BY <2>1, <2>3, <2>4 DEF Spent, Sendable
<1>5. Paced(again, age)
  BY <1>1 DEF Fine, Typed, Paced
<1> QED
  BY <1>2, <1>3, <1>4, <1>5, OneCallStep DEF Fine

(* Time makes all clocks older at once, and sleeps shorter by as much.     *)
LEMMA TickStep ==
  ASSUME IInv, Tick
  PROVE  IInv'
<1>1. \A a, b \in 0..ChatDelay :
        /\ Older(a) \in 0..ChatDelay
        /\ Older(b) = b + 1 \/ Older(b) = ChatDelay
        /\ a <= b => Older(a) <= Older(b)
  BY ClientAssumption DEF Older, Smaller
<1>2. age' = Older(age) /\ age' \in 0..ChatDelay /\ DOMAIN calls' = Callers
  BY <1>1 DEF IInv, Tick
<1>3. ASSUME NEW c \in Callers
      PROVE  Fine(calls'[c], age')
  <2> DEFINE call == calls[c]
             new == [call EXCEPT !.left = IF @ > 0 THEN @ - 1 ELSE 0, !.own = Older(@)]
  <2>1. Fine(call, age) /\ age \in 0..ChatDelay /\ calls'[c] = new
    BY <1>3 DEF IInv, Tick
  <2>2. Older(call.own) \in 0..ChatDelay /\ age' <= Older(call.own)
        /\ (Older(call.own) = call.own + 1 \/ Older(call.own) = ChatDelay)
    BY <1>1, <1>2, <2>1 DEF Fine, Typed, Paced
  <2>3. Typed(new)
    BY <2>1, <2>2, ClientAssumption DEF Fine, Typed
  <2>4. Spent(new)
    BY <2>1 DEF Fine, Typed, Spent, Sendable
  <2>5. Paced(new, age')
    BY <2>1, <2>2, ClientAssumption DEF Fine, Typed, Paced
  <2> QED
    BY <2>1, <2>3, <2>4, <2>5 DEF Fine
<1> QED
  BY <1>2, <1>3 DEF IInv

-----------------------------------------------------------------------------
LEMMA InvInit == Init => IInv
<1> SUFFICES ASSUME Init PROVE IInv
  OBVIOUS
<1>1. NoOutcome \in [kind : Endings, failure : Failures, accepted : SUBSET Items]
  BY DEF NoOutcome, NoFailure, NoStatus, Endings, Failures, Categories, Subtypes
<1>2. Typed(Idle(ChatDelay))
  BY <1>1, ClientAssumption DEF Typed, Idle, NoUsage
<1>3. (Repairs + 1) * MaxRetries \in Nat
  BY Products, ClientAssumption
<1>4. Spent(Idle(ChatDelay)) /\ Paced(Idle(ChatDelay), ChatDelay)
  BY <1>3, ClientAssumption DEF Spent, Sendable, Paced, Idle, NoUsage
<1> QED
  BY <1>2, <1>4, ClientAssumption DEF Init, IInv, Fine

LEMMA InvStep == IInv /\ [Next]_vars => IInv'
<1> SUFFICES ASSUME IInv, [Next]_vars PROVE IInv'
  OBVIOUS
<1>1. CASE Tick
  BY <1>1, TickStep
<1>2. ASSUME NEW c \in Callers, BeginCall(c) \/ EndPace(c) \/ EndBackoff(c) \/ Receive(c)
      PROVE  IInv'
  BY <1>2, BeginStep, EndPaceStep, EndBackoffStep, ReceiveStep
<1>3. CASE UNCHANGED vars
  BY <1>3 DEF IInv, vars
<1> QED
  BY <1>1, <1>2, <1>3 DEF Next

LEMMA Invariant == Spec => []IInv
  BY InvInit, InvStep, PTL DEF Spec

(* No step takes a variable out of its type: no attempt past the last, no  *)
(* repair past the last, no clock past the gap.                            *)
THEOREM TypeCorrect == Spec => []TypeOK
  BY Invariant, InvariantIsTyped, PTL

(* A call sends at most its retries times one more than its repairs, and   *)
(* is charged for exactly the answers it got (chat_json, _post).           *)
THEOREM CostsAreBounded == Spec => []CostIsBounded
<1>1. IInv => CostIsBounded
  BY SendableIsBounded DEF IInv, Fine, Spent, CostIsBounded
<1> QED
  BY <1>1, Invariant, PTL

(* However many callers write the clock while one sleeps, a caller's paced *)
(* requests are a whole delay apart (_pace_chat_call).                     *)
THEOREM OwnCallsKeepApart == Spec => OwnCallsAreApart
<1>1. IInv /\ [Next]_vars => [\A c \in Callers : Leaves(c) => calls[c].own >= ChatDelay]_vars
  <2> SUFFICES ASSUME IInv, Next, NEW c \in Callers, Leaves(c)
               PROVE  calls[c].own >= ChatDelay
    OBVIOUS
  <2>1. CASE Tick
    <3>1. calls'[c].phase = calls[c].phase /\ calls'[c].repair = calls[c].repair
      BY <2>1 DEF IInv, Fine, Typed, Tick
    <3> QED
      BY <3>1 DEF Leaves
  <2>2. ASSUME NEW d \in Callers, BeginCall(d) \/ EndPace(d) \/ EndBackoff(d) \/ Receive(d)
        PROVE  calls[c].own >= ChatDelay
    <3>1. CASE d = c
      <4>1. ~EndBackoff(c)
        BY DEF EndBackoff, Leaves
      <4> QED
        BY <2>2, <3>1, <4>1, BeginStep, EndPaceStep, ReceiveStep DEF Leaves
    <3>2. CASE d # c
      <4>1. \E call : calls' = [calls EXCEPT ![d] = call]
        BY <2>2, ZenonT(60) DEF BeginCall, EndPace, EndBackoff, Receive, Pace, RetryPost, RejectPost,
                    Unreadable, RepairContent, AcceptContent
      <4>2. calls'[c] = calls[c]
        BY <3>2, <4>1 DEF IInv
      <4> QED
        BY <4>2 DEF Leaves
    <3> QED
      BY <3>1, <3>2
  <2> QED
    BY <2>1, <2>2 DEF Next
<1> QED
  BY <1>1, Invariant, PTL DEF Spec, OwnCallsAreApart

=============================================================================
