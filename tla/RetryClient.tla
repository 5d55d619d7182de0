----------------------------- MODULE RetryClient -----------------------------
(***************************************************************************)
(* P05-timeout-retry-backoff: RetryingProviderClient.call sends a safe     *)
(* operation again after a transient failure, within a budget of attempts, *)
(* and an unsafe one only once.  Tenacity, which runs the loop, and the    *)
(* HTTP transport are external.                                            *)
(*                                                                         *)
(* Time is the caller's clock, in ticks since the call began; it passes    *)
(* while the provider answers and while the client waits.  A client keeps  *)
(* nothing from one call to the next.                                      *)
(***************************************************************************)
EXTENDS Integers, Sequences

CONSTANTS
  MaxAttempts,   (* RetryPolicy.max_attempts                               *)
  BaseDelay,     (* RetryPolicy.base_delay_seconds, in ticks               *)
  MaxDelay,      (* RetryPolicy.max_delay_seconds, in ticks                *)
  JitterPercent, (* RetryPolicy.jitter_ratio                               *)
  RandomPercents,(* what random_value may return                           *)
  Latencies,     (* ticks an answer or a timeout may take                  *)
  Hints          (* Retry-After headers: [kind, value]                     *)

ASSUME RetryAssumption ==
  /\ MaxAttempts \in Nat \ {0}
  /\ BaseDelay \in Nat /\ MaxDelay \in Nat /\ BaseDelay <= MaxDelay
  /\ JitterPercent \in 0 .. 100
  /\ RandomPercents \subseteq Int
  /\ Latencies \subseteq Nat
  /\ Hints \subseteq [kind : {"none", "garbled", "seconds", "date"}, value : Int]

(* Arithmetic the proofs need: a power of two is a natural number.         *)
ASSUME PowersAssumption == \A n \in 0 .. MaxAttempts : 2^n \in Nat

VARIABLES
  pc,        (* "idle", "send" or "wait"                                   *)
  operation,
  now,
  delay,     (* what the client is about to sleep                          *)
  requests,  (* the requests of this call, as the provider saw them        *)
  decision   (* CallResult.final_decision, or "raised" for an exception    *)

vars == <<pc, operation, now, delay, requests, decision>>

Operations == {"safe_read", "unsafe_create"}
Outcomes == {"2xx", "permanent", "transient", "timeout", "broken"}
Decisions == {"success", "stop_permanent", "stop_unsafe", "stop_exhausted", "raised"}

Larger(a, b) == IF a < b THEN b ELSE a
Smaller(a, b) == IF a < b THEN a ELSE b

-----------------------------------------------------------------------------
(* Classification.                                                         *)

(* Mutant: every operation is retried.                                     *)
RetrySafeAlways(op) == TRUE
RetrySafe(op) == op = "safe_read"

(* 429, 5xx and timeouts.  Any other status ends the call, and any other   *)
(* exception of the transport leaves it.                                   *)
Transient(outcome) == outcome \in {"transient", "timeout"}

TerminalDecision(outcome) ==
  CASE outcome = "2xx"       -> "success"
    [] outcome = "permanent" -> "stop_permanent"
    [] outcome = "broken"    -> "raised"

(* stop_after_attempt.  Mutant: it counts retries instead of attempts.     *)
ExhaustedLate(attempts) == attempts > MaxAttempts
Exhausted(attempts) == attempts >= MaxAttempts

-----------------------------------------------------------------------------
(* How long to wait.                                                       *)

(* wait_exponential after the n-th attempt.                                *)
Backoff(n) == Larger(BaseDelay, Smaller(BaseDelay * 2^(n - 1), MaxDelay))

(* Mutant: the jitter comes after the cap.                                 *)
JitteredOverCap(n, random) ==
  Backoff(n) + (Backoff(n) * JitterPercent * random) \div 10000
Jittered(n, random) ==
  Smaller(Backoff(n) + (Backoff(n) * JitterPercent * random) \div 10000, MaxDelay)

(* _retry_after: seconds or an HTTP date, never negative.  No header and   *)
(* one that parses as neither ask for nothing.                             *)
(* Mutant: a date is taken for a number of seconds that does not parse.    *)
RetryAfterNoDates(hint, at) == IF hint.kind = "seconds" THEN Larger(0, hint.value) ELSE 0
RetryAfter(hint, at) ==
  CASE hint.kind = "seconds" -> Larger(0, hint.value)
    [] hint.kind = "date"    -> Larger(0, hint.value - at)
    [] OTHER                 -> 0

WaitSeconds(n, random, hint, at) == Larger(Jittered(n, random), RetryAfter(hint, at))

-----------------------------------------------------------------------------
Init ==
  /\ pc = "idle"
  /\ operation \in Operations
  /\ now = 0 /\ delay = 0
  /\ requests = <<>>
  /\ decision = "none"

Call ==
  /\ pc = "idle"
  /\ pc' = "send"
  /\ operation' \in Operations
  /\ now' = 0 /\ delay' = 0
  /\ requests' = <<>>
  /\ decision' = "none"

Return(d) ==
  /\ pc' = "idle"
  /\ decision' = d
  /\ UNCHANGED delay

(* The request goes out and its outcome comes back.                        *)
Exchange(outcome, hint) ==
  /\ now' \in {now + latency : latency \in Latencies}
  /\ requests' = Append(requests,
                   [sent |-> now, answered |-> now', outcome |-> outcome, hint |-> hint])

NoHint == [kind |-> "none", value |-> 0]
Answers(outcome) == IF outcome = "transient" THEN Hints \union {NoHint} ELSE {NoHint}

(* _call_once                                                              *)
SendOnce ==
  /\ pc = "send" /\ ~RetrySafe(operation)
  /\ \E outcome \in Outcomes : \E hint \in Answers(outcome) :
       /\ Exchange(outcome, hint)
       /\ Return(IF Transient(outcome) THEN "stop_unsafe" ELSE TerminalDecision(outcome))
  /\ UNCHANGED operation

(* _request_safe, then what Retrying does about it.  The wait is computed  *)
(* before the budget is looked at, so that a random value out of range     *)
(* leaves the call even after the last attempt.                            *)
SendSafe ==
  /\ pc = "send" /\ RetrySafe(operation)
  /\ \E outcome \in Outcomes : \E hint \in Answers(outcome) :
       /\ Exchange(outcome, hint)
       /\ \/ /\ ~Transient(outcome)
             /\ Return(TerminalDecision(outcome))
          \/ /\ Transient(outcome)
             /\ \E random \in RandomPercents :
                  \/ /\ random \notin 0 .. 100
                     /\ Return("raised")
                  \/ /\ random \in 0 .. 100
                     /\ Exhausted(Len(requests'))
                     /\ Return("stop_exhausted")
                  \/ /\ random \in 0 .. 100
                     /\ ~Exhausted(Len(requests'))
                     /\ pc' = "wait"
                     /\ delay' = WaitSeconds(Len(requests'), random, hint, now')
                     /\ UNCHANGED decision
  /\ UNCHANGED operation

Wait ==
  /\ pc = "wait"
  /\ pc' = "send"
  /\ now' = now + delay
  /\ UNCHANGED <<operation, delay, requests, decision>>

Next == Call \/ SendOnce \/ SendSafe \/ Wait

Spec == Init /\ [][Next]_vars

-----------------------------------------------------------------------------
(* Correctness.                                                            *)

Request == [sent : Nat, answered : Nat, outcome : Outcomes,
            hint : [kind : {"none", "garbled", "seconds", "date"}, value : Int]]

(* Every variable has its type, and time does not run backwards.           *)
TypeOK ==
  /\ pc \in {"idle", "send", "wait"}
  /\ operation \in Operations
  /\ now \in Nat /\ delay \in Nat
  /\ requests \in Seq(Request)
  /\ decision \in Decisions \union {"none"}
  /\ \A i \in DOMAIN requests : requests[i].sent <= requests[i].answered

(* A request is repeated only if the operation is safe and the one before  *)
(* failed for a while, and never beyond the budget.  An unsafe operation   *)
(* reaches the provider at most once, even when a timeout hides whether it *)
(* was executed.                                                           *)
RetriesJustified ==
  /\ Len(requests) <= (IF operation = "unsafe_create" THEN 1 ELSE MaxAttempts)
  /\ \A i \in 1 .. Len(requests) - 1 : Transient(requests[i].outcome)

(* The instant before which the provider asked not to be called again.     *)
NotBefore(q) ==
  CASE q.hint.kind = "seconds" -> q.answered + q.hint.value
    [] q.hint.kind = "date"    -> q.hint.value
    [] OTHER                   -> q.answered

(* No retry leaves before the instant the provider asked for, in seconds   *)
(* or as a date, however far it is beyond the policy's own maximum, nor    *)
(* before the exponential backoff; and the client waits no longer than     *)
(* max_delay_seconds unless the provider asked for more.                   *)
WaitsRespected ==
  \A i \in 1 .. Len(requests) - 1 :
    LET q == requests[i]  next == requests[i + 1].sent IN
    /\ next >= NotBefore(q)
    /\ next >= q.answered + Backoff(i)
    /\ next <= Larger(q.answered + MaxDelay, NotBefore(q))

(* The decision returned is the one the requests made justify: exhausted   *)
(* only after the whole budget failed for a while, unsafe only when one    *)
(* unrepeatable request did; it comes with the last answer, not later.     *)
DecisionJustified ==
  decision # "none" =>
    LET n == Len(requests)  last == requests[n] IN
    /\ n > 0 /\ now = last.answered
    /\ decision = "success" <=> last.outcome = "2xx"
    /\ decision = "stop_permanent" <=> last.outcome = "permanent"
    /\ decision = "stop_unsafe" <=> Transient(last.outcome) /\ operation = "unsafe_create"
    /\ decision = "stop_exhausted" =>
         n = MaxAttempts /\ \A i \in 1 .. n : Transient(requests[i].outcome)

(* What a call repeats and what it returns are both justified by the       *)
(* answers it got.                                                         *)
CallJustified == RetriesJustified /\ DecisionJustified
=============================================================================
