-------------------------- MODULE RetryClientProofs --------------------------
(***************************************************************************)
(* Proofs about RetryClient, for every policy, provider and Retry-After.   *)
(*                                                                         *)
(* The argument: while a call is under way, everything it has sent failed  *)
(* for a while and there is budget left (Underway), and the instant of the *)
(* next request, now or now + delay, already keeps the promises made about *)
(* the wait before it (NextIsTimely).                                      *)
(***************************************************************************)
EXTENDS RetryClient, TLAPS

(* The promises about a wait: t is late enough, and not too late, for a    *)
(* request that follows the i-th.                                          *)
Timely(i, t) ==
  /\ t >= NotBefore(requests[i])
  /\ t >= requests[i].answered + Backoff(i)
  /\ t <= Larger(requests[i].answered + MaxDelay, NotBefore(requests[i]))

WaitsTimely == \A i \in 1 .. Len(requests) - 1 : Timely(i, requests[i + 1].sent)

NextIsTimely ==
  /\ pc = "send" /\ Len(requests) > 0 => Timely(Len(requests), now)
  /\ pc = "wait" => Len(requests) > 0 /\ Timely(Len(requests), now + delay)

Underway ==
  pc # "idle" =>
    /\ decision = "none"
    /\ Len(requests) < MaxAttempts
    /\ operation = "unsafe_create" => Len(requests) = 0
    /\ \A i \in 1 .. Len(requests) : Transient(requests[i].outcome)

IInv ==
  /\ TypeOK
  /\ RetriesJustified
  /\ WaitsTimely
  /\ NextIsTimely
  /\ Underway
  /\ DecisionJustified

-----------------------------------------------------------------------------
(* How long the client waits.                                              *)

LEMMA BackoffBounds ==
  ASSUME NEW n \in 1 .. MaxAttempts
  PROVE  Backoff(n) \in Nat /\ Backoff(n) >= BaseDelay /\ Backoff(n) <= MaxDelay
  <1>1. n - 1 \in 0 .. MaxAttempts
    BY RetryAssumption
  <1> DEFINE p == 2^(n - 1)
  <1>2. p \in Nat
    BY <1>1, PowersAssumption
  <1> HIDE DEF p
  <1>3. BaseDelay * p \in Nat
    BY <1>2, RetryAssumption
  <1>4. Backoff(n) = Larger(BaseDelay, Smaller(BaseDelay * p, MaxDelay))
    BY DEF Backoff, p
  <1> QED
    BY <1>3, <1>4, RetryAssumption DEF Larger, Smaller

LEMMA JitterBounds ==
  ASSUME NEW n \in 1 .. MaxAttempts, NEW random \in 0 .. 100
  PROVE  /\ Jittered(n, random) \in Nat
         /\ Jittered(n, random) >= Backoff(n) /\ Jittered(n, random) <= MaxDelay
  <1> DEFINE b == Backoff(n)
             product == b * JitterPercent * random
             extra == product \div 10000
  <1>1. b \in Nat /\ b <= MaxDelay
    BY BackoffBounds
  <1> HIDE DEF b
  <1>2. b * JitterPercent \in Nat
    BY <1>1, RetryAssumption
  <1>3. product \in Nat
    BY <1>2
  <1> HIDE DEF product
  <1>4. extra \in Nat
    BY <1>3
  <1> HIDE DEF extra
  <1>5. Jittered(n, random) = Smaller(b + extra, MaxDelay)
    BY DEF Jittered, b, product, extra
  <1> QED
    BY <1>1, <1>4, <1>5, RetryAssumption DEF Smaller, b

(* The wait computed after the n-th request keeps every promise.           *)
LEMMA WaitIsTimely ==
  ASSUME NEW n \in 1 .. MaxAttempts, NEW random \in 0 .. 100,
         NEW q \in Request
  PROVE  LET d == WaitSeconds(n, random, q.hint, q.answered)
             t == q.answered + d
         IN  /\ d \in Nat
             /\ t >= NotBefore(q) /\ t >= q.answered + Backoff(n)
             /\ t <= Larger(q.answered + MaxDelay, NotBefore(q))
  <1> DEFINE j == Jittered(n, random)
             after == RetryAfter(q.hint, q.answered)
             d == WaitSeconds(n, random, q.hint, q.answered)
  <1>1. j \in Nat /\ j >= Backoff(n) /\ j <= MaxDelay
    BY JitterBounds
  <1>2. Backoff(n) \in Nat
    BY BackoffBounds
  <1>3. /\ q.answered \in Nat /\ q.hint.value \in Int
        /\ q.hint.kind \in {"none", "garbled", "seconds", "date"}
    BY DEF Request
  <1>4. d = Larger(j, after)
    BY DEF WaitSeconds
  <1> HIDE DEF j, d
  <1>5. CASE q.hint.kind = "seconds"
    <2>1. after = Larger(0, q.hint.value) /\ NotBefore(q) = q.answered + q.hint.value
      BY <1>5 DEF RetryAfter, NotBefore
    <2> HIDE DEF after
    <2> QED
      BY <2>1, <1>1, <1>2, <1>3, <1>4, RetryAssumption DEF Larger, d
  <1>6. CASE q.hint.kind = "date"
    <2>1. after = Larger(0, q.hint.value - q.answered) /\ NotBefore(q) = q.hint.value
      BY <1>6 DEF RetryAfter, NotBefore
    <2> HIDE DEF after
    <2> QED
      BY <2>1, <1>1, <1>2, <1>3, <1>4, RetryAssumption DEF Larger, d
  <1>7. CASE q.hint.kind \in {"none", "garbled"}
    <2>1. after = 0 /\ NotBefore(q) = q.answered
      BY <1>7 DEF RetryAfter, NotBefore
    <2> HIDE DEF after
    <2> QED
      BY <2>1, <1>1, <1>2, <1>3, <1>4, RetryAssumption DEF Larger, d
  <1> QED
    BY <1>3, <1>5, <1>6, <1>7

-----------------------------------------------------------------------------
(* What every exchange does to the requests of the call.                   *)

LEMMA ExchangeAppends ==
  ASSUME TypeOK, NEW outcome \in Outcomes, NEW hint \in Hints \union {NoHint},
         Exchange(outcome, hint)
  PROVE  /\ now' \in Nat /\ now <= now'
         /\ requests' \in Seq(Request) /\ Len(requests') = Len(requests) + 1
         /\ \A i \in 1 .. Len(requests) : requests'[i] = requests[i]
         /\ requests'[Len(requests')] \in Request
         /\ requests'[Len(requests')].sent = now
         /\ requests'[Len(requests')].answered = now'
         /\ requests'[Len(requests')].outcome = outcome
         /\ requests'[Len(requests')].hint = hint
         /\ \A i \in DOMAIN requests' : requests'[i].sent <= requests'[i].answered
  <1> DEFINE q == [sent |-> now, answered |-> now', outcome |-> outcome, hint |-> hint]
  <1>1. now' \in Nat /\ now <= now' /\ now \in Nat
    BY RetryAssumption DEF TypeOK, Exchange
  <1>2. hint \in [kind : {"none", "garbled", "seconds", "date"}, value : Int]
    BY RetryAssumption DEF NoHint
  <1>3. /\ q \in Request
        /\ q.sent = now /\ q.answered = now' /\ q.outcome = outcome /\ q.hint = hint
    BY <1>1, <1>2 DEF Request
  <1>4. requests' = Append(requests, q) /\ requests \in Seq(Request)
    BY DEF Exchange, TypeOK
  <1> HIDE DEF q
  <1>5. /\ requests' \in Seq(Request) /\ Len(requests') = Len(requests) + 1
        /\ \A i \in 1 .. Len(requests) : requests'[i] = requests[i]
        /\ requests'[Len(requests')] = q
    BY <1>3, <1>4
  <1>6. \A i \in DOMAIN requests' : requests'[i].sent <= requests'[i].answered
    <2> SUFFICES ASSUME NEW i \in DOMAIN requests'
                 PROVE  requests'[i].sent <= requests'[i].answered
      OBVIOUS
    <2>1. i \in 1 .. Len(requests) \/ i = Len(requests')
      BY <1>4, <1>5
    <2> QED
      BY <2>1, <1>1, <1>3, <1>4, <1>5 DEF TypeOK
  <1> QED
    BY <1>1, <1>3, <1>5, <1>6

(* A request sent keeps the promises of the waits so far.                  *)
LEMMA SentInTime ==
  ASSUME IInv, pc = "send", NEW outcome \in Outcomes, NEW hint \in Hints \union {NoHint},
         Exchange(outcome, hint)
  PROVE  WaitsTimely'
  <1>1. TypeOK /\ WaitsTimely /\ NextIsTimely
    BY DEF IInv
  <1>2. /\ Len(requests') = Len(requests) + 1 /\ Len(requests) \in Nat
        /\ \A i \in 1 .. Len(requests) : requests'[i] = requests[i]
        /\ requests'[Len(requests')].sent = now
    BY <1>1, ExchangeAppends DEF TypeOK
  <1> SUFFICES ASSUME NEW i \in 1 .. Len(requests') - 1
               PROVE  Timely(i, requests[i + 1].sent)'
    BY DEF WaitsTimely
  <1>3. CASE i = Len(requests)
    <2>1. Timely(i, now) /\ requests'[i] = requests[i] /\ requests'[i + 1].sent = now
      BY <1>1, <1>2, <1>3 DEF NextIsTimely
    <2> QED
      BY <2>1 DEF Timely
  <1>4. CASE i # Len(requests)
    <2>1. i \in 1 .. Len(requests) - 1 /\ i + 1 \in 1 .. Len(requests)
      BY <1>2, <1>4
    <2>2. Timely(i, requests[i + 1].sent)
      BY <1>1, <2>1 DEF WaitsTimely
    <2>3. requests'[i] = requests[i] /\ requests'[i + 1] = requests[i + 1]
      BY <1>2, <2>1
    <2> QED
      BY <2>2, <2>3 DEF Timely
  <1> QED
    BY <1>3, <1>4

(* Everything sent before the last request failed for a while.             *)
LEMMA EarlierTransient ==
  ASSUME IInv, pc = "send", NEW outcome \in Outcomes, NEW hint \in Hints \union {NoHint},
         Exchange(outcome, hint)
  PROVE  /\ \A i \in 1 .. Len(requests') - 1 : Transient(requests'[i].outcome)
         /\ Len(requests') \in 1 .. MaxAttempts
         /\ operation = "unsafe_create" => Len(requests') = 1
         /\ requests'[Len(requests')].outcome = outcome
         /\ requests'[Len(requests')].answered = now'
  <1>1. TypeOK /\ Underway
    BY DEF IInv
  <1>2. /\ Len(requests') = Len(requests) + 1 /\ Len(requests) \in Nat
        /\ \A i \in 1 .. Len(requests) : requests'[i] = requests[i]
        /\ requests'[Len(requests')].outcome = outcome
        /\ requests'[Len(requests')].answered = now'
    BY <1>1, ExchangeAppends DEF TypeOK
  <1> QED
    BY <1>1, <1>2, RetryAssumption DEF Underway

(* A call that returns d after its last request.                           *)
LEMMA ReturnPreserves ==
  ASSUME IInv, pc = "send", NEW outcome \in Outcomes, NEW hint \in Hints \union {NoHint},
         Exchange(outcome, hint), NEW d \in Decisions, Return(d), UNCHANGED operation,
         d = "success" <=> outcome = "2xx",
         d = "stop_permanent" <=> outcome = "permanent",
         d = "stop_unsafe" <=> Transient(outcome) /\ operation = "unsafe_create",
         d = "stop_exhausted" => Transient(outcome) /\ Len(requests') = MaxAttempts
  PROVE  IInv'
  <1>1. TypeOK /\ Underway
    BY DEF IInv
  <1>2. pc' = "idle" /\ decision' = d /\ delay' = delay
    BY DEF Return
  <1>3. /\ \A i \in 1 .. Len(requests') - 1 : Transient(requests'[i].outcome)
        /\ Len(requests') \in 1 .. MaxAttempts
        /\ operation = "unsafe_create" => Len(requests') = 1
        /\ requests'[Len(requests')].outcome = outcome
        /\ requests'[Len(requests')].answered = now'
    BY EarlierTransient
  <1>4. TypeOK'
    BY <1>1, <1>2, ExchangeAppends DEF TypeOK
  <1>5. RetriesJustified'
    BY <1>1, <1>3 DEF RetriesJustified, TypeOK
  <1>6. WaitsTimely'
    BY SentInTime
  <1>7. NextIsTimely' /\ Underway'
    BY <1>2 DEF NextIsTimely, Underway
  <1>8. DecisionJustified'
    <2>1. d = "stop_exhausted" =>
            /\ Len(requests') = MaxAttempts
            /\ \A i \in 1 .. Len(requests') : Transient(requests'[i].outcome)
      BY <1>3
    <2> QED
      BY <1>2, <1>3, <2>1 DEF DecisionJustified
  <1> QED
    BY <1>4, <1>5, <1>6, <1>7, <1>8 DEF IInv

-----------------------------------------------------------------------------
(* One lemma per action.                                                   *)

LEMMA CallPreserves ==
  ASSUME IInv, Call
  PROVE  IInv'
  <1>1. /\ pc' = "send" /\ operation' \in Operations /\ now' = 0 /\ delay' = 0
        /\ requests' = <<>> /\ decision' = "none"
    BY DEF Call
  <1>2. Len(requests') = 0
    BY <1>1
  <1>3. TypeOK'
    BY <1>1 DEF TypeOK
  <1>4. RetriesJustified' /\ WaitsTimely' /\ NextIsTimely'
    BY <1>1, <1>2, RetryAssumption DEF RetriesJustified, WaitsTimely, NextIsTimely
  <1>5. Underway' /\ DecisionJustified'
    BY <1>1, <1>2, RetryAssumption DEF Underway, DecisionJustified
  <1> QED
    BY <1>3, <1>4, <1>5 DEF IInv

LEMMA SendOncePreserves ==
  ASSUME IInv, SendOnce
  PROVE  IInv'
  <1>1. PICK outcome \in Outcomes, hint \in Hints \union {NoHint} :
          /\ Exchange(outcome, hint)
          /\ Return(IF Transient(outcome) THEN "stop_unsafe" ELSE TerminalDecision(outcome))
    BY DEF SendOnce, Answers
  <1>2. pc = "send" /\ UNCHANGED operation
    BY DEF SendOnce
  <1>3. operation = "unsafe_create"
    BY DEF SendOnce, RetrySafe, IInv, TypeOK, Operations
  <1> DEFINE d == IF Transient(outcome) THEN "stop_unsafe" ELSE TerminalDecision(outcome)
  <1>4. /\ d \in Decisions
        /\ d = "success" <=> outcome = "2xx"
        /\ d = "stop_permanent" <=> outcome = "permanent"
        /\ d = "stop_unsafe" <=> Transient(outcome)
        /\ d # "stop_exhausted"
    BY DEF Outcomes, Decisions, Transient, TerminalDecision
  <1> HIDE DEF d
  <1>5. Return(d)
    BY <1>1 DEF d
  <1> QED
    BY <1>1, <1>2, <1>3, <1>4, <1>5, ReturnPreserves

LEMMA SendSafePreserves ==
  ASSUME IInv, SendSafe
  PROVE  IInv'
  <1> DEFINE n == Len(requests')
  <1>1. PICK outcome \in Outcomes, hint \in Hints \union {NoHint} :
          /\ Exchange(outcome, hint)
          /\ \/ /\ ~Transient(outcome)
                /\ Return(TerminalDecision(outcome))
             \/ /\ Transient(outcome)
                /\ Return("raised")
             \/ /\ Transient(outcome)
                /\ Exhausted(n)
                /\ Return("stop_exhausted")
             \/ /\ Transient(outcome)
                /\ ~Exhausted(n)
                /\ pc' = "wait"
                /\ \E random \in 0 .. 100 : delay' = WaitSeconds(n, random, hint, now')
                /\ UNCHANGED decision
    BY DEF SendSafe, Answers
  <1>2. pc = "send" /\ UNCHANGED operation
    BY DEF SendSafe
  <1>3. operation = "safe_read"
    BY DEF SendSafe, RetrySafe
  <1>4. CASE ~Transient(outcome) /\ Return(TerminalDecision(outcome))
    <2> DEFINE d == TerminalDecision(outcome)
    <2>1. /\ d \in Decisions
          /\ d = "success" <=> outcome = "2xx"
          /\ d = "stop_permanent" <=> outcome = "permanent"
          /\ d # "stop_unsafe" /\ d # "stop_exhausted"
      BY <1>4 DEF Outcomes, Decisions, Transient, TerminalDecision
    <2> HIDE DEF d
    <2>2. Return(d)
      BY <1>4 DEF d
    <2> QED
      BY <1>1, <1>2, <1>3, <1>4, <2>1, <2>2, ReturnPreserves
  <1>5. CASE Transient(outcome) /\ Return("raised")
    BY <1>1, <1>2, <1>3, <1>5, ReturnPreserves DEF Decisions, Transient
  <1>6. CASE Transient(outcome) /\ Exhausted(n) /\ Return("stop_exhausted")
    <2>1. n = MaxAttempts
      BY <1>1, <1>2, <1>6, EarlierTransient, RetryAssumption DEF Exhausted
    <2> QED
      BY <1>1, <1>2, <1>3, <1>6, <2>1, ReturnPreserves DEF Decisions, Transient
  <1>7. CASE /\ Transient(outcome)
             /\ ~Exhausted(n)
             /\ pc' = "wait"
             /\ \E random \in 0 .. 100 : delay' = WaitSeconds(n, random, hint, now')
             /\ UNCHANGED decision
    <2>1. PICK random \in 0 .. 100 : delay' = WaitSeconds(n, random, hint, now')
      BY <1>7
    <2>2. TypeOK /\ Underway
      BY DEF IInv
    <2>3. /\ \A i \in 1 .. n - 1 : Transient(requests'[i].outcome)
          /\ n \in 1 .. MaxAttempts
          /\ requests'[n].outcome = outcome /\ requests'[n].answered = now'
      BY <1>1, <1>2, EarlierTransient
    <2>4. requests'[n] \in Request /\ requests'[n].hint = hint
      BY <1>1, <1>2, <2>2, ExchangeAppends
    <2>5. n < MaxAttempts /\ \A i \in 1 .. n : Transient(requests'[i].outcome)
      BY <1>7, <2>3, RetryAssumption DEF Exhausted
    <2>6. delay' = WaitSeconds(n, random, requests'[n].hint, requests'[n].answered)
      BY <2>1, <2>3, <2>4
    <2>7. PICK k \in 1 .. MaxAttempts, q \in Request : k = n /\ q = requests'[n]
      BY <2>3, <2>4
    <2>8. delay' = WaitSeconds(k, random, q.hint, q.answered) /\ q.answered = now'
      BY <2>3, <2>6, <2>7
    <2>9. /\ delay' \in Nat
          /\ now' + delay' >= NotBefore(q) /\ now' + delay' >= q.answered + Backoff(k)
          /\ now' + delay' <= Larger(q.answered + MaxDelay, NotBefore(q))
      BY <2>8, WaitIsTimely
    <2>10. Timely(Len(requests), now + delay)'
      BY <2>7, <2>9 DEF Timely
    <2>11. TypeOK'
      BY <1>1, <1>2, <1>7, <2>2, <2>9, ExchangeAppends DEF TypeOK
    <2>12. RetriesJustified' /\ Underway'
      BY <1>2, <1>3, <1>7, <2>2, <2>5, RetryAssumption DEF RetriesJustified, Underway
    <2>13. WaitsTimely'
      BY <1>1, <1>2, SentInTime
    <2>14. NextIsTimely'
      BY <1>7, <2>3, <2>10 DEF NextIsTimely
    <2>15. DecisionJustified'
      BY <1>2, <1>7, <2>2 DEF DecisionJustified, Underway
    <2> QED
      BY <2>11, <2>12, <2>13, <2>14, <2>15 DEF IInv
  <1> QED
    BY <1>1, <1>4, <1>5, <1>6, <1>7

LEMMA WaitPreserves ==
  ASSUME IInv, Wait
  PROVE  IInv'
  <1>1. /\ TypeOK /\ RetriesJustified /\ WaitsTimely /\ NextIsTimely /\ Underway
        /\ pc = "wait" /\ pc' = "send" /\ now' = now + delay
        /\ UNCHANGED <<operation, delay, requests, decision>>
    BY DEF IInv, Wait
  <1>2. TypeOK' /\ RetriesJustified'
    BY <1>1 DEF TypeOK, RetriesJustified
  <1>3. WaitsTimely'
    BY <1>1 DEF WaitsTimely, Timely
  <1>4. NextIsTimely'
    BY <1>1 DEF NextIsTimely, Timely
  <1>5. Underway' /\ DecisionJustified'
    BY <1>1 DEF Underway, DecisionJustified
  <1> QED
    BY <1>2, <1>3, <1>4, <1>5 DEF IInv

LEMMA InitEstablishes ==
  ASSUME Init
  PROVE  IInv
  <1>1. pc = "idle" /\ requests = <<>> /\ decision = "none" /\ Len(requests) = 0
    BY DEF Init
  <1> QED
    BY <1>1, RetryAssumption
    DEF Init, IInv, TypeOK, RetriesJustified, WaitsTimely, NextIsTimely, Underway,
        DecisionJustified

(* The inductive invariant of a call under way.                            *)
THEOREM RetryInvariant == Spec => []IInv
  <1>1. ASSUME IInv, UNCHANGED vars
        PROVE  IInv'
    BY <1>1
    DEF vars, IInv, TypeOK, RetriesJustified, WaitsTimely, Timely, NextIsTimely, Underway,
        DecisionJustified
  <1>2. IInv /\ [Next]_vars => IInv'
    BY <1>1, CallPreserves, SendOncePreserves, SendSafePreserves, WaitPreserves DEF Next
  <1> QED
    BY <1>2, InitEstablishes, PTL DEF Spec

(* Retries are limited to what may be repeated, and to the budget, and the *)
(* decision a call returns is the one its requests justify.                *)
THEOREM CallIsJustified == Spec => [](TypeOK /\ CallJustified)
  <1>1. IInv => TypeOK /\ CallJustified
    BY DEF IInv, CallJustified
  <1> QED
    BY <1>1, RetryInvariant, PTL

(* No retry precedes the instant the provider asked for, and every wait    *)
(* lies between the backoff and the larger of the policy's maximum and     *)
(* what the provider asked.                                                *)
THEOREM WaitsAreRespected == Spec => []WaitsRespected
  <1>1. IInv => WaitsRespected
    BY DEF IInv, WaitsTimely, Timely, WaitsRespected
  <1> QED
    BY <1>1, RetryInvariant, PTL
=============================================================================
