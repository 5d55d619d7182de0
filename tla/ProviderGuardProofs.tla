------------------------ MODULE ProviderGuardProofs --------------------------
(***************************************************************************)
(* The safety of ProviderGuard for every threshold, timeout, capacity and  *)
(* refill rate, and however the two clocks advance.                        *)
(***************************************************************************)
EXTENDS ProviderGuard, TLAPS

(* Since any request, the tokens left and the cost of the requests made    *)
(* fit in a full bucket and the refill up to the last update.              *)
BucketAccounts ==
  \A i \in DOMAIN calls :
    /\ calls[i].up <= updatedAt
    /\ (Len(calls) - i + 1) * TokenCost + tokens <= Capacity + (updatedAt - calls[i].up) * RefillRate

(* What the circuit remembers of the last request that left it open.       *)
CircuitRemembers ==
  \A i \in DOMAIN calls : calls[i].opened =>
    \/ i = Len(calls) /\ circuit = "open" /\ openedAt = calls[i].at
    \/ now - calls[i].at >= RecoveryTimeout

(* Requests happen in the order of the wall clock.                         *)
CallsInOrder ==
  /\ \A i \in DOMAIN calls : calls[i].at <= now
  /\ \A i, j \in DOMAIN calls : i <= j => calls[i].at <= calls[j].at

GInv ==
  /\ TypeOK
  /\ CallsInOrder
  /\ BucketAccounts
  /\ RateRespected
  /\ CircuitRemembers
  /\ OpenCircuitShields
  /\ OpensOnlyOnFailures

-----------------------------------------------------------------------------
(* Refilling over two intervals is refilling over their sum.               *)
LEMMA RefillSplits ==
  ASSUME NEW a \in Int, NEW b \in Int, NEW c \in Int
  PROVE  /\ (c - a) * RefillRate = (c - b) * RefillRate + (b - a) * RefillRate
         /\ (c - a) * RefillRate \in Int
         /\ a <= c => 0 <= (c - a) * RefillRate
<1>1. RefillRate \in Nat
  BY GuardAssumption
<1>2. QED
  BY <1>1

LEMMA Balance ==
  ASSUME NEW cost \in Int, NEW t \in Int, NEW r \in Int, NEW full \in Int,
         NEW before \in Int, NEW gained \in Int, NEW total \in Int,
         cost + t <= full + before, r <= t + gained, total = gained + before
  PROVE  cost + r <= full + total
OBVIOUS

(* One recorded request.                                                   *)
LEMMA CallFields ==
  ASSUME calls \in Seq(Call), NEW i \in DOMAIN calls
  PROVE  /\ i \in 1 .. Len(calls) /\ Len(calls) \in Nat
         /\ calls[i].at \in Nat /\ calls[i].up \in Nat /\ calls[i].opened \in BOOLEAN
<1>1. calls[i] \in Call
  OBVIOUS
<1>2. QED
  BY <1>1 DEF Call

(* The bucket after a refill at the current time: what it holds, and that  *)
(* the accounts still balance at the new instant.                          *)
LEMMA RefillKeepsAccounts ==
  ASSUME TypeOK, BucketAccounts
  PROVE  /\ Refilled(uptime) \in 0 .. Capacity
         /\ \A i \in DOMAIN calls :
              /\ calls[i].up <= uptime
              /\ (Len(calls) - i + 1) * TokenCost + Refilled(uptime)
                   <= Capacity + (uptime - calls[i].up) * RefillRate
<1>1. /\ uptime \in Nat /\ updatedAt \in Nat /\ updatedAt <= uptime /\ tokens \in 0 .. Capacity
      /\ Capacity \in Nat /\ RefillRate \in Nat /\ TokenCost \in Nat
      /\ calls \in Seq(Call)
  BY GuardAssumption DEF TypeOK
<1>2. (uptime - updatedAt) * RefillRate \in Int /\ 0 <= (uptime - updatedAt) * RefillRate
  BY <1>1, RefillSplits
<1>3. /\ Refilled(uptime) \in 0 .. Capacity
      /\ Refilled(uptime) <= tokens + (uptime - updatedAt) * RefillRate
  BY <1>1, <1>2 DEF Refilled, Least
<1>4. ASSUME NEW i \in DOMAIN calls
      PROVE  /\ calls[i].up <= uptime
             /\ (Len(calls) - i + 1) * TokenCost + Refilled(uptime)
                  <= Capacity + (uptime - calls[i].up) * RefillRate
  <2>1. calls[i].up \in Nat /\ i \in Nat /\ Len(calls) \in Nat
    BY <1>1, <1>4, CallFields
  <2>2. /\ calls[i].up <= updatedAt
        /\ (Len(calls) - i + 1) * TokenCost + tokens
             <= Capacity + (updatedAt - calls[i].up) * RefillRate
    BY <1>4 DEF BucketAccounts
  <2>3. /\ (uptime - calls[i].up) * RefillRate
             = (uptime - updatedAt) * RefillRate + (updatedAt - calls[i].up) * RefillRate
        /\ (uptime - calls[i].up) * RefillRate \in Int
        /\ (updatedAt - calls[i].up) * RefillRate \in Int
    BY <1>1, <2>1, RefillSplits
  <2>4. (Len(calls) - i + 1) * TokenCost \in Int
    BY <1>1, <2>1
  <2>5. (Len(calls) - i + 1) * TokenCost + Refilled(uptime)
          <= Capacity + (uptime - calls[i].up) * RefillRate
    <3> DEFINE cost == (Len(calls) - i + 1) * TokenCost
               before == (updatedAt - calls[i].up) * RefillRate
               gained == (uptime - updatedAt) * RefillRate
               total == (uptime - calls[i].up) * RefillRate
    <3>1. /\ cost \in Int /\ before \in Int /\ gained \in Int /\ total \in Int
          /\ tokens \in Int /\ Refilled(uptime) \in Int /\ Capacity \in Int
      BY <1>1, <1>2, <1>3, <2>3, <2>4
    <3>2. cost + tokens <= Capacity + before
      BY <2>2
    <3>3. Refilled(uptime) <= tokens + gained
      BY <1>3
    <3>4. total = gained + before
      BY <2>3
    <3> HIDE DEF cost, before, gained, total
    <3>5. cost + Refilled(uptime) <= Capacity + total
      BY <3>1, <3>2, <3>3, <3>4, Balance
    <3>6. QED
      BY <3>5 DEF cost, total
  <2>6. QED
    BY <1>1, <2>1, <2>2, <2>5
<1>5. QED
  BY <1>3, <1>4

LEMMA InitGInv == Init => GInv
<1> SUFFICES ASSUME Init PROVE GInv
  OBVIOUS
<1>1. DOMAIN calls = {} /\ Len(calls) = 0 /\ calls \in Seq(Call)
  BY DEF Init
<1>2. TypeOK
  BY <1>1, GuardAssumption DEF Init, TypeOK
<1>3. OpensOnlyOnFailures
  BY <1>1, GuardAssumption DEF Init, OpensOnlyOnFailures, FailedLast
<1>4. QED
  BY <1>1, <1>2, <1>3
    DEF GInv, CallsInOrder, BucketAccounts, RateRespected, CircuitRemembers, OpenCircuitShields

(* The passing of time disturbs only what compares a time with a clock.    *)
LEMMA TickStep ==
  ASSUME GInv, Tick
  PROVE  GInv'
<1>1. /\ now \in Nat /\ now' \in Nat /\ now <= now'
      /\ uptime \in Nat /\ uptime' \in Nat /\ uptime <= uptime'
      /\ UNCHANGED <<circuit, failCounter, openedAt, tokens, updatedAt, keyAccepted, calls>>
  BY DEF GInv, TypeOK, Tick, circuitVars, bucketVars
<1>2. \A i \in DOMAIN calls : calls[i].at \in Nat
  BY CallFields DEF GInv, TypeOK
<1>3. TypeOK'
  BY <1>1 DEF GInv, TypeOK
<1>4. CallsInOrder'
  BY <1>1, <1>2 DEF GInv, CallsInOrder
<1>5. CircuitRemembers'
  BY <1>1, <1>2, GuardAssumption DEF GInv, CircuitRemembers
<1>6. QED
  BY <1>1, <1>3, <1>4, <1>5
    DEF GInv, BucketAccounts, RateRespected, OpenCircuitShields, OpensOnlyOnFailures, FailedLast

(* Reading the bucket refills it.                                          *)
LEMMA ReadTokensStep ==
  ASSUME GInv, ReadTokens
  PROVE  GInv'
<1>1. /\ tokens' = Refilled(uptime) /\ updatedAt' = uptime
      /\ UNCHANGED <<now, uptime, circuit, failCounter, openedAt, keyAccepted, calls>>
  BY DEF ReadTokens, clocks, circuitVars
<1>2. /\ Refilled(uptime) \in 0 .. Capacity
      /\ \A i \in DOMAIN calls :
           /\ calls[i].up <= uptime
           /\ (Len(calls) - i + 1) * TokenCost + Refilled(uptime)
                <= Capacity + (uptime - calls[i].up) * RefillRate
  BY RefillKeepsAccounts DEF GInv
<1>3. TypeOK'
  BY <1>1, <1>2 DEF GInv, TypeOK
<1>4. BucketAccounts'
  BY <1>1, <1>2 DEF BucketAccounts
<1>5. QED
  BY <1>1, <1>3, <1>4
    DEF GInv, CallsInOrder, RateRespected, CircuitRemembers, OpenCircuitShields,
        OpensOnlyOnFailures, FailedLast

(* A call refused by the bucket: an excluded error, so the circuit closes. *)
LEMMA RateLimitStep ==
  ASSUME GInv, RateLimit
  PROVE  GInv'
<1>1. /\ tokens' = Refilled(uptime) /\ updatedAt' = uptime
      /\ failCounter' = 0 /\ circuit' = "closed"
      /\ UNCHANGED <<now, uptime, openedAt, keyAccepted, calls>>
  BY DEF RateLimit, Consume, clocks, AfterCall, CountsAsFailure
<1>2. /\ Refilled(uptime) \in 0 .. Capacity
      /\ \A i \in DOMAIN calls :
           /\ calls[i].up <= uptime
           /\ (Len(calls) - i + 1) * TokenCost + Refilled(uptime)
                <= Capacity + (uptime - calls[i].up) * RefillRate
  BY RefillKeepsAccounts DEF GInv
<1>3. TypeOK'
  BY <1>1, <1>2 DEF GInv, TypeOK
<1>4. BucketAccounts'
  BY <1>1, <1>2 DEF BucketAccounts
<1>5. CircuitRemembers'
  BY <1>1 DEF GInv, CircuitRemembers, RateLimit, Admits
<1>6. OpensOnlyOnFailures'
  BY <1>1, GuardAssumption DEF GInv, TypeOK, OpensOnlyOnFailures, FailedLast
<1>7. QED
  BY <1>1, <1>3, <1>4, <1>5, <1>6
    DEF GInv, CallsInOrder, RateRespected, OpenCircuitShields

(* A request that reaches the provider.                                    *)
LEMMA RequestStep ==
  ASSUME GInv, Request
  PROVE  GInv'
<1> DEFINE n == Len(calls)
<1>1. PICK result \in Results :
        /\ AfterCall(result)
        /\ calls' = Append(calls, [at |-> now, up |-> uptime, result |-> result,
                                   opened |-> circuit' = "open"])
  BY DEF Request
<1> DEFINE new == [at |-> now, up |-> uptime, result |-> result, opened |-> circuit' = "open"]
<1>2. /\ tokens' = Refilled(uptime) - TokenCost /\ updatedAt' = uptime
      /\ Refilled(uptime) >= TokenCost /\ Admits
      /\ now' = now /\ uptime' = uptime /\ keyAccepted' = keyAccepted
  BY DEF Request, Consume, CanConsume, clocks
<1>3. result \in {"success", "unavailable", "unauthorized"}
  BY DEF Results
<1>4. /\ now \in Nat /\ uptime \in Nat /\ openedAt \in Nat /\ openedAt <= now
      /\ circuit \in {"closed", "open"} /\ failCounter \in Nat /\ calls \in Seq(Call)
      /\ TokenCost \in Nat \ {0} /\ Capacity \in Nat /\ RefillRate \in Nat
      /\ FailureThreshold \in Nat \ {0} /\ RecoveryTimeout \in Nat \ {0}
  BY GuardAssumption DEF GInv, TypeOK
<1>5. new \in Call
  BY <1>3, <1>4 DEF Call
<1>6. /\ calls' \in Seq(Call) /\ n \in Nat /\ Len(calls') = n + 1
      /\ DOMAIN calls = 1 .. n /\ DOMAIN calls' = 1 .. n + 1
      /\ \A i \in 1 .. n : calls'[i] = calls[i]
      /\ calls'[n + 1] = new
  BY <1>1, <1>4, <1>5
<1>7. \A i \in DOMAIN calls : calls[i].at \in Nat /\ calls[i].up \in Nat /\ calls[i].opened \in BOOLEAN
  BY <1>4, CallFields
<1>8. /\ Refilled(uptime) \in 0 .. Capacity
      /\ \A i \in DOMAIN calls :
           /\ calls[i].up <= uptime
           /\ (n - i + 1) * TokenCost + Refilled(uptime)
                <= Capacity + (uptime - calls[i].up) * RefillRate
  BY RefillKeepsAccounts DEF GInv
<1>9. \/ /\ result = "unavailable" /\ failCounter' = failCounter + 1
         /\ \/ /\ circuit = "open" \/ failCounter + 1 >= FailureThreshold
               /\ circuit' = "open" /\ openedAt' = now
            \/ /\ circuit # "open" /\ ~(failCounter + 1 >= FailureThreshold)
               /\ circuit' = circuit /\ openedAt' = openedAt
      \/ /\ result # "unavailable" /\ failCounter' = 0 /\ circuit' = "closed"
         /\ openedAt' = openedAt
  BY <1>1 DEF AfterCall, CountsAsFailure
<1> HIDE DEF n, new
<1>10. TypeOK'
  <2>1. tokens' \in 0 .. Capacity
    BY <1>2, <1>4, <1>8
  <2>2. failCounter' \in Nat /\ circuit' \in {"closed", "open"}
        /\ openedAt' \in Nat /\ openedAt' <= now
    BY <1>4, <1>9
  <2>3. QED
    BY <1>2, <1>4, <1>6, <2>1, <2>2 DEF GInv, TypeOK
<1>11. CallsInOrder'
  <2>1. new.at = now
    BY DEF new
  <2>2. \A i \in DOMAIN calls' : calls'[i].at <= now
    BY <1>4, <1>6, <2>1 DEF GInv, CallsInOrder
  <2>3. \A i, j \in DOMAIN calls' : i <= j => calls'[i].at <= calls'[j].at
    <3> SUFFICES ASSUME NEW i \in DOMAIN calls', NEW j \in DOMAIN calls', i <= j
                 PROVE  calls'[i].at <= calls'[j].at
      OBVIOUS
    <3>1. CASE j = n + 1
      BY <1>6, <2>1, <2>2, <3>1
    <3>2. CASE j # n + 1
      <4>1. i \in DOMAIN calls /\ j \in DOMAIN calls
        BY <1>6, <3>2
      <4>2. QED
        BY <1>6, <4>1 DEF GInv, CallsInOrder
    <3>3. QED
      BY <3>1, <3>2
  <2>4. QED
    BY <1>2, <2>2, <2>3 DEF CallsInOrder
<1>12. BucketAccounts'
  <2> SUFFICES ASSUME NEW i \in DOMAIN calls'
               PROVE  /\ calls'[i].up <= uptime
                      /\ (n + 1 - i + 1) * TokenCost + (Refilled(uptime) - TokenCost)
                           <= Capacity + (uptime - calls'[i].up) * RefillRate
    BY <1>2, <1>6 DEF BucketAccounts
  <2>1. CASE i = n + 1
    <3>1. calls'[i].up = uptime
      BY <1>6, <2>1 DEF new
    <3>2. (n + 1 - i + 1) * TokenCost = TokenCost /\ (uptime - uptime) * RefillRate = 0
      BY <1>4, <1>6, <2>1
    <3>3. QED
      BY <1>4, <1>8, <3>1, <3>2
  <2>2. CASE i # n + 1
    <3>1. i \in DOMAIN calls /\ calls'[i] = calls[i] /\ i \in Nat
      BY <1>6, <2>2
    <3>2. (n + 1 - i + 1) * TokenCost = (n - i + 1) * TokenCost + TokenCost
      BY <1>4, <1>6, <3>1
    <3>3. (n - i + 1) * TokenCost \in Int /\ (uptime - calls[i].up) * RefillRate \in Int
      BY <1>4, <1>6, <1>7, <3>1
    <3> DEFINE cost == (n - i + 1) * TokenCost
               gained == (uptime - calls[i].up) * RefillRate
    <3>4. cost + Refilled(uptime) <= Capacity + gained /\ Refilled(uptime) \in Int
      BY <1>4, <1>8, <3>1
    <3>5. cost \in Int /\ gained \in Int
      BY <3>3
    <3> HIDE DEF cost, gained
    <3>6. cost + TokenCost + (Refilled(uptime) - TokenCost) <= Capacity + gained
      BY <1>4, <3>4, <3>5
    <3>7. QED
      BY <1>8, <3>1, <3>2, <3>6 DEF cost, gained
  <2>3. QED
    BY <2>1, <2>2
<1>13. RateRespected'
  <2> SUFFICES ASSUME NEW i \in DOMAIN calls', NEW j \in DOMAIN calls', i <= j
               PROVE  (j - i + 1) * TokenCost
                        <= Capacity + (calls'[j].up - calls'[i].up) * RefillRate
    BY DEF RateRespected
  <2>1. CASE j # n + 1
    <3>1. i \in DOMAIN calls /\ j \in DOMAIN calls
      BY <1>6, <2>1
    <3>2. QED
      BY <1>6, <3>1 DEF GInv, RateRespected
  <2>2. CASE j = n + 1
    <3>1. calls'[j].up = uptime /\ i \in Nat /\ Len(calls') = j
      BY <1>6, <2>2 DEF new
    <3>2. PICK up \in Nat : up = calls'[i].up
      BY <1>4, <1>6, <1>7 DEF new
    <3>3. PICK left \in Nat : left = tokens'
      BY <1>2, <1>4, <1>8
    <3> DEFINE cost == (j - i + 1) * TokenCost
               gained == (uptime - up) * RefillRate
    <3>4. cost + left <= Capacity + gained
      BY <1>2, <3>1, <3>2, <3>3, <1>12 DEF BucketAccounts
    <3>5. j \in Int /\ i \in Int /\ uptime - up \in Int
      BY <1>4, <1>6, <3>1, <3>2, <2>2
    <3>6. cost \in Int /\ gained \in Int
      BY <1>4, <3>5
    <3> HIDE DEF cost, gained
    <3>7. cost <= Capacity + gained
      BY <1>4, <3>4, <3>5, <3>6
    <3>8. QED
      BY <3>1, <3>2, <3>7 DEF cost, gained
  <2>3. QED
    BY <2>1, <2>2
<1>14. ASSUME NEW i \in DOMAIN calls, calls[i].opened
       PROVE  now - calls[i].at >= RecoveryTimeout
  BY <1>2, <1>4, <1>14 DEF GInv, CircuitRemembers, Admits
<1>15. CircuitRemembers'
  <2>1. new.opened => circuit' = "open" /\ openedAt' = now /\ new.at = now
    BY <1>4, <1>9, <1>2 DEF new, Admits, GInv, OpensOnlyOnFailures
  <2>2. QED
    BY <1>2, <1>6, <1>14, <2>1 DEF CircuitRemembers
<1>16. OpenCircuitShields'
  <2> SUFFICES ASSUME NEW i \in DOMAIN calls', NEW j \in DOMAIN calls', i < j, calls'[i].opened
               PROVE  calls'[j].at - calls'[i].at >= RecoveryTimeout
    BY DEF OpenCircuitShields
  <2>1. CASE j # n + 1
    <3>1. i \in DOMAIN calls /\ j \in DOMAIN calls
      BY <1>6, <2>1
    <3>2. QED
      BY <1>6, <3>1 DEF GInv, OpenCircuitShields
  <2>2. CASE j = n + 1
    <3>1. i \in DOMAIN calls /\ calls'[i] = calls[i] /\ calls'[j].at = now
      BY <1>6, <2>2 DEF new
    <3>2. QED
      BY <1>14, <3>1
  <2>3. QED
    BY <2>1, <2>2
<1>17. OpensOnlyOnFailures'
  <2>1. circuit' = "open" <=> failCounter' >= FailureThreshold
    BY <1>4, <1>9 DEF GInv, OpensOnlyOnFailures
  <2>2. FailedLast(failCounter)'
    <3>1. CASE result = "unavailable"
      <4>1. failCounter' = failCounter + 1 /\ new.result = "unavailable"
        BY <1>9, <3>1 DEF new
      <4>2. failCounter <= n /\ \A i \in n - failCounter + 1 .. n : calls[i].result = "unavailable"
        BY DEF GInv, OpensOnlyOnFailures, FailedLast, n
      <4>3. \A i \in n - failCounter + 1 .. n + 1 : calls'[i].result = "unavailable"
        <5> SUFFICES ASSUME NEW i \in n - failCounter + 1 .. n + 1
                     PROVE  calls'[i].result = "unavailable"
          OBVIOUS
        <5>1. CASE i = n + 1
          BY <1>6, <4>1, <5>1
        <5>2. CASE i # n + 1
          BY <1>4, <1>6, <4>2, <5>2
        <5>3. QED
          BY <5>1, <5>2
      <4>4. Len(calls') - failCounter' + 1 = n - failCounter + 1
        BY <1>4, <1>6, <4>1
      <4>5. QED
        BY <1>4, <1>6, <4>1, <4>2, <4>3, <4>4 DEF FailedLast
    <3>2. CASE result # "unavailable"
      <4>1. failCounter' = 0
        BY <1>9, <3>2
      <4>2. QED
        BY <1>6, <4>1 DEF FailedLast
    <3>3. QED
      BY <3>1, <3>2
  <2>3. QED
    BY <2>1, <2>2 DEF OpensOnlyOnFailures
<1>18. QED
  BY <1>10, <1>11, <1>12, <1>13, <1>15, <1>16, <1>17 DEF GInv

-----------------------------------------------------------------------------
THEOREM GuardInvariant == Spec => []GInv
<1>1. Init => GInv
  BY InitGInv
<1>2. GInv /\ [Next]_vars => GInv'
  <2> SUFFICES ASSUME GInv, [Next]_vars PROVE GInv'
    OBVIOUS
  <2>1. CASE RateLimit
    BY <2>1, RateLimitStep
  <2>2. CASE Request
    BY <2>2, RequestStep
  <2>3. CASE ReadTokens
    BY <2>3, ReadTokensStep
  <2>4. CASE Tick
    BY <2>4, TickStep
  <2>5. CASE UNCHANGED vars
    BY <2>5 DEF GInv, TypeOK, CallsInOrder, BucketAccounts, RateRespected, CircuitRemembers,
                OpenCircuitShields, OpensOnlyOnFailures, FailedLast, vars, clocks, circuitVars,
                bucketVars
  <2>6. QED
    BY <2>1, <2>2, <2>3, <2>4, <2>5 DEF Next, Reject
<1>3. QED
  BY <1>1, <1>2, PTL DEF Spec

(* Over any interval, the requests that reach the provider cost no more    *)
(* than a full bucket and the refill of the interval.                      *)
THEOREM RateIsRespected == Spec => []RateRespected
<1>1. GInv => RateRespected
  BY DEF GInv
<1>2. QED
  BY <1>1, GuardInvariant, PTL

(* After a request that leaves the circuit open, the provider rests for    *)
(* the recovery timeout.                                                   *)
THEOREM OpenCircuitRests == Spec => []OpenCircuitShields
<1>1. GInv => OpenCircuitShields
  BY DEF GInv
<1>2. QED
  BY <1>1, GuardInvariant, PTL

(* The circuit opens on the provider's own failures in a row, only.        *)
THEOREM CircuitOpensOnFailures == Spec => [](TypeOK /\ OpensOnlyOnFailures)
<1>1. GInv => TypeOK /\ OpensOnlyOnFailures
  BY DEF GInv
<1>2. QED
  BY <1>1, GuardInvariant, PTL

-----------------------------------------------------------------------------
(* While the circuit is open the bucket refills undisturbed since the      *)
(* request that opened it, which is the last one; and only a credential    *)
(* the provider accepts gets a circuit to open at all.                     *)
Opener == calls[Len(calls)]
OpenBucketRefills ==
  /\ circuit = "open" =>
       /\ calls # <<>> /\ Opener.opened /\ Opener.up <= updatedAt
       /\ tokens >= Least(Capacity, (updatedAt - Opener.up) * RefillRate)
  /\ failCounter > 0 => keyAccepted

LEMMA LeastGrows ==
  ASSUME NEW full \in Int, NEW held \in Int, NEW x \in Int, NEW more \in Int,
         held >= Least(full, x), 0 <= more
  PROVE  Least(full, held + more) >= Least(full, x + more)
BY DEF Least

(* The last of some requests.                                              *)
LEMMA OpenerFields ==
  ASSUME calls \in Seq(Call), calls # <<>>
  PROVE  Opener.up \in Nat
<1>1. Len(calls) \in DOMAIN calls
  OBVIOUS
<1>2. QED
  BY <1>1, CallFields DEF Opener

(* What an open circuit finds in the bucket once it is refilled.           *)
LEMMA RefilledWhileOpen ==
  ASSUME TypeOK, OpenBucketRefills, circuit = "open"
  PROVE  /\ Opener.up \in Nat /\ Opener.up <= uptime
         /\ Refilled(uptime) >= Least(Capacity, (uptime - Opener.up) * RefillRate)
<1>1. /\ uptime \in Nat /\ updatedAt \in Nat /\ updatedAt <= uptime /\ tokens \in Int
      /\ Opener.up \in Nat /\ Capacity \in Int
  BY OpenerFields, GuardAssumption DEF TypeOK, OpenBucketRefills
<1> DEFINE x == (updatedAt - Opener.up) * RefillRate
           more == (uptime - updatedAt) * RefillRate
<1>2. x \in Int /\ more \in Int /\ 0 <= more /\ (uptime - Opener.up) * RefillRate = more + x
  <2>1. Opener.up \in Int /\ updatedAt \in Int /\ uptime \in Int
    BY <1>1
  <2>2. 0 <= more /\ more \in Int
    BY <1>1, <2>1, RefillSplits
  <2>3. (uptime - Opener.up) * RefillRate = more + x
    BY <2>1, RefillSplits
  <2>4. x \in Int
    BY <2>1, RefillSplits
  <2>5. QED
    BY <2>2, <2>3, <2>4
<1>3. tokens >= Least(Capacity, x) /\ Opener.up <= updatedAt
  BY DEF OpenBucketRefills
<1> HIDE DEF x, more
<1>4. Least(Capacity, tokens + more) >= Least(Capacity, x + more)
  BY <1>1, <1>2, <1>3, LeastGrows
<1>5. more + x = x + more
  BY <1>2
<1>6. Refilled(uptime) = Least(Capacity, tokens + more)
  BY DEF Refilled, more
<1>7. QED
  BY <1>1, <1>2, <1>3, <1>4, <1>5, <1>6

(* What is appended comes last.                                            *)
LEMMA LastAppended ==
  ASSUME NEW S, NEW s \in Seq(S), NEW e
  PROVE  Append(s, e) # <<>> /\ Append(s, e)[Len(Append(s, e))] = e
<1>1. s \in Seq(S \cup {e}) /\ e \in S \cup {e}
  OBVIOUS
<1>2. QED
  BY <1>1

LEMMA OpenBucketStep ==
  ASSUME GInv, OpenBucketRefills, [Next]_vars
  PROVE  OpenBucketRefills'
<1>1. /\ uptime \in Nat /\ updatedAt \in Nat /\ updatedAt <= uptime /\ tokens \in Int
      /\ failCounter \in Nat /\ calls \in Seq(Call)
      /\ circuit \in {"closed", "open"} /\ Capacity \in Nat /\ RefillRate \in Nat
  BY GuardAssumption DEF GInv, TypeOK
<1>2. CASE ReadTokens
  BY <1>1, <1>2, RefilledWhileOpen
    DEF ReadTokens, OpenBucketRefills, Opener, clocks, circuitVars, GInv
<1>3. CASE RateLimit
  BY <1>3 DEF RateLimit, AfterCall, CountsAsFailure, OpenBucketRefills
<1>4. CASE Request
  <2>1. PICK result \in Results :
          /\ AfterCall(result)
          /\ calls' = Append(calls, [at |-> now, up |-> uptime, result |-> result,
                                     opened |-> circuit' = "open"])
    BY <1>4 DEF Request
  <2>2. CASE result = "unavailable"
    <3>1. keyAccepted /\ keyAccepted' = keyAccepted
      BY <1>4, <2>2 DEF Request, Results
    <3>2. /\ calls' # <<>> /\ Opener'.up = uptime
          /\ circuit' = "open" => Opener'.opened
      <4> DEFINE new == [at |-> now, up |-> uptime, result |-> result,
                         opened |-> circuit' = "open"]
      <4>1. new.up = uptime /\ (circuit' = "open" => new.opened)
        OBVIOUS
      <4> HIDE DEF new
      <4>2. calls' # <<>> /\ calls'[Len(calls')] = new
        BY <1>1, <2>1, LastAppended DEF new
      <4>3. QED
        BY <4>1, <4>2 DEF Opener
    <3>3. /\ updatedAt' = uptime /\ tokens' = Refilled(uptime) - TokenCost
          /\ Refilled(uptime) >= TokenCost
      BY <1>4 DEF Request, Consume, CanConsume
    <3>4. (uptime - uptime) * RefillRate = 0 /\ Least(Capacity, 0) = 0
      BY <1>1 DEF Least
    <3>5. Refilled(uptime) \in Int /\ TokenCost \in Int
      BY RefillKeepsAccounts, GuardAssumption DEF GInv
    <3>6. QED
      BY <1>1, <3>1, <3>2, <3>3, <3>4, <3>5 DEF OpenBucketRefills
  <2>3. CASE result # "unavailable"
    BY <2>1, <2>3 DEF AfterCall, CountsAsFailure, OpenBucketRefills
  <2>4. QED
    BY <2>2, <2>3
<1>5. CASE UNCHANGED <<circuitVars, bucketVars, keyAccepted, calls>>
  BY <1>5 DEF OpenBucketRefills, Opener, circuitVars, bucketVars
<1>6. QED
  BY <1>2, <1>3, <1>4, <1>5 DEF Next, Reject, Tick, vars

(* A probe the bucket refuses had less than a token refilled since the     *)
(* request that opened the circuit.                                        *)
LEMMA RefusedProbe ==
  ASSUME GInv, OpenBucketRefills, circuit = "open", ~CanConsume(uptime)
  PROVE  (uptime - Opener.up) * RefillRate < TokenCost
<1> DEFINE gained == (uptime - Opener.up) * RefillRate
<1>1. /\ uptime \in Nat /\ Opener.up \in Nat
      /\ Refilled(uptime) >= Least(Capacity, gained)
  BY RefilledWhileOpen DEF GInv, TypeOK
<1>2. gained \in Int
  <2>1. uptime \in Int /\ Opener.up \in Int
    BY <1>1
  <2>2. QED
    BY <2>1, RefillSplits
<1>3. Refilled(uptime) \in Int /\ Refilled(uptime) < TokenCost
  BY RefillKeepsAccounts, GuardAssumption DEF GInv, CanConsume
<1> HIDE DEF gained
<1>4. gained < TokenCost
  BY <1>1, <1>2, <1>3, GuardAssumption DEF Least
<1>5. QED
  BY <1>4 DEF gained

(* For every policy, and however the clocks part: what closes an open      *)
(* circuit is a request that succeeded, or else the lack of a token, of    *)
(* which less than one was refilled since the request that opened it.      *)
THEOREM CircuitClosesOnSuccessOrWant == Spec => ClosesUnprovedOnlyWithoutToken
<1>1. Init => OpenBucketRefills
  BY DEF Init, OpenBucketRefills
<1>2. GInv /\ OpenBucketRefills /\ [Next]_vars => OpenBucketRefills'
  BY OpenBucketStep
<1>3. GInv /\ OpenBucketRefills /\ [Next]_vars =>
        [circuit = "open" /\ circuit' = "closed" =>
           \/ ProbeSucceeded
           \/ /\ calls' = calls /\ calls # <<>> /\ calls[Len(calls)].opened
              /\ (uptime - calls[Len(calls)].up) * RefillRate < TokenCost]_vars
  <2> SUFFICES ASSUME GInv, OpenBucketRefills, Next, circuit = "open", circuit' = "closed"
               PROVE  \/ ProbeSucceeded
                      \/ /\ calls' = calls /\ calls # <<>> /\ calls[Len(calls)].opened
                         /\ (uptime - calls[Len(calls)].up) * RefillRate < TokenCost
    OBVIOUS
  <2>1. RateLimit \/ Request
    BY DEF Next, Reject, ReadTokens, Tick, vars, circuitVars
  <2>2. CASE RateLimit
    BY <2>2, RefusedProbe DEF RateLimit, OpenBucketRefills, Opener
  <2>3. CASE Request
    <3>1. PICK result \in Results :
            /\ AfterCall(result)
            /\ calls' = Append(calls, [at |-> now, up |-> uptime, result |-> result,
                                       opened |-> circuit' = "open"])
      BY <2>3 DEF Request
    <3>2. keyAccepted
      BY GuardAssumption DEF GInv, TypeOK, OpensOnlyOnFailures, OpenBucketRefills
    <3>3. result = "success"
      BY <3>1, <3>2 DEF Results, AfterCall, CountsAsFailure
    <3>4. calls \in Seq(Call)
      BY DEF GInv, TypeOK
    <3>5. Len(calls') = Len(calls) + 1 /\ calls'[Len(calls')].result = "success"
      BY <3>1, <3>3, <3>4
    <3>6. QED
      BY <3>4, <3>5 DEF ProbeSucceeded
  <2>4. QED
    BY <2>1, <2>2, <2>3
<1>4. QED
  BY <1>1, <1>2, <1>3, GuardInvariant, PTL DEF Spec, ClosesUnprovedOnlyWithoutToken
=============================================================================
