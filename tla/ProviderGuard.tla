---------------------------- MODULE ProviderGuard ----------------------------
(***************************************************************************)
(* P06-circuit-breaker-e-token-bucket: ProtectedProviderClient.fetch sends *)
(* every call through a pybreaker circuit, and inside it through a local   *)
(* token bucket, to the provider.  Time passes between calls only: the     *)
(* client is not shared between threads, and one call takes no time.       *)
(*                                                                         *)
(* The circuit reads the wall clock (pybreaker's datetime.now) and the     *)
(* bucket time.monotonic.  Both only advance here, and not together: the   *)
(* monotonic clock stands still while the machine is suspended, and the    *)
(* wall clock may be set forward.  A wall clock set back is left out.      *)
(*                                                                         *)
(* The circuit's half-open state lives inside a call: pybreaker enters it  *)
(* before the probe and leaves it, open or closed, when the probe returns. *)
(* Tokens are counted in units, TokenCost of them to one token, so that a  *)
(* fractional refill rate stays an integer.                                *)
(***************************************************************************)
EXTENDS Integers, Sequences

CONSTANTS
  FailureThreshold,  (* CircuitPolicy.failure_threshold                    *)
  RecoveryTimeout,   (* CircuitPolicy.recovery_timeout_seconds, in ticks   *)
  Capacity,          (* TokenBucketPolicy.capacity, in units               *)
  RefillRate,        (* TokenBucketPolicy.refill_rate_per_second, in units *)
  TokenCost,         (* the units one fetch consumes                       *)
  MaxTime,           (* bound: ticks of either clock                       *)
  MaxSkew            (* bound: how far the two clocks part                 *)

ASSUME GuardAssumption ==
  /\ FailureThreshold \in Nat \ {0}
  /\ RecoveryTimeout \in Nat \ {0}
  /\ RefillRate \in Nat \ {0}
  /\ TokenCost \in Nat \ {0}
  /\ Capacity \in Nat /\ Capacity >= TokenCost
  /\ MaxTime \in Nat /\ MaxSkew \in Nat

VARIABLES
  now,         (* the wall clock, which the circuit reads                  *)
  uptime,      (* the monotonic clock, which the bucket reads              *)
  circuit,     (* CircuitBreaker.current_state between calls               *)
  failCounter, (* CircuitBreaker.fail_counter                              *)
  openedAt,    (* when the circuit last opened, by the wall clock          *)
  tokens,      (* TokenBucket._tokens                                      *)
  updatedAt,   (* TokenBucket._updated_at, by the monotonic clock          *)
  keyAccepted, (* does the provider accept the configured api_key?         *)
  calls        (* history: every request that reached the provider         *)

circuitVars == <<circuit, failCounter, openedAt>>
bucketVars == <<tokens, updatedAt>>
clocks == <<now, uptime>>
vars == <<clocks, circuitVars, bucketVars, keyAccepted, calls>>

Least(a, b) == IF a < b THEN a ELSE b

-----------------------------------------------------------------------------
(* The token bucket.                                                       *)

(* Mutant: the refill drops fractions of a token.                          *)
RefilledWholeTokens(at) ==
  Least(Capacity, tokens + TokenCost * (((at - updatedAt) * RefillRate) \div TokenCost))
Refilled(at) == Least(Capacity, tokens + (at - updatedAt) * RefillRate)

(* TokenBucket.consume: what it answers and what it leaves.                *)
CanConsume(at) == Refilled(at) >= TokenCost
(* Mutant: a refused call refills the bucket and keeps the old instant.    *)
ConsumeKeepsInstant ==
  /\ tokens' = IF CanConsume(uptime) THEN Refilled(uptime) - TokenCost ELSE Refilled(uptime)
  /\ updatedAt' = IF CanConsume(uptime) THEN uptime ELSE updatedAt
Consume ==
  /\ tokens' = IF CanConsume(uptime) THEN Refilled(uptime) - TokenCost ELSE Refilled(uptime)
  /\ updatedAt' = uptime

-----------------------------------------------------------------------------
(* The circuit, as pybreaker runs it around the call, by the wall clock.   *)

(* Mutant: the recovery timeout is measured from the start of the clock.   *)
AdmitsEarly == circuit = "closed" \/ now >= RecoveryTimeout
Admits == circuit = "closed" \/ now - openedAt >= RecoveryTimeout

(* build_circuit excludes every error but ProviderUnavailable.             *)
(* Mutant: a rejected credential counts as a failure too.                  *)
CountsAnyError(result) == result # "success"
CountsAsFailure(result) == result = "unavailable"

(* A failure counts, and opens a circuit that is being probed or has       *)
(* reached the threshold.  Anything else, an excluded error included,      *)
(* resets the count and closes the circuit.                                *)
AfterCall(result) ==
  IF CountsAsFailure(result)
  THEN /\ failCounter' = failCounter + 1
       /\ IF circuit = "open" \/ failCounter' >= FailureThreshold
          THEN circuit' = "open" /\ openedAt' = now
          ELSE UNCHANGED <<circuit, openedAt>>
  ELSE failCounter' = 0 /\ circuit' = "closed" /\ UNCHANGED openedAt

-----------------------------------------------------------------------------
Init ==
  /\ now = 0 /\ uptime = 0
  /\ circuit = "closed" /\ failCounter = 0 /\ openedAt = 0
  /\ tokens = Capacity /\ updatedAt = 0
  /\ keyAccepted \in BOOLEAN
  /\ calls = <<>>

(* The circuit is open and its timeout has not passed: CircuitBreakerError, *)
(* before the bucket or the provider is asked.                             *)
Reject ==
  /\ ~Admits
  /\ UNCHANGED vars

(* The bucket is empty: RateLimitExceeded, before the provider is asked.   *)
RateLimit ==
  /\ Admits /\ ~CanConsume(uptime)
  /\ Consume
  /\ AfterCall("limited")
  /\ UNCHANGED <<clocks, keyAccepted, calls>>

(* The provider answers, fails, or rejects the credential.                 *)
Results == IF keyAccepted THEN {"success", "unavailable"} ELSE {"unauthorized"}
Request ==
  /\ Admits /\ CanConsume(uptime)
  /\ Consume
  /\ \E result \in Results :
       /\ AfterCall(result)
       /\ calls' = Append(calls, [at |-> now, up |-> uptime, result |-> result,
                                  opened |-> circuit' = "open"])
  /\ UNCHANGED <<clocks, keyAccepted>>

(* TokenBucket.available_tokens refills the bucket as it reads it.         *)
ReadTokens ==
  /\ tokens' = Refilled(uptime)
  /\ updatedAt' = uptime
  /\ UNCHANGED <<clocks, circuitVars, keyAccepted, calls>>

(* One clock advances, or both.                                            *)
Tick ==
  /\ \E wall, monotonic \in 0 .. 1 :
       /\ wall + monotonic > 0
       /\ now' = now + wall
       /\ uptime' = uptime + monotonic
  /\ now' <= MaxTime /\ uptime' <= MaxTime
  /\ now' - uptime' \in -MaxSkew .. MaxSkew
  /\ UNCHANGED <<circuitVars, bucketVars, keyAccepted, calls>>

Next == Reject \/ RateLimit \/ Request \/ ReadTokens \/ Tick

Spec == Init /\ [][Next]_vars

-----------------------------------------------------------------------------
(* Correctness.                                                            *)

Call == [at : Nat, up : Nat, result : {"success", "unavailable", "unauthorized"},
         opened : BOOLEAN]

(* Every variable has its type; the bucket is never overdrawn or overfull. *)
TypeOK ==
  /\ now \in Nat /\ uptime \in Nat
  /\ circuit \in {"closed", "open"}
  /\ failCounter \in Nat
  /\ openedAt \in Nat /\ openedAt <= now
  /\ tokens \in 0 .. Capacity
  /\ updatedAt \in Nat /\ updatedAt <= uptime
  /\ keyAccepted \in BOOLEAN
  /\ calls \in Seq(Call)

(* The promise of a token bucket: over every interval, the requests that   *)
(* reach the provider cost at most a full bucket plus what the interval    *)
(* refills, whatever the circuit does and however often tokens are read.   *)
(* The interval is one of the bucket's clock.                              *)
RateRespected ==
  \A i, j \in DOMAIN calls :
    i <= j => (j - i + 1) * TokenCost <= Capacity + (calls[j].up - calls[i].up) * RefillRate

(* A request that leaves the circuit open is followed by no other for the  *)
(* whole recovery timeout, and the one that follows is a single probe.     *)
OpenCircuitShields ==
  \A i, j \in DOMAIN calls :
    i < j /\ calls[i].opened => calls[j].at - calls[i].at >= RecoveryTimeout

(* The last n requests to reach the provider all found it unavailable.     *)
FailedLast(n) ==
  n <= Len(calls) /\ \A i \in Len(calls) - n + 1 .. Len(calls) : calls[i].result = "unavailable"

(* The circuit is open exactly when the threshold is reached, and what it  *)
(* counts are failures in a row of the provider's own making: neither a    *)
(* rejected credential nor the local limit brings it closer to opening.    *)
OpensOnlyOnFailures ==
  /\ FailedLast(failCounter)
  /\ circuit = "open" <=> failCounter >= FailureThreshold

(* When an open circuit closes, its probe reached the provider and         *)
(* succeeded.                                                              *)
ProbeSucceeded == calls' # calls /\ calls'[Len(calls')].result = "success"

(* Whether policy and clocks leave a token for the probe or not: an open   *)
(* circuit closes on a success, or else, since the request that opened it, *)
(* less than one token was refilled, by the bucket's clock.  Neither the   *)
(* calls refused meanwhile nor the readings of the tokens take from what   *)
(* the probe needs, and no other error closes an open circuit.             *)
ClosesUnprovedOnlyWithoutToken ==
  [][circuit = "open" /\ circuit' = "closed" =>
       \/ ProbeSucceeded
       \/ /\ calls' = calls /\ calls # <<>> /\ calls[Len(calls)].opened
          /\ (uptime - calls[Len(calls)].up) * RefillRate < TokenCost]_vars

(* README: in half-open a test call decides whether the provider has       *)
(* recovered, and its success closes the circuit.                          *)
TestCallDecides ==
  [][circuit = "open" /\ circuit' = "closed" => ProbeSucceeded]_vars

(* README: the circuit opens after three failures in a row.                *)
OpensAfterThreshold ==
  FailedLast(FailureThreshold) => circuit = "open"
=============================================================================
