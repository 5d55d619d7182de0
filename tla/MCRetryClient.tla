---------------------------- MODULE MCRetryClient ----------------------------
(***************************************************************************)
(* An instance of RetryClient for TLC: a Retry-After in seconds beyond the *)
(* maximum delay and one before the call, a date ahead and one past, and a *)
(* header that is neither; jitter that crosses the maximum delay, and one  *)
(* random value out of range.                                              *)
(***************************************************************************)
EXTENDS RetryClient

MCRandomPercents == {0, 100, 101}
MCLatencies == 0 .. 1
MCHints ==
  [kind : {"seconds"}, value : {-1, 7}]
    \union [kind : {"date"}, value : {1, 9}]
    \union [kind : {"garbled"}, value : {0}]
=============================================================================
