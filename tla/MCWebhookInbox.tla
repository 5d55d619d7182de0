--------------------------- MODULE MCWebhookInbox ----------------------------
(***************************************************************************)
(* Instances of WebhookInbox for TLC: one order authorised and captured,   *)
(* another captured only, a rival body for the first event and a body that *)
(* is no event at all.                                                     *)
(***************************************************************************)
EXTENDS WebhookInbox, TLC

CONSTANTS a1, c1, c2, o1, o2, bA1, bA1Rival, bC1, bC2, bNoise

MCParse ==
  bA1      :> [id |-> a1, kind |-> "authorized", order |-> o1] @@
  bA1Rival :> [id |-> a1, kind |-> "authorized", order |-> o2] @@
  bC1      :> [id |-> c1, kind |-> "captured",   order |-> o1] @@
  bC2      :> [id |-> c2, kind |-> "captured",   order |-> o2] @@
  bNoise   :> InvalidPayload

(* Deliveries arrive one second and a half, or two, after the start, and   *)
(* the window is one second.  What is signed at 0 is still taken at 1.5,   *)
(* for the half is dropped, and stale at 2; what is signed at 3 is ahead   *)
(* of the window at 1.5.                                                   *)
MCTimes == {0, 1, 3}
MCClock == 3 .. 4
MCSigned == {<<0, bA1>>, <<1, bA1Rival>>, <<1, bC1>>, <<3, bC2>>, <<1, bNoise>>}
=============================================================================
