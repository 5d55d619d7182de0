---------------------------- MODULE PaymentLedger ----------------------------
(***************************************************************************)
(* What P08-webhook-inbox promises to whoever reads its effects, with no   *)
(* delivery, crash or retry in sight: an accepted event is either applied  *)
(* to the ledger once, or rejected for good because it captures an order   *)
(* that no ledger entry authorises.                                        *)
(***************************************************************************)
EXTENDS Naturals, Sequences

CONSTANT Events  (* the events the provider may issue: [id, kind, order]   *)

VARIABLES
  pending,   (* accepted, with no outcome yet                              *)
  ledger,    (* the effects, in the order they were applied                *)
  rejected   (* kept with a reason, never applied                          *)

vars == <<pending, ledger, rejected>>

Applied == {ledger[i] : i \in DOMAIN ledger}
KnownIds == {ev.id : ev \in pending \union Applied \union rejected}

(* May ev enter the ledger now?  A capture needs its order's authorisation. *)
InOrder(ev) ==
  ev.kind = "captured" =>
    \E prior \in Applied : prior.kind = "authorized" /\ prior.order = ev.order

Init ==
  /\ pending = {}
  /\ ledger = <<>>
  /\ rejected = {}

Accept(ev) ==
  /\ ev.id \notin KnownIds
  /\ pending' = pending \union {ev}
  /\ UNCHANGED <<ledger, rejected>>

Apply(ev) ==
  /\ ev \in pending
  /\ InOrder(ev)
  /\ ledger' = Append(ledger, ev)
  /\ pending' = pending \ {ev}
  /\ UNCHANGED rejected

Reject(ev) ==
  /\ ev \in pending
  /\ ~InOrder(ev)
  /\ rejected' = rejected \union {ev}
  /\ pending' = pending \ {ev}
  /\ UNCHANGED ledger

Next == \E ev \in Events : Accept(ev) \/ Apply(ev) \/ Reject(ev)

Spec == Init /\ [][Next]_vars
=============================================================================
