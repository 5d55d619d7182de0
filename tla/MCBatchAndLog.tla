---------------------------- MODULE MCBatchAndLog -----------------------------
(***************************************************************************)
(* Two programs that write what they read and share nothing, side by side: *)
(* a behaviour is one of OrderNormalizer (P01) or one of KafkaLog (P12),   *)
(* and the other stays where it begins.                                    *)
(***************************************************************************)
EXTENDS OrderNormalizer, KafkaLog

CONSTANTS a, b  (* two orders of P12's scenario *)

VARIABLE program

(* Two order ids, a missing currency and an unknown one, and the two kinds *)
(* of line that raise.                                                     *)
MCLines ==
  {[kind |-> "order", id |-> 1], [kind |-> "order", id |-> 2],
   [kind |-> "invalid", issue |-> "missing", field |-> "currency"],
   [kind |-> "invalid", issue |-> "enum", field |-> "currency"],
   [kind |-> "too_large"], [kind |-> "undecodable"]}

(* Two orders with two events each, as in scenario.yaml.                   *)
MCPublished ==
  <<[id |-> 1, order |-> a, sequence |-> 1],
    [id |-> 2, order |-> b, sequence |-> 1],
    [id |-> 3, order |-> a, sequence |-> 2],
    [id |-> 4, order |-> b, sequence |-> 2]>>

programVars == <<program, batchVars, logVars>>

ProgramInit ==
  /\ program \in {"batch", "log"}
  /\ BatchInit /\ LogInit
  /\ program = "log" => input = <<>>
  /\ program = "batch" => partitionOf = CHOOSE f \in [Orders -> Partitions] : TRUE

OnlyBatch == program = "batch" /\ UNCHANGED <<program, logVars>>
OnlyLog == program = "log" /\ UNCHANGED <<program, batchVars>>

ProgramNext ==
  \/ OnlyBatch /\ BatchNext
  \/ OnlyLog /\ LogNext

ProgramSpec == ProgramInit /\ [][ProgramNext]_programVars
=============================================================================
