----------------------------- MODULE MCLabScripts ------------------------------
(***************************************************************************)
(* Parts that share nothing, checked side by side: the server of P04 by    *)
(* itself, and the scripts of P02, P04, P09 and P10.  A behaviour is one   *)
(* of one of them, the others stay where they begin.                       *)
(***************************************************************************)
EXTENDS ConcurrencyRace, ServerDriver, SchemaGuard, QueryClinic

CONSTANT MaxServers  (* bound: processes started when the server is by itself  *)

VARIABLE lab

allVars == <<lab, raceVars, allDriverVars, schemaVars, clinicVars>>

MCCpuInputs == <<3, 2, 1>>

(* What does not run has one initial state.                                *)
LabInit ==
  /\ lab \in {"race", "server", "driver", "schema", "clinic"}
  /\ RaceInit /\ DriverInit /\ SchemaInit /\ ClinicInit
  /\ lab # "clinic" =>
       scenario = CHOOSE s \in Candidates : Valid(s)

OnlyRace == lab = "race" /\ UNCHANGED <<lab, allDriverVars, schemaVars, clinicVars>>
OnlyServer == lab = "server" /\ UNCHANGED <<lab, raceVars, driverVars, schemaVars, clinicVars>>
OnlyDriver == lab = "driver" /\ UNCHANGED <<lab, raceVars, schemaVars, clinicVars>>
OnlySchema == lab = "schema" /\ UNCHANGED <<lab, raceVars, allDriverVars, clinicVars>>
OnlyClinic == lab = "clinic" /\ UNCHANGED <<lab, raceVars, allDriverVars, schemaVars>>

(* It has ended and will not be started again.                             *)
LabDone ==
  \/ lab = "race" /\ RaceOver
  \/ lab = "server" /\ Down /\ pid = MaxServers
  \/ lab = "driver" /\ driver = "over"
  \/ lab = "schema" /\ stage = "idle" /\ runs = MaxRuns
  \/ lab = "clinic" /\ step = 0 /\ starts = MaxStarts

LabNext ==
  \/ OnlyRace /\ RaceNext
  \/ OnlyServer /\ Next /\ pid' <= MaxServers
  \/ OnlyDriver /\ DriverNext
  \/ OnlySchema /\ SchemaNext
  \/ OnlyClinic /\ ClinicNext
  \/ LabDone /\ UNCHANGED allVars

LabSpec == LabInit /\ [][LabNext]_allVars /\ (lab = "race" => RaceFairness)

(* NoServerOutlives, where the script runs the server.                     *)
NoServerOutlivesItsScript == lab # "server" => NoServerOutlives

(* RaceEnds, in the behaviours that are of the race: the race ends, also   *)
(* when its deadline or the death of a process finds it waiting for calls  *)
(* that cannot be cancelled.                                               *)
RaceEndsInItsLab == lab = "race" => RaceEnds
=============================================================================
