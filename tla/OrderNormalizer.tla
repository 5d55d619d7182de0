-------------------------- MODULE OrderNormalizer ---------------------------
(***************************************************************************)
(* P01-validacao-tipada-com-pydantic-e-jsonl: process_file writes each     *)
(* line of a JSONL file to one of two files, as an order or as a rejection *)
(* with its reason, and returns a summary.                                 *)
(*                                                                         *)
(* A line is what pydantic makes of it: an order with its id, the first    *)
(* issue of its validation, or an amount for which quantize raises         *)
(* decimal.InvalidOperation, which pydantic lets through.  A line may also *)
(* be no UTF-8 at all.  A file is opened for writing, buffered, and closed *)
(* by the ExitStack; the operating system may refuse anything at any time, *)
(* and the program may be killed.  A line written in part counts as absent.*)
(***************************************************************************)
EXTENDS Integers, Sequences, FiniteSets

CONSTANTS
  Lines,     (* what a line of the input may be                            *)
  MaxLines,  (* bound: lines of the input                                  *)
  Old        (* what an output file held before                            *)

ASSUME BatchAssumption == MaxLines \in Nat

Codes == {"invalid_json", "missing_field", "invalid_field", "unknown_currency",
          "invalid_date", "duplicate_id"}

VARIABLES
  input,     (* the lines of the source                                    *)
  next,      (* line_number of the next one                                *)
  batch,     (* how far process_file is                                    *)
  disk,      (* what each output file holds                                *)
  buffer,    (* what was written to each stream and is not on disk yet     *)
  seen,      (* seen_order_ids                                             *)
  summary,
  raising,   (* the exception that is on its way out, or "none"            *)
  osFailed   (* whether the operating system has refused anything          *)

streams == <<disk, buffer>>
tally == <<seen, summary>>
batchVars == <<input, next, batch, streams, tally, raising, osFailed>>

Files == {"valid", "rejected"}
BatchRunning == batch \in {"start", "reading", "closing", "last"}

(* Lines that end the batch and not only themselves: bytes that are not    *)
(* UTF-8, and a value too large for what its validator does, quantize of   *)
(* an amount of more than 26 digits (InvalidOperation) or astimezone of a  *)
(* date at the edge of the years 1 to 9999 (OverflowError).                *)
Undecodable == {k \in DOMAIN input : input[k].kind = "undecodable"}
TooLarge == {k \in DOMAIN input : input[k].kind = "too_large"}

BatchInit ==
  /\ input \in UNION {[1 .. n -> Lines] : n \in 0 .. MaxLines}
  /\ next = 1
  /\ batch = "start"
  /\ disk = [f \in Files |-> <<Old>>]
  /\ buffer = [f \in Files |-> <<>>]
  /\ seen = {}
  /\ summary = [total |-> 0, valid |-> 0, rejected |-> 0, errors |-> [c \in Codes |-> 0]]
  /\ raising = "none"
  /\ osFailed = FALSE

-----------------------------------------------------------------------------
(* The source is open; both outputs are truncated.                         *)
OpenFiles ==
  /\ batch = "start"
  /\ disk' = [f \in Files |-> <<>>]
  /\ batch' = "reading"
  /\ UNCHANGED <<input, next, buffer, tally, raising, osFailed>>

(* The source cannot be opened, or an output cannot: valid_path is already *)
(* truncated when the other is opened.                                     *)
OpenFails ==
  /\ batch = "start"
  /\ \/ raising' = "OSError" /\ UNCHANGED disk
     \/ raising' = "OutputWriteError" /\ UNCHANGED disk
     \/ raising' = "OutputWriteError" /\ disk' = [disk EXCEPT !["valid"] = <<>>]
  /\ osFailed' = TRUE
  /\ batch' = "raised"
  /\ UNCHANGED <<input, next, buffer, tally>>

-----------------------------------------------------------------------------
(* _rejection_from: the first issue of a line decides.                     *)
RejectionCode(line) ==
  CASE line.issue = "json_invalid" -> "invalid_json"
    [] line.issue = "missing" -> "missing_field"
    [] line.field = "currency" -> "unknown_currency"
    [] line.field = "created_at" -> "invalid_date"
    [] OTHER -> "invalid_field"

(* Mutant: ids are compared, but those of orders are never kept.           *)
DuplicateNever(line) == FALSE
Duplicate(line) == line.kind = "order" /\ line.id \in seen

Accepted(line) == line.kind = "order" /\ ~Duplicate(line)
Code(line) == IF line.kind = "order" THEN "duplicate_id" ELSE RejectionCode(line)

RecordFor(line) ==
  IF Accepted(line)
  THEN [file |-> "valid", line |-> next, code |-> "none"]
  ELSE [file |-> "rejected", line |-> next, code |-> Code(line)]

(* Of what is pending for a stream, the first k reach the disk and what    *)
(* follows the m-th is dropped.                                            *)
Spill(f, pending, k, m) ==
  /\ disk' = [disk EXCEPT ![f] = @ \o SubSeq(pending, 1, k)]
  /\ buffer' = [buffer EXCEPT ![f] = SubSeq(pending, k + 1, m)]

Reading(kinds) ==
  batch = "reading" /\ next <= Len(input) /\ input[next].kind \in kinds

(* record_valid and record_rejection, after the write.                     *)
Tally(line) ==
  IF Accepted(line)
  THEN /\ seen' = seen \union {line.id}
       /\ summary' = [summary EXCEPT !.total = @ + 1, !.valid = @ + 1]
  ELSE /\ summary' = [summary EXCEPT !.total = @ + 1, !.rejected = @ + 1,
                                     !.errors[Code(line)] = @ + 1]
       /\ UNCHANGED seen

ProcessLine ==
  /\ Reading({"order", "invalid"})
  /\ LET r == RecordFor(input[next])
         pending == Append(buffer[r.file], r)
     IN  \E k \in 0 .. Len(pending) : Spill(r.file, pending, k, Len(pending))
  /\ Tally(input[next])
  /\ next' = next + 1
  /\ UNCHANGED <<input, batch, raising, osFailed>>

(* OutputWriteError ends the loop.  Mutant: the loop goes on.              *)
AfterFailedWriteContinue == "reading"
AfterFailedWrite == "closing"

WriteFails ==
  /\ Reading({"order", "invalid"})
  /\ LET r == RecordFor(input[next])
         pending == Append(buffer[r.file], r)
     IN  \E k \in 0 .. Len(pending) : \E m \in k .. Len(pending) :
           Spill(r.file, pending, k, m)
  /\ next' = next + 1
  /\ batch' = AfterFailedWrite
  /\ raising' = "OutputWriteError"
  /\ osFailed' = TRUE
  /\ UNCHANGED <<input, tally>>

(* The source is decoded ahead of the line it is read for.                 *)
ReadFails ==
  /\ batch = "reading"
  /\ \/ \E k \in Undecodable : k >= next
     \/ Reading({"too_large"})
  /\ batch' = "closing"
  /\ raising' = "DataError"
  /\ UNCHANGED <<input, next, streams, tally, osFailed>>

(* The system refuses to read the source.                                  *)
SourceFails ==
  /\ batch = "reading"
  /\ batch' = "closing"
  /\ raising' = "OSError"
  /\ osFailed' = TRUE
  /\ UNCHANGED <<input, next, streams, tally>>

EndOfInput ==
  /\ batch = "reading" /\ next > Len(input)
  /\ batch' = "closing"
  /\ UNCHANGED <<input, next, streams, tally, raising, osFailed>>

-----------------------------------------------------------------------------
(* The ExitStack closes rejected_output and then valid_output, which       *)
(* flushes them; what is raised then takes the place of what was raised    *)
(* before.  Without an exception process_file returns.                     *)
Closing(f) == batch = (IF f = "rejected" THEN "closing" ELSE "last")
AfterClose(f, result) ==
  IF f = "rejected" THEN "last" ELSE IF result = "none" THEN "returned" ELSE "raised"

CloseFile(f) ==
  /\ Closing(f)
  /\ Spill(f, buffer[f], Len(buffer[f]), Len(buffer[f]))
  /\ batch' = AfterClose(f, raising)
  /\ UNCHANGED <<input, next, tally, raising, osFailed>>

(* Mutant: what close raises is suppressed.                                *)
AfterFailedCloseSuppressed == raising
AfterFailedClose == "OSError"

CloseFails(f) ==
  /\ Closing(f)
  /\ \E k \in 0 .. Len(buffer[f]) : Spill(f, buffer[f], k, k)
  /\ raising' = AfterFailedClose
  /\ batch' = AfterClose(f, AfterFailedClose)
  /\ osFailed' = TRUE
  /\ UNCHANGED <<input, next, tally>>

Kill ==
  /\ BatchRunning
  /\ batch' = "killed"
  /\ UNCHANGED <<input, next, streams, tally, raising, osFailed>>

Ended == ~BatchRunning /\ UNCHANGED batchVars

BatchNext ==
  \/ OpenFiles \/ OpenFails
  \/ ProcessLine \/ WriteFails \/ ReadFails \/ SourceFails \/ EndOfInput
  \/ \E f \in Files : CloseFile(f) \/ CloseFails(f)
  \/ Kill \/ Ended

BatchSpec == BatchInit /\ [][BatchNext]_batchVars

-----------------------------------------------------------------------------
(* Correctness.                                                            *)

BadLines == Undecodable \union TooLarge
Readable(k) == \A j \in 1 .. k : j \notin BadLines
FirstOf(k) ==
  /\ input[k].kind = "order"
  /\ \A j \in 1 .. k - 1 : input[j].kind = "order" => input[j].id # input[k].id

(* What a file should hold, of the lines before the first that raises: the *)
(* orders, each id once, or the rest with the reasons they are rejected    *)
(* for.                                                                    *)
BelongsIn(f, k) == Readable(k) /\ ((f = "valid") <=> FirstOf(k))
ExpectedRecord(f, k) ==
  [file |-> f, line |-> k, code |-> IF f = "valid" THEN "none" ELSE Code(input[k])]

(* records is all of that up to line n, in the input's order.              *)
HoldsUpTo(records, f, n) ==
  /\ \A i \in DOMAIN records : \E k \in 1 .. n :
       BelongsIn(f, k) /\ records[i] = ExpectedRecord(f, k)
  /\ \A i, j \in DOMAIN records : i < j => records[i].line < records[j].line
  /\ \A k \in 1 .. n : BelongsIn(f, k) => \E i \in DOMAIN records : records[i].line = k

Truncated(f) == disk[f] # <<Old>>

(* A batch that returns has put every line of the input in exactly one     *)
(* file, in order, no order id twice and with the right reason, and its    *)
(* summary counts what is on disk.                                         *)
ReturnedIsComplete ==
  batch = "returned" =>
    /\ \A f \in Files : HoldsUpTo(disk[f], f, Len(input))
    /\ summary.total = Len(input)
    /\ summary.valid = Len(disk["valid"]) /\ summary.rejected = Len(disk["rejected"])
    /\ \A c \in Codes :
         summary.errors[c] = Cardinality({i \in DOMAIN disk["rejected"] :
                                            disk["rejected"][i].code = c})

(* However a batch ends, and while it runs, a file that was truncated      *)
(* holds all it should up to some line, with nothing missing in between.   *)
FilesHaveNoHoles ==
  \A f \in Files : Truncated(f) => \E n \in 0 .. Len(input) : HoldsUpTo(disk[f], f, n)

(* What is on disk can be relied on, at the end and before it.             *)
FilesTruthful == ReturnedIsComplete /\ FilesHaveNoHoles

(* No raising is silent, and each is told from the others: a batch returns *)
(* only if the system refused nothing and no line raised; OutputWriteError *)
(* and OSError come from the system alone, and while it refuses nothing a  *)
(* batch is given up for a line that raises only.                          *)
FailuresAreTold ==
  /\ batch = "returned" => ~osFailed /\ BadLines = {}
  /\ batch = "raised" =>
       /\ raising \in {"OutputWriteError", "OSError"} <=> osFailed
       /\ raising = "DataError" => BadLines # {}
=============================================================================
