-------------------------- MODULE BatchAndLogProofs --------------------------
(***************************************************************************)
(* Proofs about two programs whose results are sequences they write: the   *)
(* order normaliser of P01, for any input, and the Kafka half of P12, for  *)
(* any events, partitions and partitioner.                                 *)
(*                                                                         *)
(* The batch: a file should hold, up to a line, what the lines up to it    *)
(* give it (HoldsUpTo); what a file's disk and buffer hold together is     *)
(* that, up to the lines read, and the buffer is empty once the file was   *)
(* closed without a failure.  So a run that returns has told the truth,    *)
(* and one that fails leaves a beginning of it.                            *)
(*                                                                         *)
(* The log: a record is kept where it was appended, so that a delivery     *)
(* stays true; an event is in the partition its order was given, and among *)
(* the records of its order it stands as it was produced (IndexOf).  A     *)
(* reader that got every record up to its position has the events of a key *)
(* in that order, which is what the report compares.                       *)
(***************************************************************************)
EXTENDS OrderNormalizer, KafkaLog, SequenceTheorems, FiniteSetTheorems, TLAPS

-----------------------------------------------------------------------------
(* The batch: what was written, on disk or still in a buffer, is all that  *)
(* a file should hold of the lines read.                                   *)

Exceptions == {"DataError", "OutputWriteError", "OSError"}
FileRecord == [file : Files, line : Nat, code : Codes \union {"none"}]

(* Every variable has its type; a file is typed once it is open.           *)
BatchTypeOK ==
  /\ input \in Seq(Lines) /\ next \in 1 .. Len(input) + 1
  /\ batch \in {"start", "reading", "closing", "last", "returned", "raised", "killed"}
  /\ buffer \in [Files -> Seq(FileRecord)] /\ DOMAIN disk = Files
  /\ summary \in [total : Nat, valid : Nat, rejected : Nat, errors : [Codes -> Nat]]
  /\ raising \in Exceptions \union {"none"} /\ osFailed \in BOOLEAN

Written(f) == disk[f] \o buffer[f]
Coded(records, c) == {i \in DOMAIN records : records[i].code = c}
Open == batch \in {"reading", "closing", "last", "returned"}

(* Nothing is missing in between of what was written, or of what is left   *)
(* of it after a write or a close that failed.                             *)
FilesSound ==
  /\ batch = "start" => disk = [f \in Files |-> <<Old>>] /\ next = 1
  /\ batch = "start" => buffer = [f \in Files |-> <<>>]
  /\ Open => \A f \in Files :
       disk[f] \in Seq(FileRecord) /\ \E n \in 0 .. Len(input) : HoldsUpTo(Written(f), f, n)
  /\ batch \in {"last", "returned"} => buffer["rejected"] = <<>>
  /\ batch = "returned" => buffer["valid"] = <<>>
  /\ FilesHaveNoHoles

(* While nothing fails, what was written is all of the lines read, and the *)
(* ids and the summary are of what was written.                            *)
SeenSound ==
  \A x : x \in seen <=> \E j \in 1 .. next - 1 : input[j].kind = "order" /\ input[j].id = x
SummarySound ==
  /\ summary.total = next - 1
  /\ summary.valid = Len(Written("valid")) /\ summary.rejected = Len(Written("rejected"))
  /\ \A c \in Codes : summary.errors[c] = Cardinality(Coded(Written("rejected"), c))
LinesRead ==
  /\ \A f \in Files : HoldsUpTo(Written(f), f, next - 1)
  /\ \A k \in 1 .. next - 1 : input[k].kind \in {"order", "invalid"}

TallySound ==
  /\ batch = "start" => seen = {} /\ summary =
       [total |-> 0, valid |-> 0, rejected |-> 0, errors |-> [c \in Codes |-> 0]]
  /\ Open /\ raising = "none" => SeenSound /\ SummarySound /\ LinesRead
  /\ batch \in {"closing", "last", "returned"} /\ raising = "none" => next = Len(input) + 1

(* Who is to blame for the exception on its way out.                       *)
FailuresSound ==
  /\ batch \in {"start", "reading", "returned"} => raising = "none"
  /\ raising \in {"OutputWriteError", "OSError"} <=> osFailed
  /\ raising = "DataError" => BadLines # {}
  /\ batch = "raised" => raising # "none"

BatchIInv == BatchTypeOK /\ FilesSound /\ TallySound /\ FailuresSound

-----------------------------------------------------------------------------
(* What a file holds.                                                      *)

LEMMA BatchSplit ==
  ASSUME NEW S, NEW d \in Seq(S), NEW p \in Seq(S), NEW k \in 0 .. Len(p), NEW m \in k .. Len(p)
  PROVE  /\ d \o SubSeq(p, 1, k) \in Seq(S) /\ SubSeq(p, k + 1, m) \in Seq(S)
         /\ (d \o SubSeq(p, 1, k)) \o SubSeq(p, k + 1, m) = SubSeq(d \o p, 1, Len(d) + m)
<1> DEFINE a == SubSeq(p, 1, k)
           b == SubSeq(p, k + 1, m)
           t == SubSeq(d \o p, 1, Len(d) + m)
<1>1. a \in Seq(S) /\ Len(a) = k /\ \A i \in 1 .. k : a[i] = p[i]
  OBVIOUS
<1>2. b \in Seq(S) /\ Len(b) = m - k /\ \A i \in 1 .. m - k : b[i] = p[k + i]
  OBVIOUS
<1>3. t \in Seq(S) /\ Len(t) = Len(d) + m /\ \A i \in 1 .. Len(d) + m : t[i] = (d \o p)[i]
  OBVIOUS
<1> HIDE DEF a, b, t
<1>0. Len(d) \in Nat /\ Len(p) \in Nat /\ k \in Nat /\ m \in Nat /\ k <= m
  BY LenProperties
<1>4. d \o a \in Seq(S) /\ (d \o a) \o b \in Seq(S) /\ Len((d \o a) \o b) = Len(d) + m
  <2> DEFINE e == d \o a
  <2>1. e \in Seq(S) /\ Len(e) = Len(d) + k
    BY <1>1, ConcatProperties
  <2> HIDE DEF e
  <2>2. e \o b \in Seq(S) /\ Len(e \o b) = Len(e) + Len(b)
    BY <2>1, <1>2, ConcatProperties
  <2>3. Len(e \o b) = Len(d) + m
    BY <2>1, <2>2, <1>0, <1>2
  <2> QED
    BY <2>1, <2>2, <2>3 DEF e
<1>5. ASSUME NEW i \in 1 .. Len(d) + m PROVE ((d \o a) \o b)[i] = t[i]
  <2> DEFINE e == d \o a
  <2>0. /\ e \in Seq(S) /\ Len(e) = Len(d) + k /\ t[i] = (d \o p)[i]
        /\ \A j \in 1 .. Len(e) : e[j] = IF j <= Len(d) THEN d[j] ELSE a[j - Len(d)]
        /\ (e \o b)[i] = IF i <= Len(e) THEN e[i] ELSE b[i - Len(e)]
        /\ (d \o p)[i] = IF i <= Len(d) THEN d[i] ELSE p[i - Len(d)]
    <3>1. e \in Seq(S) /\ Len(e) = Len(d) + k
      BY <1>1, ConcatProperties
    <3>2. \A j \in 1 .. Len(e) : e[j] = IF j <= Len(d) THEN d[j] ELSE a[j - Len(d)]
      BY <1>1, ConcatProperties
    <3> HIDE DEF e
    <3>3. (e \o b)[i] = IF i <= Len(e) THEN e[i] ELSE b[i - Len(e)]
      <4>1. i \in 1 .. Len(e) + Len(b)
        BY <3>1, <1>0, <1>2
      <4> QED
        BY <4>1, <3>1, <1>2, ConcatProperties
    <3>4. (d \o p)[i] = IF i <= Len(d) THEN d[i] ELSE p[i - Len(d)]
      BY ConcatProperties
    <3> QED
      BY <3>1, <3>2, <3>3, <3>4, <1>3
  <2> HIDE DEF e
  <2>4. (e \o b)[i] = t[i]
    <3>1. CASE i <= Len(d)
      BY <3>1, <2>0, <1>0
    <3>2. CASE Len(d) < i /\ i <= Len(d) + k
      <4>1. i - Len(d) \in 1 .. k
        BY <3>2, <1>0
      <4> QED
        BY <4>1, <3>2, <2>0, <1>0, <1>1
    <3>3. CASE Len(d) + k < i
      <4>1. i - Len(e) \in 1 .. m - k /\ k + (i - Len(e)) = i - Len(d)
        BY <3>3, <2>0, <1>0
      <4> QED
        BY <4>1, <3>3, <2>0, <1>0, <1>2
    <3>4. i <= Len(d) \/ (Len(d) < i /\ i <= Len(d) + k) \/ Len(d) + k < i
      BY <1>0
    <3> QED
      BY <3>1, <3>2, <3>3, <3>4
  <2> QED
    BY <2>4 DEF e
<1>6. (d \o a) \o b = t
  BY <1>3, <1>4, <1>5, SeqEqual
<1> QED
  BY <1>1, <1>2, <1>4, <1>6 DEF a, b, t

(* A prefix of what holds up to a line holds up to some line.              *)
LEMMA HoldsPrefix ==
  ASSUME NEW s \in Seq(FileRecord), NEW f, NEW n \in Nat, HoldsUpTo(s, f, n),
         NEW m \in 0 .. Len(s)
  PROVE  \E k \in 0 .. n : HoldsUpTo(SubSeq(s, 1, m), f, k)
<1> DEFINE t == SubSeq(s, 1, m)
<1>1. t \in Seq(FileRecord) /\ Len(t) = m /\ \A i \in 1 .. m : t[i] = s[i]
  OBVIOUS
<1>2. CASE m = 0
  BY <1>1, <1>2, LenProperties DEF HoldsUpTo
<1>3. CASE m > 0
  <2> DEFINE k == s[m].line
  <2>1. m \in DOMAIN s /\ k \in 1 .. n
    BY <1>3 DEF HoldsUpTo, ExpectedRecord
  <2>2. ASSUME NEW i \in DOMAIN t
        PROVE  \E j \in 1 .. k : BelongsIn(f, j) /\ t[i] = ExpectedRecord(f, j)
    <3>1. i \in 1 .. m /\ t[i] = s[i] /\ i \in DOMAIN s
      BY <1>1
    <3>2. PICK j \in 1 .. n : BelongsIn(f, j) /\ s[i] = ExpectedRecord(f, j)
      BY <3>1 DEF HoldsUpTo
    <3>3. s[i].line = j
      BY <3>2 DEF ExpectedRecord
    <3>4. j <= k
      <4>1. CASE i = m
        BY <4>1, <3>3, <3>2
      <4>2. CASE i < m
        <5>1. s[i].line < s[m].line
          BY <4>2, <3>1, <2>1 DEF HoldsUpTo
        <5> QED
          BY <5>1, <3>2, <3>3, <2>1
      <4> QED
        BY <4>1, <4>2, <3>1
    <3> QED
      BY <3>1, <3>2, <3>4, <2>1
  <2>3. \A i, j \in DOMAIN t : i < j => t[i].line < t[j].line
    BY <1>1 DEF HoldsUpTo
  <2>4. ASSUME NEW j \in 1 .. k, BelongsIn(f, j) PROVE \E i \in DOMAIN t : t[i].line = j
    <3>1. PICK i \in DOMAIN s : s[i].line = j
      BY <2>1, <2>4 DEF HoldsUpTo
    <3>2. ~(m < i)
      <4>1. m < i => s[m].line < s[i].line
        BY <2>1 DEF HoldsUpTo
      <4> QED
        BY <4>1, <3>1, <2>1
    <3>3. i \in 1 .. m
      BY <3>1, <3>2, LenProperties
    <3> QED
      BY <3>1, <3>3, <1>1, LenProperties
  <2> HIDE DEF k
  <2>5. HoldsUpTo(t, f, k)
    BY <2>2, <2>3, <2>4 DEF HoldsUpTo
  <2> QED
    BY <2>1, <2>5
<1> QED
  BY <1>2, <1>3

LEMMA HoldsAppend ==
  ASSUME NEW s \in Seq(FileRecord), NEW f, NEW n \in Nat, HoldsUpTo(s, f, n),
         NEW r \in FileRecord, BelongsIn(f, n + 1), r = ExpectedRecord(f, n + 1)
  PROVE  HoldsUpTo(Append(s, r), f, n + 1)
<1> DEFINE t == Append(s, r)
<1>1. /\ t \in Seq(FileRecord) /\ Len(t) = Len(s) + 1 /\ t[Len(s) + 1] = r
      /\ \A i \in 1 .. Len(s) : t[i] = s[i]
  OBVIOUS
<1> HIDE DEF t
<1>0. DOMAIN t = 1 .. Len(t) /\ DOMAIN s = 1 .. Len(s) /\ Len(s) \in Nat
  BY <1>1, LenProperties
<1>2. r.line = n + 1
  BY DEF ExpectedRecord
<1>3. ASSUME NEW i \in DOMAIN t
      PROVE  \E k \in 1 .. n + 1 : BelongsIn(f, k) /\ t[i] = ExpectedRecord(f, k)
  <2>1. CASE i = Len(s) + 1
    BY <2>1, <1>1
  <2>2. CASE i \in DOMAIN s
    <3>1. PICK k \in 1 .. n : BelongsIn(f, k) /\ s[i] = ExpectedRecord(f, k)
      BY <2>2 DEF HoldsUpTo
    <3> QED
      BY <3>1, <2>2, <1>0, <1>1
  <2> QED
    BY <2>1, <2>2, <1>0, <1>1
<1>4. \A i \in DOMAIN s : s[i].line \in 1 .. n
  BY DEF HoldsUpTo, ExpectedRecord
<1>5. ASSUME NEW i \in DOMAIN t, NEW j \in DOMAIN t, i < j PROVE t[i].line < t[j].line
  <2>1. i \in DOMAIN s /\ t[i] = s[i]
    BY <1>0, <1>1, <1>5
  <2>2. CASE j = Len(s) + 1
    BY <2>1, <2>2, <1>1, <1>2, <1>4
  <2>3. CASE j \in DOMAIN s
    BY <2>1, <2>3, <1>0, <1>1, <1>5 DEF HoldsUpTo
  <2> QED
    BY <2>2, <2>3, <1>0, <1>1
<1>6. ASSUME NEW k \in 1 .. n + 1, BelongsIn(f, k) PROVE \E i \in DOMAIN t : t[i].line = k
  <2>1. CASE k = n + 1
    BY <2>1, <1>1, <1>2
  <2>2. CASE k \in 1 .. n
    <3>1. PICK i \in DOMAIN s : s[i].line = k
      BY <2>2, <1>6 DEF HoldsUpTo
    <3> QED
      BY <3>1, <1>0, <1>1
  <2> QED
    BY <2>1, <2>2
<1> QED
  BY <1>3, <1>5, <1>6 DEF HoldsUpTo, t

LEMMA HoldsSkip ==
  ASSUME NEW s \in Seq(FileRecord), NEW f, NEW n \in Nat, HoldsUpTo(s, f, n),
         ~BelongsIn(f, n + 1)
  PROVE  HoldsUpTo(s, f, n + 1)
<1>0. \A k \in 1 .. n : k \in 1 .. n + 1
  OBVIOUS
<1>1. \A i \in DOMAIN s : \E k \in 1 .. n + 1 : BelongsIn(f, k) /\ s[i] = ExpectedRecord(f, k)
  <2> TAKE i \in DOMAIN s
  <2>1. PICK k \in 1 .. n : BelongsIn(f, k) /\ s[i] = ExpectedRecord(f, k)
    BY DEF HoldsUpTo
  <2> QED
    BY <2>1, <1>0
<1>2. \A k \in 1 .. n + 1 : BelongsIn(f, k) => k \in 1 .. n
  OBVIOUS
<1> QED
  BY <1>1, <1>2 DEF HoldsUpTo

LEMMA HoldsNothing == ASSUME NEW f PROVE HoldsUpTo(<<>>, f, 0)
  BY DEF HoldsUpTo

LEMMA CodesOfLines == \A line : Code(line) \in Codes
  BY DEF Code, RejectionCode, Codes

LEMMA CodedGrows ==
  ASSUME NEW s \in Seq(FileRecord), NEW r \in FileRecord, NEW c
  PROVE  /\ Cardinality(Coded(s, c)) \in Nat
         /\ Cardinality(Coded(Append(s, r), c))
              = IF r.code = c THEN Cardinality(Coded(s, c)) + 1 ELSE Cardinality(Coded(s, c))
<1> DEFINE t == Append(s, r)
<1>1. /\ t \in Seq(FileRecord) /\ Len(t) = Len(s) + 1 /\ t[Len(s) + 1] = r
      /\ \A i \in 1 .. Len(s) : t[i] = s[i]
  OBVIOUS
<1> HIDE DEF t
<1>2. IsFiniteSet(Coded(s, c))
  <2>1. Coded(s, c) \subseteq 1 .. Len(s)
    BY DEF Coded
  <2> QED
    BY <2>1, FS_Interval, FS_Subset
<1>3. CASE r.code = c
  <2>1. Coded(t, c) = Coded(s, c) \union {Len(s) + 1} /\ Len(s) + 1 \notin Coded(s, c)
    BY <1>1, <1>3 DEF Coded
  <2> QED
    BY <2>1, <1>2, <1>3, FS_AddElement, FS_CardinalityType DEF t
<1>4. CASE r.code # c
  <2>1. Coded(t, c) = Coded(s, c)
    BY <1>1, <1>4 DEF Coded
  <2> QED
    BY <2>1, <1>2, <1>4, FS_CardinalityType DEF t
<1> QED
  BY <1>3, <1>4

-----------------------------------------------------------------------------
(* What a step does to the files.                                          *)

LEMMA SpillSplits ==
  ASSUME BatchTypeOK, NEW f \in Files, disk[f] \in Seq(FileRecord),
         NEW p \in Seq(FileRecord), NEW k \in 0 .. Len(p), NEW m \in k .. Len(p),
         Spill(f, p, k, m)
  PROVE  /\ DOMAIN disk' = Files /\ buffer' \in [Files -> Seq(FileRecord)]
         /\ disk'[f] \in Seq(FileRecord)
         /\ Written(f)' = SubSeq(disk[f] \o p, 1, Len(disk[f]) + m)
         /\ buffer'[f] = SubSeq(p, k + 1, m)
         /\ \A g \in Files \ {f} :
              disk'[g] = disk[g] /\ buffer'[g] = buffer[g] /\ Written(g)' = Written(g)
<1>1. /\ disk[f] \o SubSeq(p, 1, k) \in Seq(FileRecord)
      /\ SubSeq(p, k + 1, m) \in Seq(FileRecord)
      /\ (disk[f] \o SubSeq(p, 1, k)) \o SubSeq(p, k + 1, m)
           = SubSeq(disk[f] \o p, 1, Len(disk[f]) + m)
  BY BatchSplit
<1>2. /\ DOMAIN disk' = Files /\ disk'[f] = disk[f] \o SubSeq(p, 1, k)
      /\ \A g \in Files \ {f} : disk'[g] = disk[g]
  BY DEF BatchTypeOK, Spill
<1>3. /\ buffer' \in [Files -> Seq(FileRecord)] /\ buffer'[f] = SubSeq(p, k + 1, m)
      /\ \A g \in Files \ {f} : buffer'[g] = buffer[g]
  BY <1>1 DEF BatchTypeOK, Spill
<1> QED
  BY <1>1, <1>2, <1>3 DEF Written

LEMMA HoldsNext ==
  ASSUME input' = input, NEW s, NEW f, NEW n, HoldsUpTo(s, f, n)
  PROVE  HoldsUpTo(s, f, n)'
  BY DEF HoldsUpTo, BelongsIn, Readable, FirstOf, BadLines, Undecodable, TooLarge,
         ExpectedRecord, Code, RejectionCode

LEMMA WrittenNext ==
  ASSUME input' = input, NEW f, NEW n, HoldsUpTo(Written(f)', f, n)
  PROVE  HoldsUpTo(Written(f), f, n)'
  BY DEF HoldsUpTo, BelongsIn, Readable, FirstOf, BadLines, Undecodable, TooLarge,
         ExpectedRecord, Code, RejectionCode

LEMMA DiskNext ==
  ASSUME input' = input, NEW f, NEW n, HoldsUpTo(disk'[f], f, n)
  PROVE  HoldsUpTo(disk[f], f, n)'
  BY DEF HoldsUpTo, BelongsIn, Readable, FirstOf, BadLines, Undecodable, TooLarge,
         ExpectedRecord, Code, RejectionCode

(* When what was written has no holes, what is on disk has none.           *)
LEMMA NoHolesNext ==
  ASSUME input' = input, Len(input) \in Nat,
         \A f \in Files :
           /\ disk'[f] \in Seq(FileRecord) /\ buffer'[f] \in Seq(FileRecord)
           /\ \E n \in 0 .. Len(input) : HoldsUpTo(Written(f)', f, n)
  PROVE  /\ \A f \in Files :
              /\ disk'[f] \in Seq(FileRecord)
              /\ \E n \in 0 .. Len(input') : HoldsUpTo(Written(f), f, n)'
         /\ FilesHaveNoHoles'
<1>1. ASSUME NEW f \in Files
      PROVE  \E n \in 0 .. Len(input') : HoldsUpTo(Written(f), f, n)'
  BY WrittenNext
<1>2. ASSUME NEW f \in Files
      PROVE  \E n \in 0 .. Len(input') : HoldsUpTo(disk[f], f, n)'
  <2> DEFINE d == disk'[f]
             b == buffer'[f]
  <2>1. PICK n \in 0 .. Len(input) : HoldsUpTo(d \o b, f, n)
    BY DEF Written
  <2>2. d \in Seq(FileRecord) /\ b \in Seq(FileRecord)
    OBVIOUS
  <2> HIDE DEF d, b
  <2>3. d \o b \in Seq(FileRecord) /\ SubSeq(d \o b, 1, Len(d)) = d
    BY <2>2
  <2>4. Len(d) \in 0 .. Len(d \o b)
    BY <2>2
  <2>5. \E k \in 0 .. n : HoldsUpTo(SubSeq(d \o b, 1, Len(d)), f, k)
    BY <2>1, <2>3, <2>4, HoldsPrefix, n \in Nat
  <2>6. PICK k \in 0 .. Len(input) : HoldsUpTo(d, f, k)
    <3>1. PICK k \in 0 .. n : HoldsUpTo(SubSeq(d \o b, 1, Len(d)), f, k)
      BY <2>5
    <3>2. HoldsUpTo(d, f, k)
      BY <3>1, <2>3
    <3> QED
      BY <3>2
  <2> QED
    BY <2>6, DiskNext DEF d
<1> QED
  BY <1>1, <1>2 DEF FilesHaveNoHoles

-----------------------------------------------------------------------------
(* The steps.                                                              *)

(* While nothing has failed, a line goes to the file it belongs in.        *)
LEMMA RecordBelongs ==
  ASSUME BatchTypeOK, SeenSound, LinesRead, Reading({"order", "invalid"})
  PROVE  LET r == RecordFor(input[next]) IN
         /\ r \in FileRecord /\ r.line = next
         /\ r.file = IF Accepted(input[next]) THEN "valid" ELSE "rejected"
         /\ r.file = "rejected" => r.code = Code(input[next])
         /\ BelongsIn(r.file, next) /\ r = ExpectedRecord(r.file, next)
         /\ \A f \in Files \ {r.file} : ~BelongsIn(f, next)
<1> DEFINE line == input[next]
           r == RecordFor(line)
<1>1. next \in 1 .. Len(input) /\ next \in DOMAIN input /\ line.kind \in {"order", "invalid"}
  BY LenProperties DEF BatchTypeOK, Reading
<1>2. Readable(next)
  BY <1>1 DEF Readable, BadLines, Undecodable, TooLarge, LinesRead
<1>3. Accepted(line) <=> FirstOf(next)
  BY <1>1 DEF Accepted, Duplicate, FirstOf, SeenSound
<1>4. r \in FileRecord
  <2>1. Code(line) \in Codes
    BY CodesOfLines
  <2> QED
    BY <2>1, <1>1 DEF RecordFor, FileRecord, Files
<1>5. /\ r.line = next /\ r.file = IF Accepted(line) THEN "valid" ELSE "rejected"
      /\ r.file = "rejected" => r.code = Code(line)
  BY DEF RecordFor
<1>6. BelongsIn(r.file, next) /\ \A f \in Files \ {r.file} : ~BelongsIn(f, next)
  BY <1>2, <1>3, <1>5 DEF BelongsIn, Files
<1>7. r = ExpectedRecord(r.file, next)
  BY <1>5 DEF RecordFor, ExpectedRecord
<1> QED
  BY <1>4, <1>5, <1>6, <1>7

LEMMA StepOpen ==
  ASSUME BatchIInv, OpenFiles \/ OpenFails
  PROVE  BatchIInv'
<1> USE DEF BatchIInv, BatchTypeOK, Files, Exceptions
<1>1. CASE OpenFiles
  <2> DEFINE W == [f \in Files |-> <<>>]
  <2>1. /\ input' = input /\ next' = 1 /\ next = 1 /\ batch' = "reading" /\ raising' = "none"
        /\ disk' = W /\ buffer' = W /\ seen' = {} /\ raising = "none" /\ osFailed' = osFailed
        /\ summary' = summary /\ summary = [total |-> 0, valid |-> 0, rejected |-> 0,
                                            errors |-> [c \in Codes |-> 0]]
    BY <1>1 DEF OpenFiles, FilesSound, TallySound, FailuresSound, tally
  <2>2. <<>> \in Seq(FileRecord) /\ W \in [Files -> Seq(FileRecord)] /\ Len(input) \in Nat
    BY EmptySeq, LenProperties
  <2>3. \A f \in Files : Written(f)' = <<>>
    BY <2>1 DEF Written
  <2>4. BatchTypeOK'
    BY <2>1, <2>2
  <2>5. \A f \in Files : HoldsUpTo(Written(f)', f, 0)
    BY <2>3, HoldsNothing
  <2>6. FilesSound'
    <3>1. /\ \A f \in Files :
               /\ disk'[f] \in Seq(FileRecord)
               /\ \E n \in 0 .. Len(input') : HoldsUpTo(Written(f), f, n)'
          /\ FilesHaveNoHoles'
      BY <2>1, <2>2, <2>5, NoHolesNext
    <3> QED
      BY <2>1, <3>1 DEF FilesSound
  <2>7. TallySound'
    <3>1. SeenSound'
      BY <2>1 DEF SeenSound
    <3>2. SummarySound'
      <4>1. \A c \in Codes : Coded(<<>>, c) = {}
        BY DEF Coded
      <4>2. \A c \in Codes : Cardinality(Coded(Written("rejected"), c))' = 0
        BY <4>1, <2>3, FS_EmptySet
      <4>3. Len(Written("valid"))' = 0 /\ Len(Written("rejected"))' = 0
        BY <2>3, EmptySeq
      <4> QED
        BY <4>2, <4>3, <2>1 DEF SummarySound
    <3>3. LinesRead'
      <4>1. \A f \in Files : HoldsUpTo(Written(f), f, next - 1)'
        BY <2>1, <2>3 DEF HoldsUpTo
      <4> QED
        BY <4>1, <2>1 DEF LinesRead
    <3> QED
      BY <2>1, <3>1, <3>2, <3>3 DEF TallySound
  <2>8. FailuresSound'
    BY <2>1 DEF FailuresSound, BadLines, Undecodable, TooLarge
  <2> QED
    BY <2>4, <2>6, <2>7, <2>8
<1>2. CASE OpenFails
  <2>1. /\ input' = input /\ next' = next /\ batch' = "raised" /\ buffer' = buffer
        /\ raising' \in {"OSError", "OutputWriteError"} /\ osFailed' = TRUE /\ summary' = summary
        /\ disk = [f \in Files |-> <<Old>>]
        /\ disk' = disk \/ disk' = [disk EXCEPT !["valid"] = <<>>]
    BY <1>2 DEF OpenFails, FilesSound, tally
  <2>2. FilesHaveNoHoles'
    <3>1. ASSUME NEW f \in Files, disk'[f] # <<Old>> PROVE disk'[f] = <<>>
      BY <2>1, <3>1
    <3>2. \A f \in Files : disk'[f] # <<Old>> => HoldsUpTo(disk[f], f, 0)'
      BY <3>1 DEF HoldsUpTo
    <3>3. 0 \in 0 .. Len(input')
      BY <2>1, LenProperties
    <3> QED
      BY <3>2, <3>3 DEF FilesHaveNoHoles, Truncated
  <2> QED
    BY <2>1, <2>2 DEF FilesSound, TallySound, FailuresSound, Open
<1> QED
  BY <1>1, <1>2

(* What leaves the files, the ids and the summary alone.                   *)
LEMMA StepQuiet ==
  ASSUME BatchIInv, ReadFails \/ SourceFails \/ EndOfInput \/ Kill \/ UNCHANGED batchVars
  PROVE  BatchIInv'
<1> USE DEF BatchIInv
<1>1. /\ input' = input /\ next' = next /\ disk' = disk /\ buffer' = buffer
      /\ seen' = seen /\ summary' = summary
  BY DEF ReadFails, SourceFails, EndOfInput, Kill, batchVars, streams, tally
<1>2. BatchTypeOK'
  BY <1>1 DEF BatchTypeOK, ReadFails, SourceFails, EndOfInput, Kill, batchVars, Exceptions
<1>3. FailuresSound'
  <2>1. ASSUME ReadFails PROVE BadLines # {}
    <3>1. next <= Len(input) /\ next \in Nat \ {0} => next \in DOMAIN input
      BY LenProperties DEF BatchTypeOK
    <3> QED
      BY <2>1, <3>1, LenProperties
      DEF ReadFails, Reading, BadLines, Undecodable, TooLarge, BatchTypeOK
  <2>2. BadLines' = BadLines
    BY <1>1 DEF BadLines, Undecodable, TooLarge
  <2> QED
    BY <2>1, <2>2 DEF FailuresSound, ReadFails, SourceFails, EndOfInput, Kill, batchVars,
         BatchRunning
<1>4. \A f \in Files : Written(f)' = Written(f)
  BY <1>1 DEF Written
<1>5. FilesSound'
  <2>1. FilesHaveNoHoles'
    BY <1>1, HoldsNext DEF FilesSound, FilesHaveNoHoles, Truncated
  <2>2. CASE Open'
    <3>1. Open
      BY <2>2 DEF Open, ReadFails, SourceFails, EndOfInput, Kill, batchVars
    <3>2. \A f \in Files : \E n \in 0 .. Len(input') : HoldsUpTo(Written(f), f, n)'
      BY <3>1, <1>1, <1>4, WrittenNext DEF FilesSound
    <3> QED
      BY <2>1, <2>2, <3>1, <3>2, <1>1
      DEF FilesSound, Open, ReadFails, SourceFails, EndOfInput, Kill, batchVars
  <2>3. CASE ~Open'
    BY <2>1, <2>3, <1>1 DEF FilesSound, Open, ReadFails, SourceFails, EndOfInput, Kill, batchVars
  <2> QED
    BY <2>2, <2>3
<1>6. TallySound'
  <2>1. CASE Open' /\ raising' = "none"
    <3>1. Open /\ raising = "none"
      BY <2>1 DEF Open, ReadFails, SourceFails, EndOfInput, Kill, batchVars
    <3>2. SeenSound' /\ SummarySound'
      BY <3>1, <1>1, <1>4 DEF TallySound, SeenSound, SummarySound, Written, Coded
    <3>3. LinesRead'
      <4>1. \A f \in Files : HoldsUpTo(Written(f), f, next - 1)'
        BY <3>1, <1>1, <1>4, WrittenNext DEF TallySound, LinesRead
      <4> QED
        BY <4>1, <3>1, <1>1 DEF TallySound, LinesRead
    <3>4. batch' \in {"closing", "last", "returned"} => next' = Len(input') + 1
      <4>1. CASE EndOfInput
        <5>1. next > Len(input) /\ next \in 1 .. Len(input) + 1 /\ Len(input) \in Nat
          BY <4>1, LenProperties DEF EndOfInput, BatchTypeOK
        <5>2. next = Len(input) + 1
          BY <5>1
        <5> QED
          BY <5>2, <1>1
      <4>2. CASE UNCHANGED batchVars
        BY <4>2, <3>1, <1>1 DEF batchVars, TallySound
      <4>3. CASE ReadFails \/ SourceFails \/ Kill
        BY <4>3, <2>1 DEF ReadFails, SourceFails, Kill
      <4> QED
        BY <4>1, <4>2, <4>3
    <3> QED
      BY <2>1, <3>2, <3>3, <3>4 DEF TallySound, Open
  <2>2. CASE ~(Open' /\ raising' = "none")
    BY <2>2, <1>1
    DEF TallySound, Open, ReadFails, SourceFails, EndOfInput, Kill, batchVars
  <2> QED
    BY <2>1, <2>2
<1> QED
  BY <1>2, <1>3, <1>5, <1>6

(* A line that reaches its stream: the file holds one line more.           *)
LEMMA StepProcess ==
  ASSUME BatchIInv, ProcessLine
  PROVE  BatchIInv'
<1> USE DEF BatchIInv
<1> PICK line : line = input[next]
  OBVIOUS
<1> PICK r : r = RecordFor(line)
  OBVIOUS
<1> DEFINE g == r.file
<1> PICK pending : pending = Append(buffer[g], r)
  OBVIOUS
<1>1. /\ input' = input /\ next' = next + 1 /\ batch' = "reading" /\ batch = "reading"
      /\ raising' = raising /\ raising = "none" /\ osFailed' = osFailed
      /\ next \in 1 .. Len(input) /\ Len(input) \in Nat /\ Open /\ Open'
      /\ line.kind \in {"order", "invalid"} /\ Tally(line)
  BY LenProperties DEF ProcessLine, Reading, FailuresSound, BatchTypeOK, Open
<1>2. SeenSound /\ SummarySound /\ LinesRead
  BY <1>1 DEF TallySound
<1>3. /\ r \in FileRecord /\ r.line = next
      /\ g = IF Accepted(line) THEN "valid" ELSE "rejected"
      /\ g = "rejected" => r.code = Code(line)
      /\ BelongsIn(g, next) /\ r = ExpectedRecord(g, next)
      /\ \A f \in Files \ {g} : ~BelongsIn(f, next)
  BY <1>2, RecordBelongs DEF ProcessLine
<1>4. g \in Files /\ disk[g] \in Seq(FileRecord) /\ buffer[g] \in Seq(FileRecord)
  BY <1>1, <1>3 DEF FilesSound, BatchTypeOK, Files
<1>5. pending \in Seq(FileRecord) /\ \E k \in 0 .. Len(pending) : Spill(g, pending, k, Len(pending))
  BY <1>3, <1>4 DEF ProcessLine
<1> HIDE DEF g
<1>6. /\ DOMAIN disk' = Files /\ buffer' \in [Files -> Seq(FileRecord)]
      /\ disk'[g] \in Seq(FileRecord) /\ Written(g) \in Seq(FileRecord)
      /\ Written(g)' = Append(Written(g), r)
      /\ \A f \in Files \ {g} : disk'[f] = disk[f] /\ Written(f)' = Written(f)
  <2>1. PICK k \in 0 .. Len(pending) : Spill(g, pending, k, Len(pending))
    BY <1>5
  <2>2. Len(pending) \in k .. Len(pending)
    BY <1>5, LenProperties
  <2>3. /\ DOMAIN disk' = Files /\ buffer' \in [Files -> Seq(FileRecord)]
        /\ disk'[g] \in Seq(FileRecord)
        /\ Written(g)' = SubSeq(disk[g] \o pending, 1, Len(disk[g]) + Len(pending))
        /\ \A f \in Files \ {g} : disk'[f] = disk[f] /\ Written(f)' = Written(f)
    BY <2>1, <2>2, <1>4, <1>5, SpillSplits
  <2>4. SubSeq(disk[g] \o pending, 1, Len(disk[g]) + Len(pending)) = disk[g] \o pending
    <3>1. \A d, b \in Seq(FileRecord) : SubSeq(d \o b, 1, Len(d) + Len(b)) = d \o b
      OBVIOUS
    <3> QED
      BY <3>1, <1>4, <1>5
  <2>5. disk[g] \o pending = Append(Written(g), r) /\ Written(g) \in Seq(FileRecord)
    <3>1. \A d, b \in Seq(FileRecord) :
            d \o Append(b, r) = Append(d \o b, r) /\ d \o b \in Seq(FileRecord)
      BY <1>3
    <3> QED
      BY <3>1, <1>4 DEF Written
  <2> QED
    BY <2>3, <2>4, <2>5
<1>7. \A f \in Files : disk'[f] \in Seq(FileRecord) /\ buffer'[f] \in Seq(FileRecord)
  BY <1>1, <1>4, <1>6 DEF FilesSound
<1>8. ASSUME NEW f \in Files PROVE HoldsUpTo(Written(f)', f, next)
  <2>1. HoldsUpTo(Written(f), f, next - 1) /\ next - 1 \in Nat /\ (next - 1) + 1 = next
    BY <1>1, <1>2 DEF LinesRead
  <2>2. Written(f) \in Seq(FileRecord)
    BY <1>1 DEF FilesSound, BatchTypeOK, Written
  <2>3. CASE f = g
    <3>1. HoldsUpTo(Append(Written(g), r), g, (next - 1) + 1)
      BY <2>1, <2>2, <2>3, <1>3, HoldsAppend
    <3> QED
      BY <3>1, <2>1, <2>3, <1>6
  <2>4. CASE f # g
    <3>1. HoldsUpTo(Written(f), f, (next - 1) + 1)
      BY <2>1, <2>2, <2>4, <1>3, HoldsSkip
    <3> QED
      BY <3>1, <2>1, <2>4, <1>6
  <2> QED
    BY <2>3, <2>4
<1>9. FilesSound'
  <2>1. next \in 0 .. Len(input)
    BY <1>1
  <2>2. /\ \A f \in Files :
             /\ disk'[f] \in Seq(FileRecord)
             /\ \E n \in 0 .. Len(input') : HoldsUpTo(Written(f), f, n)'
        /\ FilesHaveNoHoles'
    BY <1>1, <1>7, <1>8, <2>1, NoHolesNext
  <2> QED
    BY <1>1, <2>2 DEF FilesSound
<1>10. summary' \in [total : Nat, valid : Nat, rejected : Nat, errors : [Codes -> Nat]]
  <2> PICK c : c = Code(line) /\ c \in Codes
    BY CodesOfLines
  <2>1. summary.total \in Nat /\ summary.valid \in Nat /\ summary.rejected \in Nat
        /\ summary.errors \in [Codes -> Nat]
    BY DEF BatchTypeOK
  <2>2. CASE Accepted(line)
    <3>1. summary' = [total |-> summary.total + 1, valid |-> summary.valid + 1,
                      rejected |-> summary.rejected, errors |-> summary.errors]
      BY <2>2, <1>1 DEF Tally, BatchTypeOK
    <3> QED
      BY <2>1, <3>1
  <2>3. CASE ~Accepted(line)
    <3>1. summary' = [summary EXCEPT !.total = @ + 1, !.rejected = @ + 1, !.errors[c] = @ + 1]
      BY <2>3, <1>1 DEF Tally
    <3>2. [summary.errors EXCEPT ![c] = @ + 1] \in [Codes -> Nat]
      BY <2>1
    <3>3. summary' = [total |-> summary.total + 1, valid |-> summary.valid,
                      rejected |-> summary.rejected + 1,
                      errors |-> [summary.errors EXCEPT ![c] = @ + 1]]
      BY <3>1 DEF BatchTypeOK
    <3> QED
      BY <2>1, <3>2, <3>3
  <2> QED
    BY <2>2, <2>3
<1>11. BatchTypeOK'
  <2>1. next + 1 \in 1 .. Len(input) + 1
    BY <1>1
  <2> QED
    BY <2>1, <1>1, <1>6, <1>10 DEF BatchTypeOK
<1>12. LinesRead'
  <2>1. ASSUME NEW f \in Files PROVE HoldsUpTo(Written(f), f, next - 1)'
    <3>2. next' - 1 = next
      BY <1>1
    <3>3. HoldsUpTo(Written(f)', f, next' - 1)
      BY <1>8, <3>2
    <3> QED
      BY <3>3, <1>1 DEF HoldsUpTo, BelongsIn, Readable, FirstOf, BadLines, Undecodable,
           TooLarge, ExpectedRecord, Code, RejectionCode
  <2> QED
    BY <2>1, <1>1, <1>2 DEF LinesRead
<1>13. SeenSound'
  BY <1>1, <1>2 DEF SeenSound, Tally, Accepted, Duplicate
<1>14. SummarySound'
  <2>1. Code(line) \in Codes
    BY CodesOfLines
  <2>2. /\ Len(Written("valid")) \in Nat /\ Len(Written("rejected")) \in Nat
        /\ Len(Written(g))' = Len(Written(g)) + 1
    <3>1. \A f \in Files : Written(f) \in Seq(FileRecord)
      BY <1>1 DEF FilesSound, BatchTypeOK, Written
    <3> QED
      BY <3>1, <1>3, <1>6, LenProperties DEF Files
  <2>3. CASE Accepted(line)
    <3>1. Written("rejected")' = Written("rejected") /\ g = "valid"
      BY <2>3, <1>3, <1>6 DEF Files
    <3>2. /\ summary'.total = summary.total + 1 /\ summary'.valid = summary.valid + 1
          /\ summary'.rejected = summary.rejected /\ summary'.errors = summary.errors
      BY <2>3, <1>1 DEF Tally, BatchTypeOK
    <3> QED
      BY <3>1, <3>2, <2>2, <1>1, <1>2 DEF SummarySound, Coded, BatchTypeOK
  <2>4. CASE ~Accepted(line)
    <3>1. Written("valid")' = Written("valid") /\ g = "rejected" /\ r.code = Code(line)
      BY <2>4, <1>3, <1>6 DEF Files
    <3>2. /\ summary'.total = summary.total + 1 /\ summary'.valid = summary.valid
          /\ summary'.rejected = summary.rejected + 1
          /\ \A c \in Codes : summary'.errors[c]
               = IF c = Code(line) THEN summary.errors[c] + 1 ELSE summary.errors[c]
      <4> PICK e : e = Code(line) /\ e \in Codes
        BY <2>1
      <4>1. summary' = [summary EXCEPT !.total = @ + 1, !.rejected = @ + 1, !.errors[e] = @ + 1]
        BY <2>4, <1>1 DEF Tally
      <4>2. summary'.errors = [summary.errors EXCEPT ![e] = @ + 1]
        BY <4>1 DEF BatchTypeOK
      <4>3. summary.errors \in [Codes -> Nat]
        BY DEF BatchTypeOK
      <4>4. \A c \in Codes : summary'.errors[c]
               = IF c = Code(line) THEN summary.errors[c] + 1 ELSE summary.errors[c]
        BY <4>2, <4>3
      <4> QED
        BY <4>1, <4>4 DEF BatchTypeOK
    <3>3. ASSUME NEW c \in Codes
          PROVE  summary'.errors[c] = Cardinality(Coded(Written("rejected")', c))
      <4>1. /\ Cardinality(Coded(Written(g), c)) \in Nat
            /\ Cardinality(Coded(Append(Written(g), r), c))
                 = IF r.code = c THEN Cardinality(Coded(Written(g), c)) + 1
                                 ELSE Cardinality(Coded(Written(g), c))
        BY <1>3, <1>6, CodedGrows
      <4>2. summary.errors[c] = Cardinality(Coded(Written("rejected"), c))
        BY <1>2 DEF SummarySound
      <4> QED
        BY <4>1, <4>2, <3>1, <3>2, <1>6
    <3> QED
      BY <3>1, <3>2, <3>3, <2>2, <1>1, <1>2 DEF SummarySound, Coded, BatchTypeOK
  <2> QED
    BY <2>3, <2>4
<1>15. TallySound'
  BY <1>1, <1>12, <1>13, <1>14 DEF TallySound
<1>16. FailuresSound'
  BY <1>1 DEF FailuresSound, BadLines, Undecodable, TooLarge
<1> QED
  BY <1>9, <1>11, <1>15, <1>16

(* A write or a close that fails leaves a prefix of what was written.      *)
LEMMA StepWriteFails ==
  ASSUME BatchIInv, WriteFails
  PROVE  BatchIInv'
<1> USE DEF BatchIInv
<1> PICK line : line = input[next]
  OBVIOUS
<1> PICK r : r = RecordFor(line)
  OBVIOUS
<1> DEFINE g == r.file
<1> PICK pending : pending = Append(buffer[g], r)
  OBVIOUS
<1>1. /\ input' = input /\ next' = next + 1 /\ batch' = "closing" /\ batch = "reading"
      /\ raising' = "OutputWriteError" /\ raising = "none" /\ osFailed' = TRUE
      /\ seen' = seen /\ summary' = summary
      /\ next \in 1 .. Len(input) /\ Len(input) \in Nat /\ Open /\ Open'
  BY LenProperties
  DEF WriteFails, Reading, FailuresSound, BatchTypeOK, Open, AfterFailedWrite, tally
<1>2. SeenSound /\ LinesRead
  BY <1>1 DEF TallySound
<1>3. r \in FileRecord /\ g \in Files /\ BelongsIn(g, next) /\ r = ExpectedRecord(g, next)
  BY <1>2, RecordBelongs DEF WriteFails, FileRecord
<1>4. disk[g] \in Seq(FileRecord) /\ buffer[g] \in Seq(FileRecord)
  BY <1>1, <1>3 DEF FilesSound, BatchTypeOK
<1>5. /\ pending \in Seq(FileRecord)
      /\ \E k \in 0 .. Len(pending) : \E m \in k .. Len(pending) : Spill(g, pending, k, m)
  BY <1>3, <1>4 DEF WriteFails
<1> HIDE DEF g
<1> PICK k \in 0 .. Len(pending) : \E m \in k .. Len(pending) : Spill(g, pending, k, m)
  BY <1>5
<1>6. PICK m \in k .. Len(pending) : Spill(g, pending, k, m)
  OBVIOUS
<1>7. /\ DOMAIN disk' = Files /\ buffer' \in [Files -> Seq(FileRecord)]
      /\ disk'[g] \in Seq(FileRecord)
      /\ Written(g)' = SubSeq(disk[g] \o pending, 1, Len(disk[g]) + m)
      /\ \A f \in Files \ {g} : disk'[f] = disk[f] /\ Written(f)' = Written(f)
  BY <1>3, <1>4, <1>5, <1>6, SpillSplits
<1>8. /\ disk[g] \o pending = Append(Written(g), r) /\ Written(g) \in Seq(FileRecord)
      /\ Len(disk[g]) + m \in 0 .. Len(disk[g] \o pending)
  <2>1. \A d, b \in Seq(FileRecord) :
          d \o Append(b, r) = Append(d \o b, r) /\ d \o b \in Seq(FileRecord)
    BY <1>3
  <2>2. Len(disk[g] \o pending) = Len(disk[g]) + Len(pending)
    BY <1>4, <1>5, ConcatProperties
  <2>3. Len(disk[g]) \in Nat /\ Len(pending) \in Nat /\ m \in 0 .. Len(pending)
    BY <1>4, <1>5, LenProperties
  <2>4. Len(disk[g]) + m \in 0 .. Len(disk[g] \o pending)
    <3>1. \A x, y \in Nat : \A z \in 0 .. y : x + z \in 0 .. x + y
      OBVIOUS
    <3> QED
      BY <2>2, <2>3, <3>1
  <2>5. disk[g] \o pending = Append(Written(g), r) /\ Written(g) \in Seq(FileRecord)
    BY <2>1, <1>4 DEF Written
  <2> QED
    BY <2>4, <2>5
<1>9. ASSUME NEW f \in Files PROVE \E n \in 0 .. Len(input) : HoldsUpTo(Written(f)', f, n)
  <2>1. HoldsUpTo(Written(f), f, next - 1) /\ next - 1 \in Nat /\ (next - 1) + 1 = next
    BY <1>1, <1>2 DEF LinesRead
  <2>2. CASE f = g
    <3> PICK w : w = Append(Written(g), r)
      OBVIOUS
    <3> PICK l : l = Len(disk[g]) + m
      OBVIOUS
    <3>1. HoldsUpTo(w, g, (next - 1) + 1) /\ w \in Seq(FileRecord)
      BY <2>1, <2>2, <1>3, <1>8, HoldsAppend
    <3>2. l \in 0 .. Len(w)
      BY <1>8
    <3> PICK n : n = next /\ n \in Nat /\ HoldsUpTo(w, g, n)
      BY <3>1, <2>1, <1>1
    <3>3. \E i \in 0 .. n : HoldsUpTo(SubSeq(w, 1, l), g, i)
      BY <3>1, <3>2, HoldsPrefix
    <3>4. Written(f)' = SubSeq(w, 1, l)
      BY <1>7, <1>8, <2>2
    <3>5. PICK i \in 0 .. n : HoldsUpTo(SubSeq(w, 1, l), g, i)
      BY <3>3
    <3>6. i \in 0 .. Len(input)
      BY <1>1
    <3> QED
      BY <3>4, <3>5, <3>6, <2>2
  <2>3. CASE f # g
    BY <2>1, <2>3, <1>1, <1>7
  <2> QED
    BY <2>2, <2>3
<1>10. FilesSound'
  <2>1. \A f \in Files : disk'[f] \in Seq(FileRecord) /\ buffer'[f] \in Seq(FileRecord)
    BY <1>1, <1>7 DEF FilesSound
  <2>2. /\ \A f \in Files :
             /\ disk'[f] \in Seq(FileRecord)
             /\ \E n \in 0 .. Len(input') : HoldsUpTo(Written(f), f, n)'
        /\ FilesHaveNoHoles'
    BY <1>1, <1>9, <2>1, NoHolesNext
  <2> QED
    BY <1>1, <2>2 DEF FilesSound
<1>11. BatchTypeOK'
  <2>1. next + 1 \in 1 .. Len(input) + 1
    BY <1>1
  <2> QED
    BY <2>1, <1>1, <1>7 DEF BatchTypeOK, Exceptions
<1>12. TallySound' /\ FailuresSound'
  BY <1>1 DEF TallySound, FailuresSound
<1> QED
  BY <1>10, <1>11, <1>12

LEMMA StepClose ==
  ASSUME BatchIInv, NEW f \in Files, CloseFile(f) \/ CloseFails(f)
  PROVE  BatchIInv'
<1> USE DEF BatchIInv
<1> PICK b : b = buffer[f]
  OBVIOUS
<1>1. /\ input' = input /\ next' = next /\ seen' = seen /\ summary' = summary
      /\ batch = IF f = "rejected" THEN "closing" ELSE "last"
      /\ Open /\ Len(input) \in Nat /\ disk[f] \in Seq(FileRecord) /\ b \in Seq(FileRecord)
      /\ batch' = AfterClose(f, raising')
  BY LenProperties
  DEF CloseFile, CloseFails, Closing, Open, FilesSound, BatchTypeOK, tally
<1> PICK k \in 0 .. Len(b) : \E m \in k .. Len(b) :
        /\ Spill(f, b, k, m) /\ SubSeq(b, k + 1, m) = <<>>
        /\ CloseFile(f) => m = Len(b)
  <2>1. CASE CloseFile(f)
    <3>1. Spill(f, b, Len(b), Len(b))
      BY <2>1 DEF CloseFile
    <3>2. Len(b) \in 0 .. Len(b) /\ Len(b) \in Len(b) .. Len(b)
          /\ SubSeq(b, Len(b) + 1, Len(b)) = <<>>
      BY <1>1, LenProperties, SubSeqEmpty
    <3> QED
      BY <3>1, <3>2
  <2>2. CASE ~CloseFile(f)
    <3>1. PICK k \in 0 .. Len(b) : Spill(f, b, k, k)
      BY <2>2 DEF CloseFails
    <3>2. k \in k .. Len(b) /\ SubSeq(b, k + 1, k) = <<>>
      BY <1>1, LenProperties, SubSeqEmpty
    <3> QED
      BY <3>1, <3>2, <2>2
  <2> QED
    BY <2>1, <2>2
<1>2. PICK m \in k .. Len(b) :
        /\ Spill(f, b, k, m) /\ SubSeq(b, k + 1, m) = <<>>
        /\ CloseFile(f) => m = Len(b)
  OBVIOUS
<1>3. /\ DOMAIN disk' = Files /\ buffer' \in [Files -> Seq(FileRecord)]
      /\ disk'[f] \in Seq(FileRecord)
      /\ Written(f)' = SubSeq(disk[f] \o b, 1, Len(disk[f]) + m) /\ buffer'[f] = <<>>
      /\ \A g \in Files \ {f} :
           disk'[g] = disk[g] /\ buffer'[g] = buffer[g] /\ Written(g)' = Written(g)
  <2>1. /\ DOMAIN disk' = Files /\ buffer' \in [Files -> Seq(FileRecord)]
        /\ disk'[f] \in Seq(FileRecord)
        /\ Written(f)' = SubSeq(disk[f] \o b, 1, Len(disk[f]) + m)
        /\ buffer'[f] = SubSeq(b, k + 1, m)
        /\ \A g \in Files \ {f} :
             disk'[g] = disk[g] /\ buffer'[g] = buffer[g] /\ Written(g)' = Written(g)
    BY <1>1, <1>2, SpillSplits
  <2> QED
    BY <2>1, <1>2
<1>4. /\ disk[f] \o b = Written(f) /\ Written(f) \in Seq(FileRecord)
      /\ Len(disk[f]) + m \in 0 .. Len(Written(f))
      /\ m = Len(b) => Written(f)' = Written(f)
  <2>1. \A d, p \in Seq(FileRecord) :
          /\ d \o p \in Seq(FileRecord) /\ Len(d \o p) = Len(d) + Len(p)
          /\ SubSeq(d \o p, 1, Len(d) + Len(p)) = d \o p
    OBVIOUS
  <2>2. Len(disk[f]) \in Nat /\ Len(b) \in Nat /\ m \in 0 .. Len(b)
    BY <1>1, LenProperties
  <2>3. Written(f) = disk[f] \o b
    BY DEF Written
  <2>4. /\ Written(f) \in Seq(FileRecord) /\ Len(Written(f)) = Len(disk[f]) + Len(b)
        /\ SubSeq(disk[f] \o b, 1, Len(disk[f]) + Len(b)) = Written(f)
    BY <2>1, <2>3, <1>1
  <2>5. Len(disk[f]) + m \in 0 .. Len(Written(f))
    <3>1. \A x, y \in Nat : \A z \in 0 .. y : x + z \in 0 .. x + y
      OBVIOUS
    <3> QED
      BY <2>2, <2>4, <3>1
  <2> QED
    BY <2>3, <2>4, <2>5, <1>3
<1>5. ASSUME NEW g \in Files PROVE \E n \in 0 .. Len(input) : HoldsUpTo(Written(g)', g, n)
  <2>1. PICK n \in 0 .. Len(input) : HoldsUpTo(Written(g), g, n)
    BY <1>1 DEF FilesSound
  <2>2. CASE g = f
    <3> PICK w : w = Written(f)
      OBVIOUS
    <3> PICK l : l = Len(disk[f]) + m
      OBVIOUS
    <3>1. \E i \in 0 .. n : HoldsUpTo(SubSeq(w, 1, l), g, i)
      BY <2>1, <2>2, <1>1, <1>4, HoldsPrefix
    <3>2. Written(g)' = SubSeq(w, 1, l)
      BY <1>3, <1>4, <2>2
    <3> QED
      BY <3>1, <3>2, <1>1
  <2>3. CASE g # f
    BY <2>1, <2>3, <1>3
  <2> QED
    BY <2>2, <2>3
<1>6. BatchTypeOK'
  BY <1>1, <1>3
  DEF BatchTypeOK, CloseFile, CloseFails, AfterClose, AfterFailedClose, Exceptions, Files
<1>7. FilesSound'
  <2>1. \A g \in Files : disk'[g] \in Seq(FileRecord) /\ buffer'[g] \in Seq(FileRecord)
    BY <1>1, <1>3 DEF FilesSound
  <2>2. /\ \A g \in Files :
             /\ disk'[g] \in Seq(FileRecord)
             /\ \E n \in 0 .. Len(input') : HoldsUpTo(Written(g), g, n)'
        /\ FilesHaveNoHoles'
    BY <1>1, <1>5, <2>1, NoHolesNext
  <2>3. batch' \in {"last", "returned", "raised"} /\ buffer'["rejected"] = <<>>
    BY <1>1, <1>3 DEF AfterClose, Files, FilesSound
  <2>4. batch' = "returned" => buffer'["valid"] = <<>>
    BY <1>1, <1>3 DEF AfterClose, Files
  <2> QED
    BY <2>2, <2>3, <2>4 DEF FilesSound
<1>8. TallySound'
  <2>1. batch' \in {"last", "returned", "raised"}
    BY <1>1 DEF AfterClose
  <2>2. CASE raising' = "none"
    <3>1. CloseFile(f) /\ raising = "none"
      BY <2>2 DEF CloseFile, CloseFails, AfterFailedClose
    <3>2. \A g \in Files : Written(g)' = Written(g)
      BY <3>1, <1>2, <1>3, <1>4
    <3>3. SeenSound /\ SummarySound /\ LinesRead /\ next = Len(input) + 1
      BY <3>1, <1>1 DEF TallySound, Open
    <3>4. SeenSound'
      BY <3>3, <1>1 DEF SeenSound
    <3>5. SummarySound'
      BY <3>2, <3>3, <1>1 DEF SummarySound, Coded, Files
    <3>6. LinesRead'
      <4>1. \A g \in Files : HoldsUpTo(Written(g)', g, next - 1)
        BY <3>2, <3>3 DEF LinesRead
      <4>2. \A g \in Files : HoldsUpTo(Written(g), g, next - 1)'
        BY <4>1, <1>1 DEF HoldsUpTo, BelongsIn, Readable, FirstOf, BadLines, Undecodable,
           TooLarge, ExpectedRecord, Code, RejectionCode
      <4> QED
        BY <4>2, <3>3, <1>1 DEF LinesRead
    <3> QED
      BY <2>1, <3>3, <3>4, <3>5, <3>6, <1>1 DEF TallySound
  <2>3. CASE raising' # "none"
    BY <2>1, <2>3 DEF TallySound
  <2> QED
    BY <2>2, <2>3
<1>9. FailuresSound'
  <2>1. BadLines' = BadLines
    BY <1>1 DEF BadLines, Undecodable, TooLarge
  <2>2. batch' \in {"last", "returned", "raised"}
        /\ (batch' = "returned" => raising' = "none") /\ (batch' = "raised" => raising' # "none")
    BY <1>1 DEF AfterClose
  <2> QED
    BY <2>1, <2>2 DEF FailuresSound, CloseFile, CloseFails, AfterFailedClose
<1> QED
  BY <1>6, <1>7, <1>8, <1>9

-----------------------------------------------------------------------------
(* The results.                                                            *)

LEMMA BatchIInvInit == BatchInit => BatchIInv
<1> SUFFICES ASSUME BatchInit PROVE BatchIInv
  OBVIOUS
<1>1. input \in Seq(Lines) /\ Len(input) \in Nat
  <2>1. PICK n \in 0 .. MaxLines : input \in [1 .. n -> Lines]
    BY DEF BatchInit
  <2> QED
    BY <2>1, BatchAssumption
<1>2. <<>> \in Seq(FileRecord)
  BY EmptySeq
<1>3. BatchTypeOK
  <2>1. /\ input \in Seq(Lines) /\ next \in 1 .. Len(input) + 1 /\ DOMAIN disk = Files
        /\ batch = "start" /\ raising = "none" /\ osFailed \in BOOLEAN
    <3>1. 1 \in 1 .. Len(input) + 1
      BY <1>1
    <3> QED
      BY <1>1, <3>1 DEF BatchInit
  <2>2. buffer \in [Files -> Seq(FileRecord)]
    BY <1>2 DEF BatchInit
  <2>3. summary \in [total : Nat, valid : Nat, rejected : Nat, errors : [Codes -> Nat]]
    BY DEF BatchInit
  <2> QED
    BY <2>1, <2>2, <2>3 DEF BatchTypeOK
<1>4. FilesSound
  BY DEF BatchInit, FilesSound, Open, FilesHaveNoHoles, Truncated
<1>5. TallySound /\ FailuresSound
  BY DEF BatchInit, TallySound, FailuresSound, Open
<1> QED
  BY <1>3, <1>4, <1>5 DEF BatchIInv

LEMMA BatchIInvNext == BatchIInv /\ [BatchNext]_batchVars => BatchIInv'
<1> SUFFICES ASSUME BatchIInv, [BatchNext]_batchVars PROVE BatchIInv'
  OBVIOUS
<1>1. CASE OpenFiles \/ OpenFails
  BY <1>1, StepOpen
<1>2. CASE ProcessLine
  BY <1>2, StepProcess
<1>3. CASE WriteFails
  BY <1>3, StepWriteFails
<1>4. CASE \E f \in Files : CloseFile(f) \/ CloseFails(f)
  BY <1>4, StepClose
<1>5. CASE ReadFails \/ SourceFails \/ EndOfInput \/ Kill \/ Ended \/ UNCHANGED batchVars
  BY <1>5, StepQuiet DEF Ended
<1> QED
  BY <1>1, <1>2, <1>3, <1>4, <1>5 DEF BatchNext

(* What was written, on disk or in a buffer, is all of the lines read, and *)
(* the summary counts it, whatever the lines are and wherever it ends.     *)
THEOREM BatchInvariant == BatchSpec => []BatchIInv
  BY BatchIInvInit, BatchIInvNext, PTL DEF BatchSpec

LEMMA BatchIsTruthful == BatchIInv => FilesTruthful
<1> SUFFICES ASSUME BatchIInv PROVE FilesTruthful
  OBVIOUS
<1> USE DEF BatchIInv
<1>1. ReturnedIsComplete
  <2> SUFFICES ASSUME batch = "returned" PROVE ReturnedIsComplete
    BY DEF ReturnedIsComplete
  <2>1. SummarySound /\ LinesRead /\ next = Len(input) + 1 /\ Len(input) \in Nat
    BY LenProperties DEF TallySound, FailuresSound, Open, BatchTypeOK
  <2>2. ASSUME NEW f \in Files PROVE Written(f) = disk[f]
    <3>1. buffer[f] = <<>> /\ disk[f] \in Seq(FileRecord)
      BY DEF FilesSound, Open, Files
    <3> QED
      BY <3>1, ConcatEmptySeq DEF Written
  <2>3. ASSUME NEW f \in Files PROVE HoldsUpTo(disk[f], f, Len(input))
    <3>1. next - 1 = Len(input)
      BY <2>1
    <3> QED
      BY <2>1, <2>2, <3>1 DEF LinesRead
  <2> QED
    BY <2>1, <2>2, <2>3 DEF ReturnedIsComplete, SummarySound, Coded, Files
<1>2. FilesHaveNoHoles
  BY DEF FilesSound
<1> QED
  BY <1>1, <1>2 DEF FilesTruthful

(* A batch that returns has put every line in its file, in order and with  *)
(* its reason, and counts what is on disk; a file never has a hole.        *)
THEOREM FilesAreTruthful == BatchSpec => []FilesTruthful
<1>1. BatchSpec => []BatchIInv
  BY BatchInvariant
<1> QED
  BY <1>1, BatchIsTruthful, PTL

LEMMA BatchTellsFailures == BatchIInv => FailuresAreTold
<1> SUFFICES ASSUME BatchIInv PROVE FailuresAreTold
  OBVIOUS
<1> USE DEF BatchIInv
<1>1. ASSUME batch = "returned" PROVE ~osFailed /\ BadLines = {}
  <2>1. raising = "none" /\ ~osFailed
    BY <1>1 DEF FailuresSound
  <2>2. LinesRead /\ next - 1 = Len(input)
    <3>1. LinesRead /\ next = Len(input) + 1 /\ Len(input) \in Nat
      BY <1>1, <2>1, LenProperties DEF TallySound, Open, BatchTypeOK
    <3> QED
      BY <3>1
  <2>3. \A k \in DOMAIN input : input[k].kind \in {"order", "invalid"}
    BY <2>2, LenProperties DEF LinesRead, BatchTypeOK
  <2> QED
    BY <2>1, <2>3 DEF BadLines, Undecodable, TooLarge
<1>2. ASSUME batch = "raised"
      PROVE  /\ raising \in {"OutputWriteError", "OSError"} <=> osFailed
             /\ raising = "DataError" => BadLines # {}
  BY <1>2 DEF FailuresSound
<1> QED
  BY <1>1, <1>2 DEF FailuresAreTold

(* A batch returns only if the system refused nothing and no line raised;  *)
(* what it raises tells which of the two it was.                           *)
THEOREM FailuresAreKnown == BatchSpec => []FailuresAreTold
<1>1. BatchSpec => []BatchIInv
  BY BatchInvariant
<1> QED
  BY <1>1, BatchTellsFailures, PTL

-----------------------------------------------------------------------------
(* The log: what each partition holds, and what a reader of it has got.    *)

Deliveries == [event : Events, partition : Partitions, offset : Nat]

(* Every variable has its type, and a log is finite.                       *)
LogTypeOK ==
  /\ partitionOf \in [Orders -> Partitions] /\ log \in [Partitions -> Seq(Events)]
  /\ committed \in [Partitions -> Nat] /\ position \in [Partitions -> Nat]
  /\ step \in {"new", "produce", "live", "resume", "replay", "done", "raised"}
  /\ repeats \in Nat /\ resumedAtEnd \in BOOLEAN
  /\ produced \in Seq(Deliveries) /\ consumed \in Seq(Deliveries) /\ replayed \in Seq(Deliveries)
  /\ IsFiniteSet(Records)

InLog(d) == d.offset < Len(log[d.partition]) /\ log[d.partition][d.offset + 1] = d.event

(* The producer has sent the first events, each to the partition of its    *)
(* order; a partition holds them in the order of Published, and holds one  *)
(* twice only if its answer was lost.                                      *)
ProducedSound ==
  /\ Len(produced) <= Len(Published)
  /\ \A i \in DOMAIN produced :
       /\ produced[i].event = Published[i] /\ InLog(produced[i])
       /\ produced[i].partition = partitionOf[Published[i].order]
LogSound ==
  /\ Cardinality(Records) = Len(produced) + repeats
  /\ \A p \in Partitions : \A k \in 1 .. Len(log[p]) :
       /\ partitionOf[log[p][k].order] = p
       /\ IndexOf(log[p][k]) <= Len(produced) + (IF repeats = 0 THEN 0 ELSE 1)
       /\ \A l \in k + 1 .. Len(log[p]) :
            /\ IndexOf(log[p][k]) <= IndexOf(log[p][l])
            /\ repeats = 0 => IndexOf(log[p][k]) < IndexOf(log[p][l])

HasRead(ds, p, k) ==
  [event |-> log[p][k], partition |-> p, offset |-> k - 1] \in {ds[i] : i \in DOMAIN ds}
ReadFromLog(ds) ==
  /\ \A i \in DOMAIN ds : InLog(ds[i])
  /\ \A i, j \in DOMAIN ds :
       i < j /\ ds[i].partition = ds[j].partition => ds[i].offset < ds[j].offset
Complete(ds) == \A p \in Partitions : \A k \in 1 .. Len(log[p]) : HasRead(ds, p, k)

(* A reader has got what is before its position, and nothing twice.        *)
Beyond(at) == {r \in Records : r[2] > at[r[1]]}
ReadUpTo(ds, at) ==
  /\ ReadFromLog(ds)
  /\ \A i \in DOMAIN ds : ds[i].offset < at[ds[i].partition]
  /\ \A p \in Partitions : at[p] <= Len(log[p]) /\ \A k \in 1 .. at[p] : HasRead(ds, p, k)
  /\ Cardinality(Beyond(at)) = Cardinality(Records) - Len(ds)

ReaderDone(ds) ==
  Len(ds) = Len(Published) /\ ReadFromLog(ds) /\ (repeats = 0 => Complete(ds))

Consuming == step \in {"live", "resume", "replay", "done"}
ReadersSound ==
  /\ step \in {"new", "produce", "live"} => committed = Earliest
  /\ step \in {"new", "produce"} => consumed = <<>>
  /\ step \in {"new", "produce", "live", "resume"} => replayed = <<>>
  /\ Consuming => Len(produced) = Len(Published)
  /\ step = "live" => ReadUpTo(consumed, position)
  /\ Consuming /\ step # "live" => ReaderDone(consumed)
  /\ step = "resume" /\ repeats = 0 => \A p \in Partitions : ~Unread(p)
  /\ step = "replay" => ReadUpTo(replayed, position)
  /\ step = "done" => ReaderDone(replayed)
  /\ step \in {"replay", "done"} /\ repeats = 0 => resumedAtEnd

LogIInv == LogTypeOK /\ ProducedSound /\ LogSound /\ ReadersSound /\ CommittedWasRead

-----------------------------------------------------------------------------
(* The events.                                                             *)

LEMMA PublishedFacts ==
  /\ Published \in Seq(Events) /\ Len(Published) \in Nat /\ DOMAIN Published = 1 .. Len(Published)
  /\ \A i \in DOMAIN Published :
       Published[i] \in Events /\ Published[i].order \in Orders /\ IndexOf(Published[i]) = i
  /\ \A e \in Events :
       e.order \in Orders /\ IndexOf(e) \in DOMAIN Published /\ Published[IndexOf(e)] = e
  /\ IsFiniteSet(Events) /\ Cardinality(Events) = Len(Published)
<1> DEFINE n == Len(Published)
<1>1. n \in Nat /\ DOMAIN Published = 1 .. n
  BY LogAssumption, LenProperties
<1>2. \A i \in DOMAIN Published : Published[i] \in Events /\ Published[i].order \in Orders
  BY DEF Events, Orders
<1>3. ASSUME NEW i \in DOMAIN Published PROVE IndexOf(Published[i]) = i
  <2>1. \A j \in DOMAIN Published : Published[j] = Published[i] => j = i
    BY LogAssumption
  <2> QED
    BY <2>1 DEF IndexOf
<1>4. ASSUME NEW e \in Events
      PROVE  e.order \in Orders /\ IndexOf(e) \in DOMAIN Published /\ Published[IndexOf(e)] = e
  <2>1. PICK i \in DOMAIN Published : Published[i] = e
    BY DEF Events
  <2> QED
    BY <2>1, <1>2, <1>3
<1>5. Published \in Seq(Events)
  <2>1. PICK S : Published \in Seq(S)
    BY LogAssumption
  <2>2. Published = [i \in 1 .. n |-> Published[i]]
    BY <2>1, <1>1
  <2>3. \A i \in 1 .. n : Published[i] \in Events
    BY <1>1, <1>2
  <2>4. [i \in 1 .. n |-> Published[i]] \in Seq(Events)
    BY <1>1, <2>3
  <2> QED
    BY <2>2, <2>4
<1>6. IsFiniteSet(Events) /\ Cardinality(Events) = n
  <2> DEFINE f == [i \in 1 .. n |-> Published[i]]
  <2>1. f \in Bijection(1 .. n, Events)
    <3>1. f \in [1 .. n -> Events]
      BY <1>1, <1>2
    <3>2. \A i, j \in 1 .. n : f[i] = f[j] => i = j
      BY <1>1, <1>3
    <3>3. \A e \in Events : \E i \in 1 .. n : f[i] = e
      BY <1>1, <1>4
    <3> QED
      BY <3>1, <3>2, <3>3 DEF Bijection, Injection, Surjection, IsInjective
  <2>2. IsFiniteSet(1 .. n) /\ Cardinality(1 .. n) = n
    <3>1. \A m \in Nat : IsFiniteSet(1 .. m) /\ Cardinality(1 .. m) = IF 1 > m THEN 0 ELSE m - 1 + 1
      BY FS_Interval
    <3>2. \A m \in Nat : (IF 1 > m THEN 0 ELSE m - 1 + 1) = m
      OBVIOUS
    <3> QED
      BY <3>1, <3>2, <1>1
  <2> QED
    BY <2>1, <2>2, FS_Bijection DEF ExistsBijection
<1> QED
  BY <1>1, <1>2, <1>3, <1>4, <1>5, <1>6

-----------------------------------------------------------------------------
(* What the producer does to the log.                                      *)

LEMMA LogGrows ==
  ASSUME LogTypeOK, NEW p \in Partitions, NEW e \in Events,
         log' = [log EXCEPT ![p] = Append(@, e)]
  PROVE  /\ log' \in [Partitions -> Seq(Events)]
         /\ IsFiniteSet(Records') /\ Cardinality(Records') = Cardinality(Records) + 1
         /\ Len(log[p]) \in Nat /\ Len(log'[p]) = Len(log[p]) + 1 /\ log'[p][Len(log[p]) + 1] = e
         /\ \A k \in 1 .. Len(log[p]) : log'[p][k] = log[p][k]
         /\ \A q \in Partitions \ {p} : log'[q] = log[q]
         /\ \A d \in Deliveries : InLog(d) => InLog(d)'
<1>1. log[p] \in Seq(Events) /\ Len(log[p]) \in Nat
  BY LenProperties DEF LogTypeOK
<1>2. /\ log' \in [Partitions -> Seq(Events)] /\ log'[p] = Append(log[p], e)
      /\ \A q \in Partitions \ {p} : log'[q] = log[q]
  BY <1>1 DEF LogTypeOK
<1>3. /\ Len(log'[p]) = Len(log[p]) + 1 /\ log'[p][Len(log[p]) + 1] = e
      /\ \A k \in 1 .. Len(log[p]) : log'[p][k] = log[p][k]
  BY <1>1, <1>2, AppendProperties
<1>4. /\ Records' = Records \union {<<p, Len(log[p]) + 1>>}
      /\ <<p, Len(log[p]) + 1>> \notin Records
  <2>1. 1 .. Len(log[p]) + 1 = (1 .. Len(log[p])) \union {Len(log[p]) + 1}
    BY <1>1
  <2>2. <<p, Len(log[p]) + 1>> \notin Records
    BY <1>1 DEF Records
  <2>3. ASSUME NEW r PROVE r \in Records' <=> r \in Records \union {<<p, Len(log[p]) + 1>>}
    <3>1. r \in Records' <=> \E q \in Partitions : \E k \in 1 .. Len(log'[q]) : r = <<q, k>>
      BY DEF Records
    <3>2. r \in Records <=> \E q \in Partitions : \E k \in 1 .. Len(log[q]) : r = <<q, k>>
      BY DEF Records
    <3> QED
      BY <3>1, <3>2, <2>1, <1>2, <1>3
  <2> QED
    BY <2>2, <2>3
<1>5. IsFiniteSet(Records') /\ Cardinality(Records') = Cardinality(Records) + 1
  BY <1>4, FS_AddElement DEF LogTypeOK
<1>6. ASSUME NEW d \in Deliveries, InLog(d) PROVE InLog(d)'
  <2>1. CASE d.partition = p
    <3>1. d.offset \in Nat /\ d.offset < Len(log[p]) /\ log[p][d.offset + 1] = d.event
      BY <1>6, <2>1 DEF InLog, Deliveries
    <3>2. d.offset + 1 \in 1 .. Len(log[p]) /\ d.offset < Len(log[p]) + 1
      BY <3>1, <1>1
    <3> QED
      BY <3>1, <3>2, <2>1, <1>3 DEF InLog
  <2>2. CASE d.partition # p
    BY <2>2, <1>2, <1>6 DEF InLog, Deliveries
  <2> QED
    BY <2>1, <2>2
<1> QED
  BY <1>1, <1>2, <1>3, <1>5, <1>6

(* An event added at the end of its partition is the last of those sent.   *)
LEMMA SendKeepsLog ==
  ASSUME LogTypeOK, ProducedSound, LogSound, NEW p \in Partitions, Len(produced) < Len(Published),
         p = partitionOf[ToSend.order], log' = [log EXCEPT ![p] = Append(@, ToSend)],
         UNCHANGED partitionOf,
         \/ repeats' = repeats /\ Len(produced') = Len(produced) + 1
         \/ repeats' = repeats + 1 /\ Len(produced') = Len(produced)
  PROVE  LogSound'
<1> PICK e : e = ToSend
  OBVIOUS
<1> PICK n : n = Len(produced)
  OBVIOUS
<1>1. n \in Nat /\ repeats \in Nat /\ n + 1 \in DOMAIN Published
  BY PublishedFacts, LenProperties DEF LogTypeOK
<1>2. e \in Events /\ IndexOf(e) = n + 1 /\ p = partitionOf[e.order]
  BY <1>1, PublishedFacts DEF ToSend
<1>3. /\ log' \in [Partitions -> Seq(Events)]
      /\ Cardinality(Records') = Cardinality(Records) + 1
      /\ Len(log[p]) \in Nat /\ Len(log'[p]) = Len(log[p]) + 1 /\ log'[p][Len(log[p]) + 1] = e
      /\ \A k \in 1 .. Len(log[p]) : log'[p][k] = log[p][k]
      /\ \A q \in Partitions \ {p} : log'[q] = log[q]
  BY <1>2, LogGrows
<1>4. Cardinality(Records') = Len(produced') + repeats'
  <2>1. Cardinality(Records) = n + repeats
    BY DEF LogSound
  <2>2. Cardinality(Records') = n + repeats + 1
    BY <2>1, <1>1, <1>3
  <2>3. Len(produced') + repeats' = n + repeats + 1
    BY <1>1
  <2> QED
    BY <2>2, <2>3
<1> DEFINE bound == Len(produced) + (IF repeats = 0 THEN 0 ELSE 1)
           newBound == Len(produced') + (IF repeats' = 0 THEN 0 ELSE 1)
<1>5. /\ bound \in Nat /\ newBound \in Nat /\ bound <= newBound /\ n + 1 <= newBound
      /\ repeats' = 0 => repeats = 0 /\ bound = n
      /\ bound <= n + 1
  BY <1>1
<1> HIDE DEF bound, newBound
<1>6. \A q \in Partitions : \A k \in 1 .. Len(log[q]) :
        /\ log[q][k] \in Events /\ IndexOf(log[q][k]) \in Nat
        /\ partitionOf[log[q][k].order] = q /\ IndexOf(log[q][k]) <= bound
        /\ \A l \in k + 1 .. Len(log[q]) :
             /\ IndexOf(log[q][k]) <= IndexOf(log[q][l])
             /\ repeats = 0 => IndexOf(log[q][k]) < IndexOf(log[q][l])
  <2>1. \A q \in Partitions : \A k \in 1 .. Len(log[q]) : log[q][k] \in Events
    BY ElementOfSeq DEF LogTypeOK
  <2>2. \A x \in Events : IndexOf(x) \in Nat
    BY PublishedFacts
  <2> QED
    BY <2>1, <2>2 DEF LogSound, bound
<1>7. ASSUME NEW q \in Partitions, NEW k \in 1 .. Len(log'[q])
      PROVE  /\ partitionOf'[log'[q][k].order] = q /\ IndexOf(log'[q][k]) <= newBound
             /\ \A l \in k + 1 .. Len(log'[q]) :
                  /\ IndexOf(log'[q][k]) <= IndexOf(log'[q][l])
                  /\ repeats' = 0 => IndexOf(log'[q][k]) < IndexOf(log'[q][l])
  <2>1. CASE q # p
    <3>1. log'[q] = log[q] /\ partitionOf' = partitionOf
      BY <2>1, <1>3
    <3>2. IndexOf(log[q][k]) \in Nat /\ IndexOf(log[q][k]) <= bound
      BY <3>1, <1>6
    <3>3. k \in 1 .. Len(log[q])
      BY <3>1
    <3>4. /\ partitionOf[log[q][k].order] = q
          /\ \A l \in k + 1 .. Len(log[q]) :
               /\ IndexOf(log[q][k]) <= IndexOf(log[q][l])
               /\ repeats = 0 => IndexOf(log[q][k]) < IndexOf(log[q][l])
      BY <3>3, <1>6
    <3>5. IndexOf(log[q][k]) <= newBound
      BY <3>2, <1>5
    <3> QED
      BY <3>1, <3>4, <3>5, <1>5
  <2>2. CASE q = p /\ k = Len(log[p]) + 1
    BY <2>2, <1>2, <1>3, <1>5
  <2>3. CASE q = p /\ k \in 1 .. Len(log[p])
    <3>1. log'[p][k] = log[p][k] /\ IndexOf(log[p][k]) \in Nat /\ IndexOf(log[p][k]) <= bound
          /\ partitionOf[log[p][k].order] = p
      BY <2>3, <1>3, <1>6
    <3>2. ASSUME NEW l \in k + 1 .. Len(log'[p])
          PROVE  /\ IndexOf(log'[p][k]) <= IndexOf(log'[p][l])
                 /\ repeats' = 0 => IndexOf(log'[p][k]) < IndexOf(log'[p][l])
      <4>1. CASE l = Len(log[p]) + 1
        BY <4>1, <3>1, <1>1, <1>2, <1>3, <1>5
      <4>2. CASE l \in k + 1 .. Len(log[p])
        <5>1. l \in 1 .. Len(log[p])
          BY <4>2, <2>3
        <5> QED
          BY <5>1, <4>2, <3>1, <2>3, <1>3, <1>5, <1>6
      <4> QED
        BY <4>1, <4>2, <1>3
    <3>3. IndexOf(log[p][k]) <= newBound
      BY <3>1, <1>5
    <3>4. partitionOf'[log'[p][k].order] = p /\ IndexOf(log'[p][k]) <= newBound
      BY <3>1, <3>3
    <3> QED
      BY <3>2, <3>4, <2>3
  <2> QED
    BY <2>1, <2>2, <2>3, <1>3
<1> QED
  BY <1>4, <1>7 DEF LogSound, newBound

-----------------------------------------------------------------------------
(* What a reader gets.                                                     *)

LEMMA ConsumedNext ==
  ASSUME log' = log, repeats' = repeats
  PROVE  /\ ReadUpTo(consumed', position') => ReadUpTo(consumed, position)'
         /\ ReaderDone(consumed') => ReaderDone(consumed)'
  BY DEF ReadUpTo, ReaderDone, Complete, ReadFromLog, InLog, HasRead, Beyond, Records

LEMMA ReplayedNext ==
  ASSUME log' = log, repeats' = repeats
  PROVE  /\ ReadUpTo(replayed', position') => ReadUpTo(replayed, position)'
         /\ ReaderDone(replayed') => ReaderDone(replayed)'
  BY DEF ReadUpTo, ReaderDone, Complete, ReadFromLog, InLog, HasRead, Beyond, Records

(* At the beginning nothing is read, of what was sent everything is left.  *)
LEMMA ReadNothing ==
  ASSUME LogTypeOK
  PROVE  ReadUpTo(<<>>, Earliest) /\ ResumeAt(Earliest) = Earliest
<1>1. \A p \in Partitions : Earliest[p] = 0 /\ Len(log[p]) \in Nat
  BY LenProperties DEF Earliest, LogTypeOK
<1>2. Beyond(Earliest) = Records
  BY <1>1 DEF Beyond, Records
<1>3. Cardinality(Records) \in Nat
  BY FS_CardinalityType DEF LogTypeOK
<1>4. Cardinality(Beyond(Earliest)) = Cardinality(Records) - Len(<<>>)
  BY <1>2, <1>3
<1>5. ResumeAt(Earliest) = Earliest
  BY <1>1 DEF ResumeAt, Earliest
<1> QED
  BY <1>1, <1>4, <1>5 DEF ReadUpTo, ReadFromLog

(* One record more, at its position.                                       *)
LEMMA ReadOne ==
  ASSUME LogTypeOK, NEW ds \in Seq(Deliveries), ReadUpTo(ds, position),
         NEW p \in Partitions, Unread(p),
         NEW es, es = Append(ds, Delivery(p)),
         NEW at, at = [position EXCEPT ![p] = @ + 1]
  PROVE  /\ es \in Seq(Deliveries) /\ Len(es) = Len(ds) + 1
         /\ at \in [Partitions -> Nat] /\ ReadUpTo(es, at)
<1> PICK d : d = Delivery(p)
  OBVIOUS
<1> PICK n : n = position[p]
  OBVIOUS
<1>1. n \in Nat /\ n < Len(log[p]) /\ Len(log[p]) \in Nat /\ n + 1 \in 1 .. Len(log[p])
  BY LenProperties DEF LogTypeOK, Unread
<1>2. /\ d = [event |-> log[p][n + 1], partition |-> p, offset |-> n] /\ d \in Deliveries
      /\ InLog(d)
  <2>1. log[p][n + 1] \in Events
    BY <1>1, ElementOfSeq DEF LogTypeOK
  <2> QED
    BY <1>1, <2>1 DEF Delivery, Deliveries, InLog
<1>3. /\ es \in Seq(Deliveries) /\ Len(es) = Len(ds) + 1 /\ es[Len(ds) + 1] = d
      /\ \A i \in 1 .. Len(ds) : es[i] = ds[i]
      /\ DOMAIN es = 1 .. Len(ds) + 1 /\ DOMAIN ds = 1 .. Len(ds) /\ Len(ds) \in Nat
  BY <1>2, AppendProperties, LenProperties
<1>4. /\ at \in [Partitions -> Nat] /\ at[p] = n + 1
      /\ \A q \in Partitions \ {p} : at[q] = position[q]
  BY <1>1 DEF LogTypeOK
<1>5. \A i \in DOMAIN ds : /\ ds[i] \in Deliveries /\ InLog(ds[i])
                           /\ ds[i].offset < position[ds[i].partition]
                           /\ ds[i].partition \in Partitions /\ ds[i].offset \in Nat
  <2>1. \A i \in DOMAIN ds : ds[i] \in Deliveries
    BY <1>3, ElementOfSeq
  <2>2. \A x \in Deliveries : x.partition \in Partitions /\ x.offset \in Nat
    BY DEF Deliveries
  <2> QED
    BY <2>1, <2>2 DEF ReadUpTo, ReadFromLog
<1>6. ReadFromLog(es)
  <2>1. \A i \in DOMAIN es : InLog(es[i])
    BY <1>2, <1>3, <1>5
  <2>2. ASSUME NEW i \in DOMAIN es, NEW j \in DOMAIN es,
               i < j, es[i].partition = es[j].partition
        PROVE  es[i].offset < es[j].offset
    <3>1. i \in DOMAIN ds /\ es[i] = ds[i]
      BY <2>2, <1>3
    <3>2. CASE j \in DOMAIN ds
      <4>1. es[j] = ds[j]
        BY <3>2, <1>3
      <4> QED
        BY <4>1, <3>1, <3>2, <2>2 DEF ReadUpTo, ReadFromLog
    <3>3. CASE j = Len(ds) + 1
      <4>1. es[j] = d /\ d.partition = p /\ d.offset = n
        BY <3>3, <1>2, <1>3
      <4>2. ds[i].partition = p
        BY <4>1, <3>1, <2>2
      <4> QED
        BY <4>1, <4>2, <3>1, <1>5
    <3> QED
      BY <3>2, <3>3, <1>3
  <2> QED
    BY <2>1, <2>2 DEF ReadFromLog
<1>7. ASSUME NEW i \in DOMAIN es PROVE es[i].offset < at[es[i].partition]
  <2>1. CASE i \in DOMAIN ds
    <3>1. es[i] = ds[i]
      BY <2>1, <1>3
    <3>2. position[ds[i].partition] \in Nat
      BY <2>1, <1>5 DEF LogTypeOK
    <3>3. position[ds[i].partition] <= at[ds[i].partition]
      BY <2>1, <3>2, <1>1, <1>4, <1>5
    <3>4. at[ds[i].partition] \in Nat
      BY <2>1, <1>4, <1>5
    <3> QED
      BY <2>1, <3>1, <3>2, <3>3, <3>4, <1>5
  <2>2. CASE i = Len(ds) + 1
    BY <2>2, <1>1, <1>2, <1>3, <1>4
  <2> QED
    BY <2>1, <2>2, <1>3
<1>8. ASSUME NEW q \in Partitions
      PROVE  at[q] <= Len(log[q]) /\ \A k \in 1 .. at[q] : HasRead(es, q, k)
  <2>1. \A k \in 1 .. position[q] : HasRead(es, q, k)
    <3>1. {ds[i] : i \in DOMAIN ds} \subseteq {es[i] : i \in DOMAIN es}
      BY <1>3
    <3> QED
      BY <3>1 DEF ReadUpTo, HasRead
  <2>2. HasRead(es, p, n + 1)
    <3>1. d \in {es[i] : i \in DOMAIN es}
      BY <1>3
    <3>2. (n + 1) - 1 = n
      BY <1>1
    <3> QED
      BY <3>1, <3>2, <1>2 DEF HasRead
  <2>3. CASE q = p
    BY <2>1, <2>2, <2>3, <1>1, <1>4
  <2>4. CASE q # p
    BY <2>1, <2>4, <1>4 DEF ReadUpTo
  <2> QED
    BY <2>3, <2>4
<1>9. Cardinality(Beyond(at)) = Cardinality(Records) - Len(es)
  <2>1. Beyond(at) = Beyond(position) \ {<<p, n + 1>>} /\ <<p, n + 1>> \in Beyond(position)
    <3>1. <<p, n + 1>> \in Beyond(position)
      BY <1>1 DEF Beyond, Records
    <3>2. ASSUME NEW r \in Records
          PROVE  r[2] > at[r[1]] <=> r[2] > position[r[1]] /\ r # <<p, n + 1>>
      <4>1. PICK q \in Partitions, k \in Nat : r = <<q, k>>
        BY LenProperties DEF Records, LogTypeOK
      <4>2. CASE q = p
        BY <4>1, <4>2, <1>1, <1>4
      <4>3. CASE q # p
        BY <4>1, <4>3, <1>4
      <4> QED
        BY <4>2, <4>3
    <3> QED
      BY <3>1, <3>2 DEF Beyond
  <2>2. IsFiniteSet(Beyond(position)) /\ Cardinality(Records) \in Nat
    <3>1. Beyond(position) \subseteq Records
      BY DEF Beyond
    <3> QED
      BY <3>1, FS_Subset, FS_CardinalityType DEF LogTypeOK
  <2>3. Cardinality(Beyond(at)) = Cardinality(Beyond(position)) - 1
    <3> PICK B, r : B = Beyond(position) /\ r = <<p, n + 1>>
      OBVIOUS
    <3>1. Cardinality(B \ {r}) = IF r \in B THEN Cardinality(B) - 1 ELSE Cardinality(B)
      BY <2>2, FS_RemoveElement
    <3> QED
      BY <3>1, <2>1
  <2>4. Cardinality(Beyond(position)) = Cardinality(Records) - Len(ds)
    BY DEF ReadUpTo
  <2> QED
    BY <2>2, <2>3, <2>4, <1>3
<1> QED
  BY <1>3, <1>4, <1>6, <1>7, <1>8, <1>9 DEF ReadUpTo

(* When no record is in the log twice, a reader that has as many as there  *)
(* are events has them all.                                                *)
LEMMA ReadAll ==
  ASSUME LogTypeOK, LogSound, NEW ds \in Seq(Deliveries), ReadUpTo(ds, position),
         Len(ds) = Len(Published), Len(produced) = Len(Published)
  PROVE  /\ ReaderDone(ds)
         /\ repeats = 0 => \A p \in Partitions : position[p] = Len(log[p])
<1>1. ASSUME repeats = 0
      PROVE  (\A p \in Partitions : position[p] = Len(log[p])) /\ Complete(ds)
  <2>1. Cardinality(Records) = Len(Published) /\ Len(Published) \in Nat
    BY <1>1, PublishedFacts DEF LogSound
  <2>2. Cardinality(Beyond(position)) = 0
    BY <2>1 DEF ReadUpTo
  <2>3. Beyond(position) = {}
    <3>1. Beyond(position) \subseteq Records
      BY DEF Beyond
    <3>2. IsFiniteSet(Beyond(position))
      BY <3>1, FS_Subset DEF LogTypeOK
    <3> QED
      BY <3>2, <2>2, FS_EmptySet
  <2>4. ASSUME NEW p \in Partitions PROVE position[p] = Len(log[p])
    <3>1. Len(log[p]) \in Nat /\ position[p] \in Nat /\ position[p] <= Len(log[p])
      BY LenProperties DEF LogTypeOK, ReadUpTo
    <3>2. position[p] < Len(log[p]) => <<p, Len(log[p])>> \in Beyond(position)
      BY <3>1 DEF Beyond, Records
    <3> QED
      BY <3>1, <3>2, <2>3
  <2> QED
    BY <2>4 DEF ReadUpTo, Complete
<1> QED
  BY <1>1 DEF ReaderDone, ReadUpTo

-----------------------------------------------------------------------------
(* The steps.                                                              *)

LEMMA LogIInvInit == LogInit => LogIInv
<1> SUFFICES ASSUME LogInit PROVE LogIInv
  OBVIOUS
<1>1. Records = {}
  BY DEF LogInit, Records
<1>2. /\ <<>> \in Seq(Events) /\ <<>> \in Seq(Deliveries) /\ Len(<<>>) = 0
      /\ IsFiniteSet(Records) /\ Cardinality(Records) = 0
  BY <1>1, EmptySeq, FS_EmptySet
<1>3. LogTypeOK
  BY <1>2 DEF LogInit, LogTypeOK, Earliest
<1>4. ProducedSound /\ LogSound
  BY <1>2, PublishedFacts DEF LogInit, ProducedSound, LogSound
<1>5. ReadersSound /\ CommittedWasRead
  BY <1>2 DEF LogInit, ReadersSound, Consuming, CommittedWasRead, Earliest
<1> QED
  BY <1>3, <1>4, <1>5 DEF LogIInv

LEMMA StepReset == ASSUME LogIInv, ResetTopic PROVE LogIInv'
<1> USE DEF ResetTopic
<1>1. Records' = {}
  BY DEF Records
<1>2. /\ <<>> \in Seq(Events) /\ <<>> \in Seq(Deliveries) /\ Len(<<>>) = 0
      /\ IsFiniteSet(Records') /\ Cardinality(Records') = 0
  BY <1>1, EmptySeq, FS_EmptySet
<1>3. LogTypeOK'
  BY <1>2 DEF LogIInv, LogTypeOK, Earliest, OffsetsAfterDelete
<1>4. ProducedSound' /\ LogSound'
  BY <1>2, PublishedFacts DEF ProducedSound, LogSound
<1>5. ReadersSound' /\ CommittedWasRead'
  BY <1>2 DEF ReadersSound, Consuming, CommittedWasRead, Earliest, OffsetsAfterDelete
<1> QED
  BY <1>3, <1>4, <1>5 DEF LogIInv

LEMMA StepSend == ASSUME LogIInv, SendAnswered \/ SendUnanswered PROVE LogIInv'
<1> USE DEF LogIInv
<1> PICK e : e = ToSend
  OBVIOUS
<1> PICK p : p = partitionOf[e.order]
  OBVIOUS
<1>1. /\ log' = [log EXCEPT ![p] = Append(@, e)] /\ Len(produced) < Len(Published)
      /\ UNCHANGED <<partitionOf, committed, position, step, consumed, replayed, resumedAtEnd>>
      /\ step = "produce"
  BY DEF SendAnswered, SendUnanswered, Sending, PartitionsFor, returned
<1>2. /\ Len(produced) \in Nat /\ repeats \in Nat /\ e \in Events /\ p \in Partitions
      /\ e = Published[Len(produced) + 1] /\ Len(produced) + 1 \in DOMAIN Published
  <2>1. Len(produced) \in Nat /\ repeats \in Nat /\ Len(produced) + 1 \in DOMAIN Published
    BY <1>1, PublishedFacts, LenProperties DEF LogTypeOK
  <2>2. e = Published[Len(produced) + 1] /\ e \in Events /\ e.order \in Orders
    BY <2>1, PublishedFacts DEF ToSend
  <2> QED
    BY <2>1, <2>2 DEF LogTypeOK
<1>3. /\ log' \in [Partitions -> Seq(Events)]
      /\ IsFiniteSet(Records') /\ Cardinality(Records') = Cardinality(Records) + 1
      /\ Len(log[p]) \in Nat /\ Len(log'[p]) = Len(log[p]) + 1 /\ log'[p][Len(log[p]) + 1] = e
      /\ \A d \in Deliveries : InLog(d) => InLog(d)'
  BY <1>1, <1>2, LogGrows
<1> PICK d : d = [event |-> e, partition |-> p, offset |-> Len(log[p])]
  OBVIOUS
<1>4. d \in Deliveries /\ InLog(d)'
  BY <1>1, <1>2, <1>3 DEF Deliveries, InLog
<1>5. \/ repeats' = repeats /\ produced' = Append(produced, d)
      \/ repeats' = repeats + 1 /\ produced' = produced
  BY DEF SendAnswered, SendUnanswered, PartitionsFor, returned
<1>6. /\ produced' \in Seq(Deliveries) /\ repeats' \in Nat
      /\ \/ repeats' = repeats /\ Len(produced') = Len(produced) + 1
         \/ repeats' = repeats + 1 /\ Len(produced') = Len(produced)
  <2>1. produced \in Seq(Deliveries)
    BY DEF LogTypeOK
  <2>2. Append(produced, d) \in Seq(Deliveries) /\ Len(Append(produced, d)) = Len(produced) + 1
    BY <2>1, <1>4, AppendProperties
  <2>3. CASE repeats' = repeats /\ produced' = Append(produced, d)
    BY <2>2, <2>3, <1>2
  <2>4. CASE repeats' = repeats + 1 /\ produced' = produced
    BY <2>1, <2>4, <1>2
  <2> QED
    BY <2>3, <2>4, <1>5
<1>7. LogTypeOK'
  BY <1>1, <1>3, <1>6 DEF LogTypeOK
<1>8. ProducedSound'
  <2>1. Len(produced') <= Len(Published)
    BY <1>1, <1>2, <1>6, PublishedFacts
  <2> DEFINE N(x) == x.offset < Len(log'[x.partition]) /\ log'[x.partition][x.offset + 1] = x.event
  <2>2. \A x \in Deliveries : InLog(x) => N(x)
    BY <1>3 DEF InLog
  <2>3. ASSUME NEW i \in DOMAIN produced
        PROVE  /\ produced[i].event = Published[i] /\ N(produced[i])
               /\ produced[i].partition = partitionOf[Published[i].order]
    <3>1. produced[i] \in Deliveries
      BY ElementOfSeq, LenProperties DEF LogTypeOK
    <3> QED
      BY <3>1, <2>2 DEF ProducedSound
  <2>4. N(d) /\ d.event = e /\ d.partition = p
    BY <1>4 DEF InLog
  <2> HIDE DEF N
  <2>5. ASSUME NEW i \in DOMAIN produced'
        PROVE  /\ produced'[i].event = Published[i] /\ N(produced'[i])
               /\ produced'[i].partition = partitionOf'[Published[i].order]
    <3>1. CASE produced' = produced
      BY <3>1, <2>3, <1>1
    <3>2. CASE produced' = Append(produced, d)
      <4>1. /\ DOMAIN produced' = 1 .. Len(produced) + 1 /\ DOMAIN produced = 1 .. Len(produced)
            /\ produced'[Len(produced) + 1] = d
            /\ \A j \in 1 .. Len(produced) : produced'[j] = produced[j]
        BY <3>2, <1>4, AppendProperties, LenProperties DEF LogTypeOK
      <4>2. CASE i = Len(produced) + 1
        BY <4>1, <4>2, <2>4, <1>1, <1>2
      <4>3. CASE i \in 1 .. Len(produced)
        BY <4>1, <4>3, <2>3, <1>1
      <4> QED
        BY <4>1, <4>2, <4>3, <1>2
    <3> QED
      BY <3>1, <3>2, <1>5
  <2> QED
    BY <2>1, <2>5 DEF ProducedSound, InLog, N
<1>9. LogSound'
  BY <1>1, <1>2, <1>6, SendKeepsLog
<1>10. ReadersSound' /\ CommittedWasRead'
  <2>1. committed' = Earliest /\ consumed' = <<>> /\ replayed' = <<>> /\ step' = "produce"
    BY <1>1 DEF ReadersSound
  <2>2. \A q \in Partitions : Len(log'[q]) \in Nat
    BY <1>3, LenProperties
  <2> QED
    BY <2>1, <2>2 DEF ReadersSound, Consuming, CommittedWasRead, Earliest
<1> QED
  BY <1>7, <1>8, <1>9, <1>10

LEMMA StepLive ==
  ASSUME LogIInv, StartLive \/ (\E p \in Partitions : ReadLive(p)) \/ Commit
  PROVE  LogIInv'
<1> USE DEF LogIInv
<1>1. /\ UNCHANGED <<partitionOf, log, repeats, produced, replayed, resumedAtEnd>>
      /\ Records' = Records
  BY DEF StartLive, ReadLive, Commit, returned, Records
<1>2. ProducedSound' /\ LogSound'
  BY <1>1 DEF ProducedSound, LogSound, InLog
<1>3. CASE StartLive
  <2>1. /\ step' = "live" /\ Len(produced) = Len(Published)
        /\ committed' = committed /\ consumed' = consumed
        /\ committed = Earliest /\ consumed = <<>> /\ replayed = <<>>
        /\ position' = Earliest
    BY <1>3, ReadNothing DEF StartLive, ReadersSound, returned
  <2>2. ReadUpTo(consumed, position)'
    BY <2>1, <1>1, ReadNothing, ConsumedNext
  <2>3. LogTypeOK' /\ CommittedWasRead'
    BY <2>1, <1>1 DEF LogTypeOK, CommittedWasRead, Earliest
  <2> QED
    BY <2>1, <2>2, <2>3, <1>1, <1>2 DEF ReadersSound, Consuming
<1>4. ASSUME NEW p \in Partitions, ReadLive(p) PROVE LogIInv'
  <2>1. /\ step = "live" /\ step' = "live" /\ committed' = committed
        /\ consumed' = Append(consumed, Delivery(p)) /\ Unread(p)
        /\ position' = [position EXCEPT ![p] = @ + 1]
        /\ consumed \in Seq(Deliveries) /\ ReadUpTo(consumed, position)
        /\ committed = Earliest /\ replayed = <<>> /\ Len(produced) = Len(Published)
    BY <1>4 DEF ReadLive, ReadersSound, Consuming, LogTypeOK
  <2>2. /\ consumed' \in Seq(Deliveries) /\ position' \in [Partitions -> Nat]
        /\ ReadUpTo(consumed', position')
    <3> PICK ds : ds = consumed /\ ds \in Seq(Deliveries) /\ ReadUpTo(ds, position)
      BY <2>1
    <3> PICK es : es = Append(ds, Delivery(p))
      OBVIOUS
    <3> PICK at : at = [position EXCEPT ![p] = @ + 1]
      OBVIOUS
    <3>1. es \in Seq(Deliveries) /\ at \in [Partitions -> Nat] /\ ReadUpTo(es, at)
      BY <2>1, ReadOne
    <3> QED
      BY <3>1, <2>1
  <2>3. ReadUpTo(consumed, position)'
    BY <2>2, <1>1, ConsumedNext
  <2>4. LogTypeOK'
    BY <2>1, <2>2, <1>1 DEF LogTypeOK
  <2>5. CommittedWasRead'
    <3>1. \A q \in Partitions : Len(log'[q]) \in Nat
      BY <2>4, LenProperties DEF LogTypeOK
    <3> QED
      BY <3>1, <2>1 DEF CommittedWasRead, Earliest
  <2> QED
    BY <2>1, <2>3, <2>4, <2>5, <1>1, <1>2 DEF ReadersSound, Consuming
<1>5. CASE Commit
  <2>1. /\ step = "live" /\ step' = "resume" /\ consumed' = consumed
        /\ Len(consumed) = Len(Published) /\ committed' = position
        /\ ReadUpTo(consumed, position) /\ replayed = <<>> /\ Len(produced) = Len(Published)
    BY <1>5 DEF Commit, OffsetsToCommit, ReadersSound, Consuming, returned
  <2>2. position' = position
    <3>1. \A q \in Partitions : position[q] <= Len(log[q])
      BY <2>1 DEF ReadUpTo
    <3>2. position = [q \in Partitions |-> position[q]]
      BY DEF LogTypeOK
    <3> QED
      BY <1>5, <3>1, <3>2 DEF Commit, OffsetsToCommit, ResumeAt
  <2>3. /\ ReaderDone(consumed)
        /\ repeats = 0 => \A q \in Partitions : position[q] = Len(log[q])
    BY <2>1, ReadAll DEF LogTypeOK
  <2>4. ReaderDone(consumed)'
    BY <2>1, <2>3, <1>1, ConsumedNext
  <2>5. LogTypeOK'
    BY <2>1, <2>2, <1>1 DEF LogTypeOK
  <2>6. CommittedWasRead'
    BY <2>1, <1>1 DEF ReadUpTo, CommittedWasRead, HasRead
  <2>7. repeats' = 0 => \A q \in Partitions : ~Unread(q)'
    <3>1. \A q \in Partitions : position[q] \in Nat
      BY DEF LogTypeOK
    <3> QED
      BY <3>1, <2>2, <2>3, <1>1 DEF Unread
  <2> QED
    BY <2>1, <2>4, <2>5, <2>6, <2>7, <1>1, <1>2 DEF ReadersSound, Consuming
<1> QED
  BY <1>3, <1>4, <1>5

LEMMA StepReplay ==
  ASSUME LogIInv,
         FindRecord \/ FindNothing \/ (\E p \in Partitions : ReadReplay(p)) \/ Finish
  PROVE  LogIInv'
<1> USE DEF LogIInv
<1>1. /\ UNCHANGED <<partitionOf, log, repeats, produced, consumed, committed>>
      /\ Records' = Records
  BY DEF FindRecord, FindNothing, ReadReplay, Finish, returned, Records
<1>2. ProducedSound' /\ LogSound' /\ CommittedWasRead'
  BY <1>1 DEF ProducedSound, LogSound, InLog, CommittedWasRead
<1>3. /\ step \in {"resume", "replay"} /\ step' \in {"replay", "done"}
      /\ Len(produced) = Len(Published) /\ ReaderDone(consumed)
  BY DEF FindRecord, FindNothing, ReadReplay, Finish, ReadersSound, Consuming
<1>4. ReaderDone(consumed)'
  BY <1>1, <1>3, ConsumedNext
<1>5. CASE FindRecord \/ FindNothing
  <2>1. /\ step' = "replay" /\ step = "resume" /\ replayed' = replayed /\ replayed = <<>>
        /\ position' = Earliest /\ resumedAtEnd' \in BOOLEAN
        /\ repeats = 0 => resumedAtEnd'
    BY <1>5 DEF FindRecord, FindNothing, ReadersSound
  <2>2. ReadUpTo(replayed, position)'
    BY <2>1, <1>1, ReadNothing, ReplayedNext
  <2>3. LogTypeOK'
    BY <2>1, <1>1 DEF LogTypeOK, Earliest
  <2> QED
    BY <2>1, <2>2, <2>3, <1>1, <1>2, <1>3, <1>4 DEF ReadersSound, Consuming
<1>6. ASSUME NEW p \in Partitions, ReadReplay(p) PROVE LogIInv'
  <2>1. /\ step = "replay" /\ step' = "replay" /\ resumedAtEnd' = resumedAtEnd
        /\ replayed' = Append(replayed, Delivery(p)) /\ Unread(p)
        /\ position' = [position EXCEPT ![p] = @ + 1]
        /\ replayed \in Seq(Deliveries) /\ ReadUpTo(replayed, position)
    BY <1>6 DEF ReadReplay, ReadersSound, LogTypeOK
  <2>2. /\ replayed' \in Seq(Deliveries) /\ position' \in [Partitions -> Nat]
        /\ ReadUpTo(replayed', position')
    <3> PICK ds : ds = replayed /\ ds \in Seq(Deliveries) /\ ReadUpTo(ds, position)
      BY <2>1
    <3> PICK es : es = Append(ds, Delivery(p))
      OBVIOUS
    <3> PICK at : at = [position EXCEPT ![p] = @ + 1]
      OBVIOUS
    <3>1. es \in Seq(Deliveries) /\ at \in [Partitions -> Nat] /\ ReadUpTo(es, at)
      BY <2>1, ReadOne
    <3> QED
      BY <3>1, <2>1
  <2>3. ReadUpTo(replayed, position)'
    BY <2>2, <1>1, ReplayedNext
  <2>4. LogTypeOK'
    BY <2>1, <2>2, <1>1 DEF LogTypeOK
  <2> QED
    BY <2>1, <2>3, <2>4, <1>1, <1>2, <1>3, <1>4 DEF ReadersSound, Consuming
<1>7. CASE Finish
  <2>1. /\ step = "replay" /\ step' = "done" /\ resumedAtEnd' = resumedAtEnd
        /\ replayed' = replayed /\ position' = position
        /\ Len(replayed) = Len(Published) /\ ReadUpTo(replayed, position)
    BY <1>7 DEF Finish, ReadersSound, returned
  <2>2. ReaderDone(replayed)
    BY <2>1, <1>3, ReadAll DEF LogTypeOK
  <2>3. ReaderDone(replayed)'
    BY <2>1, <2>2, <1>1, ReplayedNext
  <2>4. LogTypeOK'
    BY <2>1, <1>1 DEF LogTypeOK
  <2> QED
    BY <2>1, <2>3, <2>4, <1>1, <1>2, <1>3, <1>4 DEF ReadersSound, Consuming
<1> QED
  BY <1>5, <1>6, <1>7

LEMMA LogIInvNext == LogIInv /\ [LogNext]_logVars => LogIInv'
<1> SUFFICES ASSUME LogIInv, [LogNext]_logVars PROVE LogIInv'
  OBVIOUS
<1>1. CASE ResetTopic
  BY <1>1, StepReset
<1>2. CASE SendAnswered \/ SendUnanswered
  BY <1>2, StepSend
<1>3. CASE StartLive \/ (\E p \in Partitions : ReadLive(p)) \/ Commit
  BY <1>3, StepLive
<1>4. CASE FindRecord \/ FindNothing \/ (\E p \in Partitions : ReadReplay(p)) \/ Finish
  BY <1>4, StepReplay
<1>5. CASE Fail \/ UNCHANGED logVars
  <2>1. /\ UNCHANGED <<partitionOf, log, repeats, produced, consumed, replayed, resumedAtEnd,
                       committed, position>>
        /\ Records' = Records /\ (step' = "raised" \/ step' = step)
    BY <1>5 DEF Fail, logVars, returned, Records
  <2>2. LogTypeOK' /\ ProducedSound' /\ LogSound' /\ CommittedWasRead'
    BY <2>1 DEF LogIInv, LogTypeOK, ProducedSound, LogSound, InLog, CommittedWasRead
  <2>3. ReadersSound'
    BY <2>1, ConsumedNext, ReplayedNext DEF LogIInv, ReadersSound, Consuming, Unread
  <2> QED
    BY <2>2, <2>3 DEF LogIInv
<1> QED
  BY <1>1, <1>2, <1>3, <1>4, <1>5 DEF LogNext

-----------------------------------------------------------------------------
(* The results.                                                            *)

(* The log is what was sent, with its repeats, and a reader has got what   *)
(* is before its position, for any events, partitions and hash of the      *)
(* keys, in the first run and in every run after it.                       *)
THEOREM LogInvariant == LogSpec => []LogIInv
  BY LogIInvInit, LogIInvNext, PTL DEF LogSpec

LEMMA LogServesReaders == LogIInv => OffsetsSound
<1> SUFFICES ASSUME LogIInv PROVE OffsetsSound
  OBVIOUS
<1>1. ASSUME NEW ds \in Seq(Deliveries), ReadUpTo(ds, position), Len(produced) = Len(Published)
      PROVE  Cardinality(UnreadRecords) >= Len(Published) - Len(ds)
  <2>1. UnreadRecords = Beyond(position)
    BY DEF UnreadRecords, Beyond
  <2>2. Cardinality(Records) = Len(Published) + repeats
    BY <1>1 DEF LogIInv, LogSound
  <2>3. Cardinality(UnreadRecords) = (Len(Published) + repeats) - Len(ds)
    <3>1. Cardinality(Beyond(position)) = Cardinality(Records) - Len(ds)
      BY <1>1 DEF ReadUpTo
    <3> QED
      BY <3>1, <2>1, <2>2
  <2>4. Len(Published) \in Nat /\ repeats \in Nat /\ Len(ds) \in Nat
    BY PublishedFacts, LenProperties DEF LogIInv, LogTypeOK
  <2> QED
    BY <2>3, <2>4
<1>2. NoReaderStarves
  <2>1. consumed \in Seq(Deliveries) /\ replayed \in Seq(Deliveries)
    BY DEF LogIInv, LogTypeOK
  <2>2. ASSUME step = "live" PROVE ReadUpTo(consumed, position) /\ Len(produced) = Len(Published)
    BY <2>2 DEF LogIInv, ReadersSound, Consuming
  <2>3. ASSUME step = "replay" PROVE ReadUpTo(replayed, position) /\ Len(produced) = Len(Published)
    BY <2>3 DEF LogIInv, ReadersSound, Consuming
  <2> QED
    BY <1>1, <2>1, <2>2, <2>3 DEF NoReaderStarves
<1> QED
  BY <1>2 DEF OffsetsSound, LogIInv

(* Offsets that outlive a run or a topic neither lose a record nor leave a *)
(* reader waiting.                                                         *)
THEOREM OffsetsAreSound == LogSpec => []OffsetsSound
<1>1. LogSpec => []LogIInv
  BY LogInvariant
<1> QED
  BY <1>1, LogServesReaders, PTL

-----------------------------------------------------------------------------
(* The comparison.                                                         *)

(* In what is read as published, the place of an event among those of its  *)
(* order is its rank in Published.                                         *)
LEMMA PlaceIsRank ==
  ASSUME NEW ds \in Seq(Deliveries), ReadAsPublished(ds), NEW o, NEW i \in OfOrder(ds, o)
  PROVE  Place(OfOrder(ds, o), i)
           = Cardinality({e \in Events : e.order = o /\ IndexOf(e) <= IndexOf(ds[i].event)})
<1> DEFINE S == {j \in OfOrder(ds, o) : j <= i}
           T == {e \in Events : e.order = o /\ IndexOf(e) <= IndexOf(ds[i].event)}
           f == [j \in S |-> ds[j].event]
<1>1. DOMAIN ds = 1 .. Len(ds) /\ Len(ds) \in Nat /\ \A j \in DOMAIN ds : ds[j] \in Deliveries
  BY LenProperties, ElementOfSeq
<1>2. \A j \in DOMAIN ds : ds[j].event \in Events /\ IndexOf(ds[j].event) \in Nat
  <2>1. \A d \in Deliveries : d.event \in Events
    BY DEF Deliveries
  <2> QED
    BY <2>1, <1>1, PublishedFacts
<1>3. i \in DOMAIN ds /\ ds[i].event.order = o /\ S \subseteq DOMAIN ds
      /\ \A j \in S : ds[j].event.order = o /\ j <= i
  BY DEF OfOrder
<1>4. \A j, k \in DOMAIN ds : j < k /\ ds[j].event.order = o /\ ds[k].event.order = o
                                => IndexOf(ds[j].event) < IndexOf(ds[k].event)
  BY DEF ReadAsPublished
<1>5. f \in [S -> T]
  <2>1. ASSUME NEW j \in S PROVE ds[j].event \in T
    <3>1. CASE j = i
      BY <3>1, <1>2, <1>3
    <3>2. CASE j < i
      BY <3>2, <1>2, <1>3, <1>4
    <3> QED
      BY <3>1, <3>2, <1>1, <1>3
  <2> QED
    BY <2>1
<1>6. ASSUME NEW j \in S, NEW k \in S, f[j] = f[k] PROVE j = k
  <2>1. j \in DOMAIN ds /\ k \in DOMAIN ds /\ ds[j].event = ds[k].event
        /\ IndexOf(ds[j].event) \in Nat
    BY <1>2, <1>3, <1>6
  <2>2. ~(j < k) /\ ~(k < j)
    BY <2>1, <1>3, <1>4
  <2> QED
    BY <2>1, <2>2, <1>1
<1>7. ASSUME NEW e \in T PROVE \E j \in S : f[j] = e
  <2>1. PICK j \in DOMAIN ds : ds[j].event = e
    BY DEF ReadAsPublished, EventsOf
  <2>2. ~(i < j)
    <3>1. i < j => IndexOf(ds[i].event) < IndexOf(e)
      BY <2>1, <1>3, <1>4
    <3>2. IndexOf(ds[i].event) \in Nat /\ IndexOf(e) \in Nat
      BY <2>1, <1>2, <1>3
    <3> QED
      BY <3>1, <3>2
  <2>3. j \in S
    BY <2>1, <2>2, <1>1, <1>3 DEF OfOrder
  <2> QED
    BY <2>1, <2>3
<1>8. IsFiniteSet(S)
  <2>1. S \in SUBSET (1 .. Len(ds))
    BY <1>1, <1>3
  <2>2. IsFiniteSet(1 .. Len(ds))
    BY <1>1, FS_Interval
  <2> HIDE DEF S
  <2> QED
    BY <2>1, <2>2, FS_Subset
<1> HIDE DEF S, T, f
<1>9. ExistsBijection(S, T)
  BY <1>5, <1>6, <1>7 DEF ExistsBijection, Bijection, Injection, Surjection, IsInjective
<1>10. Cardinality(T) = Cardinality(S)
  BY <1>8, <1>9, FS_Bijection
<1> QED
  BY <1>10 DEF S, T, Place

LEMMA SameSequences ==
  ASSUME NEW ds \in Seq(Deliveries), NEW es \in Seq(Deliveries),
         ReadAsPublished(ds), ReadAsPublished(es)
  PROVE  KeySequences(ds) = KeySequences(es)
<1>1. EventsOf(ds) = EventsOf(es)
  BY DEF ReadAsPublished
<1>2. ASSUME NEW o, NEW x \in Seq(Deliveries), NEW y \in Seq(Deliveries),
             ReadAsPublished(x), ReadAsPublished(y), NEW i \in OfOrder(x, o)
      PROVE  \E j \in OfOrder(y, o) :
               <<Place(OfOrder(x, o), i), x[i].event.sequence>>
                 = <<Place(OfOrder(y, o), j), y[j].event.sequence>>
  <2>1. PICK j \in DOMAIN y : y[j].event = x[i].event
    BY <1>2 DEF ReadAsPublished, EventsOf, OfOrder
  <2>2. j \in OfOrder(y, o)
    BY <2>1 DEF OfOrder
  <2>3. Place(OfOrder(x, o), i) = Place(OfOrder(y, o), j)
    <3>1. Place(OfOrder(x, o), i) = Cardinality(
            {e \in Events : e.order = o /\ IndexOf(e) <= IndexOf(x[i].event)})
      BY <1>2, PlaceIsRank
    <3>2. Place(OfOrder(y, o), j) = Cardinality(
            {e \in Events : e.order = o /\ IndexOf(e) <= IndexOf(y[j].event)})
      BY <1>2, <2>2, PlaceIsRank
    <3> QED
      BY <3>1, <3>2, <2>1
  <2> QED
    BY <2>1, <2>2, <2>3
<1>3. ASSUME NEW o
      PROVE  {<<Place(OfOrder(ds, o), i), ds[i].event.sequence>> : i \in OfOrder(ds, o)}
               = {<<Place(OfOrder(es, o), i), es[i].event.sequence>> : i \in OfOrder(es, o)}
  <2> DEFINE A == {<<Place(OfOrder(ds, o), i), ds[i].event.sequence>> : i \in OfOrder(ds, o)}
             B == {<<Place(OfOrder(es, o), i), es[i].event.sequence>> : i \in OfOrder(es, o)}
  <2>1. \A i \in OfOrder(ds, o) : <<Place(OfOrder(ds, o), i), ds[i].event.sequence>> \in B
    BY <1>2
  <2>2. \A i \in OfOrder(es, o) : <<Place(OfOrder(es, o), i), es[i].event.sequence>> \in A
    BY <1>2
  <2> QED
    BY <2>1, <2>2
<1> QED
  BY <1>1, <1>3 DEF KeySequences

(* The producer's own list is the events as published.                     *)
LEMMA ProducedAsPublished ==
  ASSUME LogIInv, Len(produced) = Len(Published)
  PROVE  ReadAsPublished(produced)
<1>1. \A i \in DOMAIN produced : produced[i].event = Published[i]
  BY DEF LogIInv, ProducedSound
<1>2. DOMAIN produced = DOMAIN Published
  BY PublishedFacts, LenProperties DEF LogIInv, LogTypeOK
<1>3. EventsOf(produced) = Events
  BY <1>1, <1>2 DEF EventsOf, Events
<1>4. \A i \in DOMAIN produced : IndexOf(produced[i].event) = i
  BY <1>1, <1>2, PublishedFacts
<1> QED
  BY <1>3, <1>4 DEF ReadAsPublished

(* A delivery is of the partition its order is hashed to, and two of the   *)
(* same order are read as the log has them.                                *)
LEMMA DeliveredInOrder ==
  ASSUME LogIInv, NEW ds \in Seq(Deliveries), ReadFromLog(ds)
  PROVE  /\ \A i \in DOMAIN ds : /\ ds[i].event \in Events
                                 /\ ds[i].partition = partitionOf[ds[i].event.order]
         /\ \A i, j \in DOMAIN ds : i < j /\ ds[i].event.order = ds[j].event.order =>
              /\ ds[i].offset < ds[j].offset
              /\ IndexOf(ds[i].event) <= IndexOf(ds[j].event)
              /\ repeats = 0 => IndexOf(ds[i].event) < IndexOf(ds[j].event)
<1>1. ASSUME NEW i \in DOMAIN ds
      PROVE  /\ ds[i].event \in Events /\ ds[i].partition \in Partitions
             /\ ds[i].offset \in Nat /\ ds[i].offset + 1 \in 1 .. Len(log[ds[i].partition])
             /\ log[ds[i].partition][ds[i].offset + 1] = ds[i].event
             /\ ds[i].partition = partitionOf[ds[i].event.order]
  <2> PICK d : d = ds[i] /\ d \in Deliveries /\ InLog(d)
    BY LenProperties, ElementOfSeq DEF ReadFromLog
  <2>1. d.event \in Events /\ d.partition \in Partitions /\ d.offset \in Nat
    BY DEF Deliveries
  <2>2. Len(log[d.partition]) \in Nat
    BY <2>1, LenProperties DEF LogIInv, LogTypeOK
  <2>3. d.offset + 1 \in 1 .. Len(log[d.partition]) /\ log[d.partition][d.offset + 1] = d.event
    BY <2>1, <2>2 DEF InLog
  <2> QED
    BY <2>1, <2>3 DEF LogIInv, LogSound
<1>2. ASSUME NEW i \in DOMAIN ds, NEW j \in DOMAIN ds,
             i < j, ds[i].event.order = ds[j].event.order
      PROVE  /\ ds[i].offset < ds[j].offset
             /\ IndexOf(ds[i].event) <= IndexOf(ds[j].event)
             /\ repeats = 0 => IndexOf(ds[i].event) < IndexOf(ds[j].event)
  <2> PICK p \in Partitions : p = ds[i].partition /\ p = ds[j].partition
    BY <1>1, <1>2
  <2> PICK k, l : k = ds[i].offset + 1 /\ l = ds[j].offset + 1
    OBVIOUS
  <2>1. ds[i].offset < ds[j].offset
    BY <1>2 DEF ReadFromLog
  <2>2. k \in 1 .. Len(log[p]) /\ l \in k + 1 .. Len(log[p])
        /\ log[p][k] = ds[i].event /\ log[p][l] = ds[j].event
    <3>1. k \in 1 .. Len(log[p]) /\ log[p][k] = ds[i].event /\ ds[i].offset \in Nat
      BY <1>1
    <3>2. l \in 1 .. Len(log[p]) /\ log[p][l] = ds[j].event /\ ds[j].offset \in Nat
      BY <1>1
    <3>3. k < l
      BY <2>1, <3>1, <3>2
    <3> QED
      BY <3>1, <3>2, <3>3
  <2> QED
    BY <2>1, <2>2 DEF LogIInv, LogSound
<1> QED
  BY <1>1, <1>2

(* As many deliveries as events, and of every event: each is read once.    *)
LEMMA EachReadOnce ==
  ASSUME NEW ds \in Seq(Deliveries), EventsOf(ds) = Events, Len(ds) = Len(Published)
  PROVE  \A i, j \in DOMAIN ds : ds[i].event = ds[j].event => i = j
<1> DEFINE S == DOMAIN ds
           f == [i \in S |-> ds[i].event]
<1>1. S = 1 .. Len(Published) /\ Len(Published) \in Nat
  BY PublishedFacts, LenProperties
<1>2. IsFiniteSet(S) /\ Cardinality(S) = Cardinality(Events)
  <2>1. \A m \in Nat : IsFiniteSet(1 .. m) /\ Cardinality(1 .. m) = IF 1 > m THEN 0 ELSE m - 1 + 1
    BY FS_Interval
  <2>2. \A m \in Nat : (IF 1 > m THEN 0 ELSE m - 1 + 1) = m
    OBVIOUS
  <2> QED
    BY <2>1, <2>2, <1>1, PublishedFacts
<1>3. f \in Surjection(S, Events)
  BY DEF Surjection, EventsOf
<1> HIDE DEF S
<1>4. f \in Injection(S, Events)
  <2> HIDE DEF f
  <2> QED
    BY <1>2, <1>3, FS_SurjSameCardinalityImpliesInj
<1> QED
  BY <1>4 DEF Injection, IsInjective, S

(* A reader that got every event got the events of an order as published.  *)
LEMMA AllReadInOrder ==
  ASSUME LogIInv, NEW ds \in Seq(Deliveries), ReaderDone(ds), EventsOf(ds) = Events
  PROVE  ReadAsPublished(ds)
<1>1. ASSUME NEW i \in DOMAIN ds, NEW j \in DOMAIN ds,
             i < j, ds[i].event.order = ds[j].event.order
      PROVE  IndexOf(ds[i].event) < IndexOf(ds[j].event)
  <2> PICK e, g : e = ds[i].event /\ g = ds[j].event
    OBVIOUS
  <2>1. e \in Events /\ g \in Events /\ IndexOf(e) <= IndexOf(g)
    BY <1>1, DeliveredInOrder DEF ReaderDone
  <2>2. e # g
    <3>1. i # j
      BY <1>1, LenProperties
    <3> QED
      BY <3>1, EachReadOnce DEF ReaderDone
  <2>3. IndexOf(e) # IndexOf(g) /\ IndexOf(e) \in Nat /\ IndexOf(g) \in Nat
    BY <2>1, <2>2, PublishedFacts
  <2> QED
    BY <2>1, <2>3
<1> QED
  BY <1>1 DEF ReadAsPublished

LEMMA ComparisonIsRight ==
  ASSUME LogIInv, NEW ds \in Seq(Deliveries), ReaderDone(ds), Len(produced) = Len(Published)
  PROVE  SameKeyOrder(produced, ds) <=> ReadAsPublished(ds)
<1>1. produced \in Seq(Deliveries) /\ ReadAsPublished(produced) /\ EventsOf(produced) = Events
  BY ProducedAsPublished DEF LogIInv, LogTypeOK, ReadAsPublished
<1>2. SameKeyOrder(produced, ds) => ReadAsPublished(ds)
  BY <1>1, AllReadInOrder DEF SameKeyOrder, SameEvents
<1>3. ASSUME ReadAsPublished(ds) PROVE SameKeyOrder(produced, ds)
  <2>1. SameEvents(produced, ds)
    BY <1>1, <1>3 DEF SameEvents, ReadAsPublished
  <2>2. KeySequences(produced) = KeySequences(ds)
    BY <1>1, <1>3, SameSequences
  <2>3. ASSUME NEW o, NEW i \in OfOrder(ds, o), NEW j \in OfOrder(ds, o)
        PROVE  /\ ds[i].partition = ds[j].partition
               /\ i < j => ds[i].offset < ds[j].offset
               /\ ProducedPartition(produced, ds[i].event) = ds[i].partition
    <3>1. i \in DOMAIN ds /\ j \in DOMAIN ds /\ ds[i].event.order = o /\ ds[j].event.order = o
      BY DEF OfOrder
    <3>2. ds[i].partition = partitionOf[o] /\ ds[j].partition = partitionOf[o]
          /\ ds[i].event \in Events
      BY <3>1, DeliveredInOrder DEF ReaderDone
    <3>3. i < j => ds[i].offset < ds[j].offset
      BY <3>1, DeliveredInOrder DEF ReaderDone
    <3>4. ProducedPartition(produced, ds[i].event) = partitionOf[o]
      <4> PICK e : e = ds[i].event /\ e \in Events /\ e.order = o
        BY <3>1, <3>2
      <4> DEFINE at == {k \in DOMAIN produced : produced[k].event = e}
      <4>1. DOMAIN produced = DOMAIN Published
        BY <1>1, PublishedFacts, LenProperties
      <4>2. at = {IndexOf(e)}
        <5>1. \A k \in DOMAIN produced : produced[k].event = Published[k]
          BY DEF LogIInv, ProducedSound
        <5> QED
          BY <5>1, <4>1, PublishedFacts
      <4>3. IndexOf(e) \in DOMAIN produced /\ IndexOf(e) \in Nat
        BY <4>1, PublishedFacts
      <4>4. (CHOOSE k \in at : \A l \in at : l <= k) = IndexOf(e)
        BY <4>2, <4>3
      <4>5. produced[IndexOf(e)].partition = partitionOf[o]
        BY <4>3, PublishedFacts DEF LogIInv, ProducedSound
      <4> QED
        BY <4>4, <4>5 DEF ProducedPartition
    <3> QED
      BY <3>2, <3>3, <3>4
  <2> QED
    BY <2>1, <2>2, <2>3 DEF SameKeyOrder
<1> QED
  BY <1>2, <1>3

LEMMA WithoutRepeats ==
  ASSUME LogIInv, NEW ds \in Seq(Deliveries), ReaderDone(ds), Len(produced) = Len(Published),
         repeats = 0
  PROVE  ReadAsPublished(ds)
<1>1. ASSUME NEW e \in Events PROVE e \in EventsOf(ds)
  <2> PICK i : i = IndexOf(e)
    OBVIOUS
  <2>1. i \in DOMAIN produced /\ produced[i].event = e /\ InLog(produced[i])
    <3>1. i \in DOMAIN produced /\ Published[i] = e
      BY PublishedFacts, LenProperties DEF LogIInv, LogTypeOK
    <3> QED
      BY <3>1 DEF LogIInv, ProducedSound
  <2> PICK d : d = produced[i] /\ d \in Deliveries
    BY <2>1, LenProperties, ElementOfSeq DEF LogIInv, LogTypeOK
  <2>2. /\ d.partition \in Partitions /\ d.offset \in Nat /\ d.offset < Len(log[d.partition])
        /\ log[d.partition][d.offset + 1] = e
    BY <2>1 DEF Deliveries, InLog
  <2>3. d.offset + 1 \in 1 .. Len(log[d.partition])
    <3>1. Len(log[d.partition]) \in Nat
      BY <2>2, LenProperties DEF LogIInv, LogTypeOK
    <3> QED
      BY <2>2, <3>1
  <2>4. HasRead(ds, d.partition, d.offset + 1)
    BY <2>2, <2>3 DEF ReaderDone, Complete
  <2> QED
    BY <2>2, <2>4 DEF HasRead, EventsOf
<1>2. EventsOf(ds) \subseteq Events
  BY DeliveredInOrder DEF ReaderDone, EventsOf
<1>3. EventsOf(ds) = Events
  BY <1>1, <1>2
<1> QED
  BY <1>3, AllReadInOrder

LEMMA LogReportsTruthfully == LogIInv => ReportTruthful
<1> SUFFICES ASSUME LogIInv, step = "done" PROVE ReportTruthful
  BY DEF ReportTruthful
<1>1. /\ ReaderDone(consumed) /\ ReaderDone(replayed) /\ Len(produced) = Len(Published)
      /\ consumed \in Seq(Deliveries) /\ replayed \in Seq(Deliveries)
      /\ repeats = 0 => resumedAtEnd
  BY DEF LogIInv, ReadersSound, Consuming, LogTypeOK
<1>2. \A ds \in {consumed, replayed} : SameKeyOrder(produced, ds) <=> ReadAsPublished(ds)
  BY <1>1, ComparisonIsRight
<1>3. repeats = 0 => ReadAsPublished(consumed) /\ ReadAsPublished(replayed)
  BY <1>1, WithoutRepeats
<1> QED
  BY <1>1, <1>2, <1>3 DEF ReportTruthful

(* The comparison reports that the order per key was preserved exactly     *)
(* when it was; and when no answer was lost, it was, and the group resumed *)
(* at the end.                                                             *)
THEOREM ReportIsTruthful == LogSpec => []ReportTruthful
<1>1. LogSpec => []LogIInv
  BY LogInvariant
<1> QED
  BY <1>1, LogReportsTruthfully, PTL
==============================================================================
