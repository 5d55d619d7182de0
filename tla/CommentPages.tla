---------------------------- MODULE CommentPages -----------------------------
(***************************************************************************)
(* P07-paginacao-por-cursor: MutableCommentFeed serves its comments page   *)
(* by page, newest first, while others are added, and PaginatedClient      *)
(* walks the pages of a provider: this feed, or one it knows nothing of.   *)
(* A third walk, by offset, is the one the project compares it with.       *)
(*                                                                         *)
(* A comment is its id.  A page is the set of its ids, and whether it      *)
(* repeats one of them, which a foreign provider may do.                   *)
(***************************************************************************)
EXTENDS Integers, Sequences, FiniteSets

CONSTANTS
  Ids,        (* comment ids                                               *)
  PageSize,   (* MutableCommentFeed._page_size                             *)
  MaxPages,   (* PaginatedClient._max_pages                                *)
  Horizon,    (* how many pages ahead an insertion may be scheduled        *)
  Tokens,     (* the cursors of a foreign provider                         *)
  Foreign,    (* the pages it may answer with                              *)
  NoCursor, NoComment

Cursors == [snapshot : Int, after : Int]
Page == [ids : SUBSET Ids, repeats : BOOLEAN]

ASSUME PagesAssumption ==
  /\ Ids \subseteq Int
  /\ PageSize \in Nat \ {0} /\ MaxPages \in Nat \ {0} /\ Horizon \in Nat \ {0}
  /\ NoCursor \notin Cursors \union Tokens \union Nat
  /\ NoComment \notin Ids
  /\ Foreign \subseteq Page

VARIABLES
  comments,   (* MutableCommentFeed._comments                              *)
  scheduled,  (* _scheduled_inserts, by the number of pages still to serve *)
  walk,       (* whose pages are read: "cursor", "foreign" or "offset"     *)
  pc,         (* "idle", "reading", "done" or the error that ended it      *)
  cursor,     (* the next page to ask for: a cursor, or an offset          *)
  seenCursors,
  pages,      (* the pages accepted so far                                 *)
  start       (* history: the comments there were at the walk's first page *)

feedVars == <<comments, scheduled>>
walkVars == <<walk, pc, cursor, seenCursors, pages, start>>
vars == <<feedVars, walkVars>>

Errors == {"cursor_loop", "contract_error", "invalid_cursor", "duplicate_comment", "unavailable"}

Read == UNION {pages[i].ids : i \in DOMAIN pages}

(* The position of c in S, newest first, and n comments from a position on. *)
Rank(c, S) == Cardinality({d \in S : d >= c})
Slice(S, from, n) == {c \in S : Rank(c, S) \in from + 1 .. from + n}
Oldest(S) == CHOOSE c \in S : \A d \in S : c <= d
Newest(S) == CHOOSE c \in S : \A d \in S : c >= d

-----------------------------------------------------------------------------
(* The feed's first comments: ids all different.  The constructor does not *)
(* ask for that, add_comment does.                                         *)
Init ==
  /\ comments \in SUBSET Ids /\ IsFiniteSet(comments)
  /\ scheduled = [n \in 1 .. Horizon |-> NoComment]
  /\ walk = "cursor" /\ pc = "idle"
  /\ cursor = NoCursor /\ seenCursors = {}
  /\ pages = <<>>
  /\ start = {}

(* add_comment: a second comment with the same id is refused.              *)
AddComment ==
  /\ \E c \in Ids \ comments : comments' = comments \union {c}
  /\ UNCHANGED <<scheduled, walkVars>>

(* schedule_insert: the last one scheduled after a page is the one kept.   *)
ScheduleInsert ==
  /\ \E n \in 1 .. Horizon, c \in Ids : scheduled' = [scheduled EXCEPT ![n] = c]
  /\ UNCHANGED <<comments, walkVars>>

(* _after_page: what was scheduled after this page goes in.                *)
InsertFails == scheduled[1] \in comments
AfterPage ==
  /\ start' = IF pages = <<>> THEN comments ELSE start
  /\ scheduled' = [n \in 1 .. Horizon |-> IF n = Horizon THEN NoComment ELSE scheduled[n + 1]]
  /\ comments' = comments \union ({scheduled[1]} \ {NoComment})

-----------------------------------------------------------------------------
(* The walks.                                                              *)

Begin ==
  /\ pc # "reading"
  /\ pc' = "reading"
  /\ \/ walk' \in {"cursor", "foreign"} /\ cursor' = NoCursor
     \/ walk' = "offset" /\ cursor' = 0
  /\ seenCursors' = {}
  /\ pages' = <<>>
  /\ start' = {}
  /\ UNCHANGED feedVars

End(outcome) ==
  /\ pc' = outcome
  /\ UNCHANGED <<walk, cursor, seenCursors, pages>>

(* fetch_all looks at the cursor before it asks for the page.              *)
Loops == cursor \in seenCursors

StopAtLoop ==
  /\ pc = "reading" /\ walk # "offset"
  /\ Loops
  /\ End("cursor_loop")
  /\ UNCHANGED <<feedVars, start>>

(* parse_page refuses an empty page that points to another, fetch_all one  *)
(* that has an item of an earlier page.                                    *)
(* Mutant: only the page just before is compared.                          *)
AcceptableAfterLast(page, next) ==
  /\ page.ids = {} => next = NoCursor
  /\ pages # <<>> => page.ids \intersect pages[Len(pages)].ids = {}
Acceptable(page, next) ==
  /\ page.ids = {} => next = NoCursor
  /\ page.ids \intersect Read = {}

(* What fetch_all does with the page it got.                               *)
Accept(page, next) ==
  /\ seenCursors' = seenCursors \union ({cursor} \ {NoCursor})
  /\ UNCHANGED walk
  /\ \/ /\ ~Acceptable(page, next)
        /\ pc' = "contract_error"
        /\ UNCHANGED <<cursor, pages>>
     \/ /\ Acceptable(page, next)
        /\ pages' = Append(pages, page)
        /\ \/ next = NoCursor /\ pc' = "done" /\ UNCHANGED cursor
           \/ /\ next # NoCursor
              /\ cursor' = next
              /\ pc' = IF Len(pages) + 1 = MaxPages THEN "contract_error" ELSE "reading"

(* MutableCommentFeed.get_page                                             *)
Decodable(c) == c.snapshot >= 0 /\ c.after >= 0 /\ c.after <= c.snapshot
Snapshot ==
  IF cursor # NoCursor THEN cursor.snapshot
  ELSE IF comments = {} THEN 0 ELSE Newest(comments)
(* Mutant: the last comment delivered is eligible again.                   *)
EligibleAgain ==
  {c \in comments : c <= Snapshot /\ (cursor # NoCursor => c <= cursor.after)}
Eligible ==
  {c \in comments : c <= Snapshot /\ (cursor # NoCursor => c < cursor.after)}
FeedPage == Slice(Eligible, 0, PageSize)
(* Mutant: there is more only beyond one more comment.                     *)
NextCursorShort ==
  IF Cardinality(Eligible) > PageSize + 1 THEN [snapshot |-> Snapshot, after |-> Oldest(FeedPage)]
  ELSE NoCursor
NextCursor ==
  IF FeedPage # Eligible THEN [snapshot |-> Snapshot, after |-> Oldest(FeedPage)]
  ELSE NoCursor

ReadFeed ==
  /\ pc = "reading" /\ walk = "cursor" /\ ~Loops
  /\ \/ /\ cursor # NoCursor /\ ~Decodable(cursor)
        /\ End("invalid_cursor")
        /\ UNCHANGED <<feedVars, start>>
     \/ /\ cursor # NoCursor => Decodable(cursor)
        /\ AfterPage
        /\ \/ InsertFails /\ End("duplicate_comment")
           \/ ~InsertFails /\ Accept([ids |-> FeedPage, repeats |-> FALSE], NextCursor)

(* Any other provider: a page of whatever it likes, one that breaks the    *)
(* schema, or an exception.                                                *)
ReadForeign ==
  /\ pc = "reading" /\ walk = "foreign" /\ ~Loops
  /\ \/ \E page \in Foreign, next \in Tokens \union {NoCursor} : Accept(page, next)
     \/ End("contract_error")
     \/ End("unavailable")
  /\ UNCHANGED <<feedVars, start>>

(* MutableCommentFeed.get_offset_page, called by walk_offset.              *)
OffsetPage == Slice(comments, cursor, PageSize)

(* Mutant: the offset is corrected for the comment just inserted.          *)
ReadOffsetCorrected ==
  LET consumed == cursor + Cardinality(OffsetPage) IN
  /\ pc = "reading" /\ walk = "offset"
  /\ AfterPage
  /\ \/ InsertFails /\ End("duplicate_comment")
     \/ /\ ~InsertFails
        /\ pages' = Append(pages, [ids |-> OffsetPage, repeats |-> FALSE])
        /\ IF consumed < Cardinality(comments)
           THEN cursor' = consumed + Cardinality(comments' \ comments) /\ UNCHANGED pc
           ELSE pc' = "done" /\ UNCHANGED cursor
        /\ UNCHANGED <<walk, seenCursors>>
ReadOffset ==
  LET consumed == cursor + Cardinality(OffsetPage) IN
  /\ pc = "reading" /\ walk = "offset"
  /\ AfterPage
  /\ \/ InsertFails /\ End("duplicate_comment")
     \/ /\ ~InsertFails
        /\ pages' = Append(pages, [ids |-> OffsetPage, repeats |-> FALSE])
        /\ IF consumed < Cardinality(comments)
           THEN cursor' = consumed /\ UNCHANGED pc
           ELSE pc' = "done" /\ UNCHANGED cursor
        /\ UNCHANGED <<walk, seenCursors>>

Next ==
  \/ AddComment \/ ScheduleInsert
  \/ Begin \/ StopAtLoop \/ ReadFeed \/ ReadForeign \/ ReadOffset

Spec == Init /\ [][Next]_vars

-----------------------------------------------------------------------------
(* Correctness.                                                            *)

(* Every variable has its type.                                            *)
TypeOK ==
  /\ comments \in SUBSET Ids /\ IsFiniteSet(comments)
  /\ scheduled \in [1 .. Horizon -> Ids \union {NoComment}]
  /\ walk \in {"cursor", "foreign", "offset"}
  /\ pc \in {"idle", "reading", "done"} \union Errors
  /\ cursor \in (CASE walk = "cursor"  -> Cursors \union {NoCursor}
                   [] walk = "foreign" -> Tokens \union {NoCursor}
                   [] walk = "offset"  -> Nat)
  /\ seenCursors \subseteq (IF walk = "cursor" THEN Cursors ELSE Tokens)
  /\ pages \in Seq(Page)
  /\ start \subseteq comments

(* A walk by cursor that completes has every comment there was when it     *)
(* began, each page older than the one before, and of those that came      *)
(* later none newer than the newest it began with.                         *)
CursorWalkComplete ==
  walk = "cursor" /\ pc = "done" =>
    /\ start \subseteq Read /\ Read \subseteq comments
    /\ \A i, j \in DOMAIN pages : i < j =>
         \A c \in pages[i].ids, d \in pages[j].ids : d < c
    /\ \A c \in Read \ start : \E d \in start : c < d

(* Against the feed, the client fails only for want of pages, over a       *)
(* negative id or by an insertion that fails: never by a loop, a duplicate *)
(* or an empty page of the feed's own making.                              *)
FeedFailuresExplained ==
  walk = "cursor" =>
    /\ pc # "cursor_loop"
    /\ pc = "contract_error" => Len(pages) = MaxPages /\ Cardinality(Read) = MaxPages * PageSize
    /\ pc = "invalid_cursor" => \E c \in Read : c < 0

(* Whatever the provider answers, the client stops after max_pages pages   *)
(* and takes no comment from two of them.                                  *)
ClientIsBounded ==
  walk # "offset" =>
    /\ Len(pages) <= MaxPages
    /\ \A i, j \in DOMAIN pages : i # j => pages[i].ids \intersect pages[j].ids = {}

(* A comment created after the start of a walk does not enter it, as the   *)
(* README of P07 (27-28) says of every such comment.  The snapshot bounds  *)
(* ids, not instants: one with a lower id does enter.                      *)
LateStaysOut == walk = "cursor" => Read \subseteq start

(* A walk by offset repeats comments when others are added, but skips none *)
(* of those there were when it began.                                      *)
OffsetNeverSkips ==
  walk = "offset" /\ pc = "done" => start \subseteq Read

(* Neither walk, when it completes, has skipped what was there before it.  *)
WalksComplete == CursorWalkComplete /\ OffsetNeverSkips
=============================================================================
