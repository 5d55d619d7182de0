------------------------- MODULE CommentPagesProofs --------------------------
(***************************************************************************)
(* Proofs about CommentPages, for any comments, page size, page limit,     *)
(* horizon and foreign provider.                                           *)
(*                                                                         *)
(* The argument by cursor: what the feed serves is the newest of what is   *)
(* eligible (FirstPage), so that all that was there at the start and is    *)
(* not older than the last comment read has been read (CursorAt).  By      *)
(* offset: additions only push a comment further from the top (RankGrows), *)
(* so that what was there and has not been read lies beyond the offset     *)
(* (OffsetAt).                                                             *)
(***************************************************************************)
EXTENDS CommentPages, TLAPS, FiniteSetTheorems, WellFoundedInduction

-----------------------------------------------------------------------------
(* Ranks in a finite set of integers.                                      *)

(* A nonempty set of naturals has a least element.                         *)
LEMMA LeastNatural ==
  ASSUME NEW T, T \subseteq Nat, T # {}
  PROVE  \E x \in T : \A y \in T : x <= y
<1> DEFINE R == OpToRel(<, Nat)
<1>1. IsWellFoundedOn(R, Nat)
  BY NatLessThanWellFounded
<1>2. PICK x \in T : \A y \in T : ~(<<y, x>> \in R)
  <2> HIDE DEF R
  <2> QED BY <1>1, WFMin
<1>3. \A y \in T : ~(y < x)
  BY <1>2 DEF OpToRel
<1> QED BY <1>3

LEMMA RankType ==
  ASSUME NEW S, S \subseteq Int, IsFiniteSet(S), NEW c
  PROVE  /\ Rank(c, S) \in Nat
         /\ IsFiniteSet({d \in S : d >= c})
         /\ Rank(c, S) <= Cardinality(S)
         /\ c \in S => Rank(c, S) >= 1
<1> DEFINE U == {d \in S : d >= c}
<1>1. U \in SUBSET S
  OBVIOUS
<1>2. IsFiniteSet(U) /\ Cardinality(U) <= Cardinality(S)
  BY <1>1, FS_Subset
<1>3. Cardinality(U) \in Nat
  BY <1>2, FS_CardinalityType
<1>4. c \in S => U # {}
  OBVIOUS
<1>5. U # {} => Cardinality(U) # 0
  BY <1>2, FS_EmptySet
<1> QED BY <1>2, <1>3, <1>4, <1>5 DEF Rank

(* An older comment has a larger rank.                                     *)
LEMMA RankOrder ==
  ASSUME NEW S, S \subseteq Int, IsFiniteSet(S), NEW x \in S, NEW y \in S, x < y
  PROVE  Rank(y, S) < Rank(x, S)
<1> DEFINE X == {d \in S : d >= x}  Y == {d \in S : d >= y}
<1>1. Y \in SUBSET X /\ X # Y
  <2>0. x \in Int /\ y \in Int /\ \A d \in S : d \in Int
    OBVIOUS
  <2>1. x \in X /\ x \notin Y
    BY <2>0
  <2>2. \A d \in Y : d \in X
    BY <2>0
  <2> QED BY <2>1, <2>2
<1>2. IsFiniteSet(X)
  BY RankType
<1>3. Cardinality(Y) <= Cardinality(X) /\ Cardinality(Y) # Cardinality(X)
  BY <1>1, <1>2, FS_Subset
<1>4. Rank(x, S) \in Nat /\ Rank(y, S) \in Nat
  BY RankType
<1> QED BY <1>3, <1>4 DEF Rank

(* The rank of a comment grows as others are added.                        *)
LEMMA RankGrows ==
  ASSUME NEW S, NEW T, S \subseteq T, T \subseteq Int, IsFiniteSet(T), NEW c
  PROVE  Rank(c, S) <= Rank(c, T)
<1>1. IsFiniteSet({d \in T : d >= c})
  BY RankType
<1>2. {d \in S : d >= c} \in SUBSET {d \in T : d >= c}
  OBVIOUS
<1> QED BY <1>1, <1>2, FS_Subset DEF Rank

(* A nonempty finite set of integers has a newest and an oldest element.   *)
LEMMA NewestExists ==
  ASSUME NEW S, S \subseteq Int, IsFiniteSet(S), S # {}
  PROVE  Newest(S) \in S /\ \A d \in S : Newest(S) >= d
<1> DEFINE T == {Rank(c, S) : c \in S}
<1>1. T \subseteq Nat /\ T # {}
  BY RankType
<1>2. PICK n \in T : \A m \in T : n <= m
  <2> HIDE DEF T
  <2> QED BY <1>1, LeastNatural
<1>3. PICK c \in S : n = Rank(c, S)
  OBVIOUS
<1>4. \A d \in S : c >= d
  <2>1. SUFFICES ASSUME NEW d \in S, ~(c >= d)  PROVE FALSE
    OBVIOUS
  <2>2. Rank(d, S) < Rank(c, S)
    <3>1. c \in Int /\ d \in Int /\ c < d
      BY <2>1
    <3> QED BY <3>1, RankOrder
  <2>3. Rank(c, S) <= Rank(d, S)
    BY <1>2, <1>3
  <2>4. Rank(c, S) \in Nat /\ Rank(d, S) \in Nat
    BY RankType
  <2> QED BY <2>2, <2>3, <2>4
<1> QED BY <1>4 DEF Newest

LEMMA OldestExists ==
  ASSUME NEW S, S \subseteq Int, IsFiniteSet(S), S # {}
  PROVE  Oldest(S) \in S /\ \A d \in S : Oldest(S) <= d
<1> DEFINE T == {Cardinality(S) - Rank(c, S) : c \in S}
<1>0. Cardinality(S) \in Nat
  BY FS_CardinalityType
<1>1. T \subseteq Nat /\ T # {}
  <2>1. \A c \in S : Rank(c, S) \in Nat /\ Rank(c, S) <= Cardinality(S)
    BY RankType
  <2>2. \A c \in S : Cardinality(S) - Rank(c, S) \in Nat
    BY <1>0, <2>1
  <2> QED BY <2>2
<1>2. PICK n \in T : \A m \in T : n <= m
  <2> HIDE DEF T
  <2> QED BY <1>1, LeastNatural
<1>3. PICK c \in S : n = Cardinality(S) - Rank(c, S)
  OBVIOUS
<1>4. \A d \in S : c <= d
  <2>1. SUFFICES ASSUME NEW d \in S, ~(c <= d)  PROVE FALSE
    OBVIOUS
  <2>2. Rank(c, S) < Rank(d, S)
    <3>1. c \in Int /\ d \in Int /\ d < c
      BY <2>1
    <3> QED BY <3>1, RankOrder
  <2>3. Cardinality(S) - Rank(c, S) <= Cardinality(S) - Rank(d, S)
    BY <1>2, <1>3
  <2>4. Rank(c, S) \in Nat /\ Rank(d, S) \in Nat
    BY RankType
  <2> QED BY <1>0, <2>2, <2>3, <2>4
<1> QED BY <1>4 DEF Oldest

-----------------------------------------------------------------------------
(* Pages.                                                                  *)

(* The first page of S: newer than the rest, and full if there is a rest.  *)
LEMMA FirstPage ==
  ASSUME NEW S, S \subseteq Int, IsFiniteSet(S), NEW n \in Nat \ {0}
  PROVE  /\ Slice(S, 0, n) \subseteq S /\ IsFiniteSet(Slice(S, 0, n))
         /\ \A x \in S \ Slice(S, 0, n), y \in Slice(S, 0, n) : x < y
         /\ S # {} => Slice(S, 0, n) # {}
         /\ Slice(S, 0, n) # S => Cardinality(Slice(S, 0, n)) = n
<1> DEFINE P == Slice(S, 0, n)
<1> SUFFICES /\ P \subseteq S /\ IsFiniteSet(P)
             /\ \A x \in S \ P, y \in P : x < y
             /\ S # {} => P # {}
             /\ P # S => Cardinality(P) = n
  OBVIOUS
<1>0. P = {c \in S : Rank(c, S) <= n}
  <2>1. \A c \in S : Rank(c, S) \in Nat /\ Rank(c, S) >= 1
    BY RankType
  <2>2. \A c \in S : Rank(c, S) \in 0 + 1 .. 0 + n <=> Rank(c, S) <= n
    BY <2>1
  <2> QED BY <2>2 DEF Slice
<1> HIDE DEF P
<1> USE <1>0
<1>1. P \in SUBSET S /\ IsFiniteSet(P)
  BY FS_Subset
<1>2. \A x \in S \ P, y \in P : x < y
  <2>1. SUFFICES ASSUME NEW x \in S \ P, NEW y \in P, ~(x < y)  PROVE FALSE
    OBVIOUS
  <2>2. x # y /\ x \in Int /\ y \in Int
    OBVIOUS
  <2>3. Rank(x, S) < Rank(y, S)
    <3>1. x \in S /\ y \in S /\ y < x
      BY <2>1, <2>2
    <3> QED BY <3>1, RankOrder
  <2>4. Rank(x, S) \in Nat /\ Rank(y, S) \in Nat
    BY RankType
  <2> QED BY <2>3, <2>4
<1>3. S # {} => P # {}
  <2>1. SUFFICES ASSUME S # {}  PROVE P # {}
    OBVIOUS
  <2>2. PICK x \in S : \A d \in S : x >= d
    BY <2>1, NewestExists
  <2>3. {d \in S : d >= x} = {x}
    <3>1. x \in Int /\ \A d \in S : d \in Int
      OBVIOUS
    <3>2. \A d \in S : d >= x <=> d = x
      BY <2>2, <3>1
    <3> QED BY <3>2
  <2>4. Rank(x, S) = 1
    BY <2>3, FS_Singleton DEF Rank
  <2> QED BY <2>2, <2>4
<1>4. P # S => Cardinality(P) = n
  <2>1. SUFFICES ASSUME P # S  PROVE Cardinality(P) = n
    OBVIOUS
  <2>2. Cardinality(P) \in Nat
    BY <1>1, FS_CardinalityType
  <2>3. Cardinality(P) <= n
    <3>1. P # {}
      BY <1>1, <1>3, <2>1
    <3>2. Oldest(P) \in P /\ \A d \in P : Oldest(P) <= d
      BY <1>1, <3>1, OldestExists
    <3> DEFINE U == {d \in S : d >= Oldest(P)}
    <3>3. IsFiniteSet(U) /\ Cardinality(U) <= n
      BY <3>2, RankType DEF Rank
    <3>4. P \in SUBSET U
      BY <1>1, <3>2
    <3>5. Cardinality(U) \in Nat
      BY <3>3, FS_CardinalityType
    <3> QED BY <2>2, <3>3, <3>4, <3>5, FS_Subset
  <2>4. Cardinality(P) >= n
    <3>1. S \ P \subseteq Int /\ IsFiniteSet(S \ P) /\ S \ P # {}
      BY <1>1, <2>1, FS_Subset
    <3> DEFINE x == Newest(S \ P)
    <3>2. x \in S \ P /\ \A d \in S \ P : x >= d
      BY <3>1, NewestExists
    <3>3. {d \in S : d >= x} = P \union {x}
      <4> HIDE DEF x
      <4>0. x \in Int /\ \A d \in S : d \in Int
        BY <3>2
      <4>1. \A d \in P : d > x
        BY <1>1, <1>2, <3>2, <4>0
      <4>2. \A d \in S : d >= x => d \in P \/ d = x
        BY <3>2, <4>0
      <4>3. {d \in S : d >= x} \subseteq P \union {x}
        BY <4>2
      <4>4. x \in S /\ x >= x /\ \A d \in P : d \in S /\ d >= x
        BY <1>1, <3>2, <4>0, <4>1
      <4> QED BY <4>3, <4>4
    <3>4. Rank(x, S) = Cardinality(P) + 1
      BY <1>1, <3>2, <3>3, FS_AddElement DEF Rank
    <3>5. ~(Rank(x, S) <= n)
      BY <3>2
    <3> QED BY <2>2, <3>4, <3>5
  <2> QED BY <2>2, <2>3, <2>4
<1> QED BY <1>1, <1>2, <1>3, <1>4

(* A page at an offset has at most n comments: those before it, and it,    *)
(* are no more than offset + n.                                            *)
LEMMA PageAtOffset ==
  ASSUME NEW S, S \subseteq Int, IsFiniteSet(S), NEW n \in Nat \ {0},
         NEW o \in Nat
  PROVE  /\ Slice(S, o, n) \subseteq S /\ IsFiniteSet(Slice(S, o, n))
         /\ Cardinality(Slice(S, o, n)) \in Nat /\ Cardinality(Slice(S, o, n)) <= n
<1> DEFINE P == Slice(S, o, n)
<1> SUFFICES /\ P \subseteq S /\ IsFiniteSet(P)
             /\ Cardinality(P) \in Nat /\ Cardinality(P) <= n
  OBVIOUS
<1>0. P = {c \in S : Rank(c, S) \in o + 1 .. o + n}
  BY DEF Slice
<1> HIDE DEF P
<1> USE <1>0
<1>1. P \in SUBSET S /\ IsFiniteSet(P)
  BY FS_Subset
<1>2. Cardinality(P) \in Nat
  BY <1>1, FS_CardinalityType
<1>3. CASE P = {}
  <2>1. Cardinality(P) = 0
    BY <1>3, FS_EmptySet
  <2> QED BY <1>1, <2>1
<1>4. CASE P # {}
  <2> DEFINE old == Oldest(P)  new == Newest(P)
             U == {d \in S : d >= old}  V == {d \in S : d >= new} \ {new}
  <2>1. old \in P /\ \A d \in P : old <= d
    BY <1>1, <1>4, OldestExists
  <2>2. new \in P /\ \A d \in P : new >= d
    BY <1>1, <1>4, NewestExists
  <2> HIDE DEF old, new
  <2>0. old \in S /\ new \in S /\ \A d \in S : d \in Int
    BY <1>1, <2>1, <2>2
  <2>a. Rank(old, S) \in o + 1 .. o + n /\ Rank(new, S) \in o + 1 .. o + n
    BY <2>1, <2>2
  <2>3. IsFiniteSet(U) /\ Cardinality(U) \in Nat /\ Cardinality(U) <= o + n
    <3>1. IsFiniteSet(U) /\ Cardinality(U) \in Nat
      BY RankType DEF Rank
    <3> QED BY <2>a, <3>1 DEF Rank
  <2>4. IsFiniteSet(V) /\ Cardinality(V) \in Nat /\ Cardinality(V) >= o
    <3> DEFINE W == {d \in S : d >= new}
    <3>1. IsFiniteSet(W) /\ Cardinality(W) \in Nat /\ Cardinality(W) >= o + 1
      <4>1. IsFiniteSet(W) /\ Cardinality(W) \in Nat
        BY RankType DEF Rank
      <4> QED BY <2>a, <4>1 DEF Rank
    <3>2. new \in W
      BY <2>0
    <3> HIDE DEF W
    <3>3. IsFiniteSet(W \ {new}) /\ Cardinality(W \ {new}) = Cardinality(W) - 1
      BY <3>1, <3>2, FS_RemoveElement
    <3>4. Cardinality(W \ {new}) \in Nat /\ Cardinality(W \ {new}) >= o
      BY <3>1, <3>3
    <3> QED BY <3>3, <3>4 DEF W
  <2>5. P \union V \in SUBSET U
    <3>1. \A d \in P : d \in U
      BY <1>1, <2>1, <2>0
    <3>2. old <= new
      BY <2>1, <2>2
    <3>3. \A d \in V : d \in U
      BY <2>0, <3>2
    <3> QED BY <3>1, <3>3
  <2>6. P \intersect V = {}
    <3>1. \A d \in V : d \in S /\ d > new
      BY <2>0
    <3>2. \A d \in P : ~(d > new)
      BY <1>1, <2>0, <2>2
    <3> QED BY <3>1, <3>2
  <2>7. Cardinality(P \union V) = Cardinality(P) + Cardinality(V)
    <3> HIDE DEF V
    <3>1. Cardinality(P \union V)
            = Cardinality(P) + Cardinality(V) - Cardinality(P \cap V)
      BY <1>1, <2>4, FS_Union
    <3>2. Cardinality(P \cap V) = 0
      BY <2>6, FS_EmptySet
    <3> QED BY <1>2, <2>4, <3>1, <3>2
  <2>8. Cardinality(P \union V) <= Cardinality(U)
    BY <2>3, <2>5, FS_Subset
  <2> HIDE DEF U, V
  <2> QED BY <1>1, <1>2, <2>3, <2>4, <2>7, <2>8
<1> QED BY <1>1, <1>2, <1>3, <1>4

-----------------------------------------------------------------------------
(* The inductive invariant.                                                *)

(* Where a walk by cursor stands: all that is newer than its cursor, and   *)
(* was there at the start, has been read; the pages read are full; and the *)
(* cursors it has followed were all newer.                                 *)
CursorAt ==
  walk = "cursor" /\ pc = "reading" =>
    IF cursor = NoCursor THEN pages = <<>> /\ seenCursors = {}
    ELSE /\ cursor.after \in Read /\ cursor.snapshot \in start
         /\ \A c \in Read : cursor.after <= c /\ c <= cursor.snapshot
         /\ \A c \in start : c <= cursor.snapshot /\ (c >= cursor.after => c \in Read)
         /\ \A s \in seenCursors : cursor.after < s.after
         /\ pages # <<>>
         /\ Cardinality(Read) = Len(pages) * PageSize

CursorStored == walk = "cursor" => Read \subseteq comments

PagesDescend ==
  walk = "cursor" =>
    \A i, j \in DOMAIN pages : i < j => \A c \in pages[i].ids, d \in pages[j].ids : d < c

Room == walk # "offset" /\ pc = "reading" => Len(pages) < MaxPages

(* Where a walk by offset stands: what it has not read of the start lies   *)
(* beyond the offset, wherever comments were added.                        *)
OffsetAt ==
  walk = "offset" /\ pc = "reading" =>
    /\ pages = <<>> => cursor = 0
    /\ \A c \in start : c \in Read \/ Rank(c, comments) > cursor

IInv ==
  /\ TypeOK
  /\ CursorAt /\ CursorStored /\ PagesDescend /\ Room /\ OffsetAt
  /\ CursorWalkComplete
  /\ FeedFailuresExplained
  /\ ClientIsBounded
  /\ OffsetNeverSkips

LEMMA ReadGrows ==
  ASSUME pages \in Seq(Page), NEW page \in Page, pages' = Append(pages, page)
  PROVE  /\ pages' \in Seq(Page) /\ Len(pages') = Len(pages) + 1 /\ pages' # <<>>
         /\ DOMAIN pages = 1 .. Len(pages) /\ DOMAIN pages' = 1 .. Len(pages) + 1
         /\ \A i \in DOMAIN pages : pages'[i] = pages[i]
         /\ pages'[Len(pages) + 1] = page
         /\ Read' = Read \union page.ids
<1>1. /\ pages' \in Seq(Page) /\ Len(pages') = Len(pages) + 1 /\ pages' # <<>>
      /\ Len(pages) \in Nat
      /\ DOMAIN pages = 1 .. Len(pages) /\ DOMAIN pages' = 1 .. Len(pages) + 1
      /\ \A i \in DOMAIN pages : pages'[i] = pages[i]
      /\ pages'[Len(pages) + 1] = page
  OBVIOUS
<1>2. DOMAIN pages' = DOMAIN pages \union {Len(pages) + 1}
  BY <1>1
<1>3. Read' = UNION {pages'[i].ids : i \in DOMAIN pages'}
  BY DEF Read
<1>4. \A c : c \in Read' <=> c \in Read \/ c \in page.ids
  BY <1>1, <1>2, <1>3 DEF Read
<1> QED BY <1>1, <1>4

LEMMA Stored ==
  ASSUME TypeOK
  PROVE  /\ comments \subseteq Ids /\ comments \subseteq Int /\ IsFiniteSet(comments)
         /\ start \subseteq comments
BY PagesAssumption DEF TypeOK

(* What AfterPage does to the feed.                                        *)
LEMMA FeedGrows ==
  ASSUME TypeOK, AfterPage
  PROVE  /\ comments \subseteq comments' /\ comments' \in SUBSET Ids
         /\ IsFiniteSet(comments')
         /\ scheduled' \in [1 .. Horizon -> Ids \union {NoComment}]
         /\ start' \subseteq comments
         /\ pages # <<>> => start' = start
         /\ pages = <<>> => start' = comments
<1>1. scheduled[1] \in Ids \union {NoComment}
  BY PagesAssumption DEF TypeOK
<1>2. \A n \in 1 .. Horizon : n # Horizon => n + 1 \in 1 .. Horizon
  BY PagesAssumption
<1>3. scheduled' \in [1 .. Horizon -> Ids \union {NoComment}]
  BY <1>2 DEF AfterPage, TypeOK
<1>4. comments' \in SUBSET Ids
  BY <1>1 DEF AfterPage, TypeOK
<1>5. IsFiniteSet(comments')
  <2>1. CASE scheduled[1] = NoComment
    BY <2>1 DEF AfterPage, TypeOK
  <2>2. CASE scheduled[1] # NoComment
    <3>1. comments' = comments \union {scheduled[1]}
      BY <2>2 DEF AfterPage
    <3> QED BY <3>1, FS_AddElement DEF TypeOK
  <2> QED BY <2>1, <2>2
<1> QED BY <1>3, <1>4, <1>5 DEF AfterPage, TypeOK

(* A walk that ends without a page changes nothing the invariant says of   *)
(* the pages.                                                              *)
LEMMA EndPreserves ==
  ASSUME IInv, NEW outcome \in Errors, End(outcome),
         comments \subseteq comments', comments' \in SUBSET Ids, IsFiniteSet(comments'),
         scheduled' \in [1 .. Horizon -> Ids \union {NoComment}],
         start' \subseteq comments',
         walk = "cursor" =>
           \/ outcome = "duplicate_comment"
           \/ outcome = "invalid_cursor" /\ \E c \in Read : c < 0
  PROVE  IInv'
<1>1. Read' = Read
  BY DEF End, Read
<1>2. TypeOK'
  BY DEF IInv, TypeOK, End
<1>3. CursorAt' /\ Room' /\ OffsetAt' /\ CursorWalkComplete' /\ OffsetNeverSkips'
  BY DEF End, Errors, CursorAt, Room, OffsetAt, CursorWalkComplete, OffsetNeverSkips
<1>4. CursorStored' /\ PagesDescend'
  BY <1>1 DEF IInv, End, CursorStored, PagesDescend
<1>5. FeedFailuresExplained'
  BY <1>1 DEF End, FeedFailuresExplained
<1>6. ClientIsBounded'
  BY DEF IInv, End, ClientIsBounded
<1> QED BY <1>2, <1>3, <1>4, <1>5, <1>6 DEF IInv

LEMMA InitInv == Init => IInv
<1> SUFFICES ASSUME Init  PROVE IInv
  OBVIOUS
<1>1. Read = {} /\ DOMAIN pages = {} /\ Len(pages) = 0
  BY DEF Init, Read
<1>2. TypeOK
  BY PagesAssumption DEF Init, TypeOK
<1>3. CursorStored /\ PagesDescend /\ ClientIsBounded
  BY <1>1, PagesAssumption DEF Init, CursorStored, PagesDescend, ClientIsBounded
<1>4. CursorAt /\ Room /\ OffsetAt /\ CursorWalkComplete /\ FeedFailuresExplained /\ OffsetNeverSkips
  BY DEF Init, CursorAt, Room, OffsetAt, CursorWalkComplete, FeedFailuresExplained, OffsetNeverSkips
<1> QED BY <1>2, <1>3, <1>4 DEF IInv

LEMMA AddPreserves ==
  ASSUME IInv, AddComment \/ ScheduleInsert
  PROVE  IInv'
<1>1. UNCHANGED walkVars
  BY DEF AddComment, ScheduleInsert
<1>2. /\ comments \subseteq comments' /\ comments' \in SUBSET Ids /\ IsFiniteSet(comments')
      /\ scheduled' \in [1 .. Horizon -> Ids \union {NoComment}]
  <2>1. CASE AddComment
    <3>1. PICK c \in Ids \ comments : comments' = comments \union {c}
      BY <2>1 DEF AddComment
    <3>2. IsFiniteSet(comments \union {c})
      BY FS_AddElement DEF IInv, TypeOK
    <3> QED BY <2>1, <3>1, <3>2 DEF AddComment, IInv, TypeOK
  <2>2. CASE ScheduleInsert
    BY <2>2 DEF ScheduleInsert, IInv, TypeOK
  <2> QED BY <2>1, <2>2
<1>3. Read' = Read
  BY <1>1 DEF walkVars, Read
<1>4. TypeOK'
  BY <1>1, <1>2 DEF IInv, TypeOK, walkVars
<1>5. CursorAt' /\ PagesDescend' /\ Room' /\ FeedFailuresExplained' /\ ClientIsBounded'
      /\ OffsetNeverSkips'
  BY <1>1, <1>3 DEF IInv, walkVars, CursorAt, PagesDescend, Room, FeedFailuresExplained,
     ClientIsBounded, OffsetNeverSkips
<1>6. CursorStored' /\ CursorWalkComplete'
  BY <1>1, <1>2, <1>3 DEF IInv, walkVars, CursorStored, CursorWalkComplete
<1>7. OffsetAt'
  <2>1. SUFFICES ASSUME walk = "offset", pc = "reading", NEW c \in start, c \notin Read
                 PROVE  Rank(c, comments') > cursor
    BY <1>1, <1>3 DEF IInv, OffsetAt, walkVars
  <2>2. Rank(c, comments) > cursor /\ cursor \in Nat
    BY <2>1 DEF IInv, OffsetAt, TypeOK
  <2>3. comments' \subseteq Int
    BY <1>2, PagesAssumption
  <2>4. Rank(c, comments) <= Rank(c, comments') /\ Rank(c, comments') \in Nat
    BY <1>2, <2>3, RankGrows, RankType
  <2>5. Rank(c, comments) \in Nat
    BY Stored, RankType DEF IInv
  <2> QED BY <2>2, <2>4, <2>5
<1> QED BY <1>4, <1>5, <1>6, <1>7 DEF IInv

LEMMA BeginPreserves ==
  ASSUME IInv, Begin
  PROVE  IInv'
<1>1. pages' = <<>> /\ start' = {} /\ seenCursors' = {} /\ pc' = "reading" /\ UNCHANGED feedVars
  BY DEF Begin
<1>2. Read' = {} /\ DOMAIN pages' = {} /\ Len(pages') = 0
  BY <1>1 DEF Read
<1>3. TypeOK'
  BY <1>1 DEF Begin, IInv, TypeOK, feedVars
<1>4. CursorAt' /\ CursorStored' /\ PagesDescend'
  BY <1>1, <1>2 DEF Begin, CursorAt, CursorStored, PagesDescend
<1>5. Room' /\ OffsetAt' /\ ClientIsBounded'
  BY <1>1, <1>2, PagesAssumption DEF Begin, Room, OffsetAt, ClientIsBounded
<1>6. CursorWalkComplete' /\ FeedFailuresExplained' /\ OffsetNeverSkips'
  BY <1>1 DEF CursorWalkComplete, FeedFailuresExplained, OffsetNeverSkips
<1> QED BY <1>3, <1>4, <1>5, <1>6 DEF IInv

-----------------------------------------------------------------------------
(* The client.                                                             *)

(* A page it accepts shares no comment with an earlier one.                *)
LEMMA AcceptKeepsBounds ==
  ASSUME IInv, pc = "reading", walk # "offset", NEW page \in Page, NEW next, Accept(page, next)
  PROVE  ClientIsBounded' /\ Room'
<1>0. Len(pages) \in Nat /\ Len(pages) < MaxPages /\ MaxPages \in Nat
  BY PagesAssumption DEF IInv, TypeOK, Room
<1>1. CASE UNCHANGED pages /\ pc' = "contract_error"
  BY <1>1 DEF IInv, ClientIsBounded, Room, Accept
<1>2. CASE Acceptable(page, next) /\ pages' = Append(pages, page)
  <2>1. /\ Len(pages') = Len(pages) + 1
        /\ DOMAIN pages = 1 .. Len(pages) /\ DOMAIN pages' = 1 .. Len(pages) + 1
        /\ \A i \in DOMAIN pages : pages'[i] = pages[i]
        /\ pages'[Len(pages) + 1] = page
    BY <1>2, ReadGrows DEF IInv, TypeOK
  <2>2. \A i \in DOMAIN pages : pages[i].ids \intersect page.ids = {}
    BY <1>2 DEF Acceptable, Read
  <2>3. \A i, j \in DOMAIN pages' : i # j => pages'[i].ids \intersect pages'[j].ids = {}
    <3>1. SUFFICES ASSUME NEW i \in DOMAIN pages', NEW j \in DOMAIN pages', i # j
                   PROVE  pages'[i].ids \intersect pages'[j].ids = {}
      OBVIOUS
    <3>2. CASE i \in DOMAIN pages /\ j \in DOMAIN pages
      BY <2>1, <3>1, <3>2 DEF IInv, ClientIsBounded
    <3>3. CASE i = Len(pages) + 1
      <4>1. j \in DOMAIN pages
        BY <1>0, <2>1, <3>1, <3>3
      <4> QED BY <2>1, <2>2, <3>3, <4>1
    <3>4. CASE j = Len(pages) + 1
      <4>1. i \in DOMAIN pages
        BY <1>0, <2>1, <3>1, <3>4
      <4> QED BY <2>1, <2>2, <3>4, <4>1
    <3>5. \A k \in DOMAIN pages' : k \in DOMAIN pages \/ k = Len(pages) + 1
      BY <1>0, <2>1
    <3> QED BY <3>2, <3>3, <3>4, <3>5
  <2>4. ClientIsBounded'
    BY <1>0, <2>1, <2>3 DEF ClientIsBounded
  <2>5. Room'
    BY <1>0, <1>2, <2>1 DEF Accept, Room
  <2> QED BY <2>4, <2>5
<1> QED BY <1>1, <1>2 DEF Accept

LEMMA StopPreserves ==
  ASSUME IInv, StopAtLoop
  PROVE  IInv'
<1>1. walk # "cursor"
  <2>1. CASE cursor = NoCursor
    BY <2>1 DEF IInv, CursorAt, StopAtLoop, Loops
  <2>2. CASE cursor # NoCursor
    <3>1. SUFFICES ASSUME walk = "cursor"  PROVE FALSE
      OBVIOUS
    <3>2. cursor \in Cursors /\ cursor.after < cursor.after
      BY <2>2, <3>1 DEF IInv, TypeOK, CursorAt, StopAtLoop, Loops
    <3> QED BY <3>2 DEF Cursors
  <2> QED BY <2>1, <2>2
<1>2. End("cursor_loop") /\ "cursor_loop" \in Errors /\ UNCHANGED <<feedVars, start>>
  BY DEF StopAtLoop, Errors
<1>3. /\ comments' = comments /\ scheduled' = scheduled /\ start' = start
  BY <1>2 DEF feedVars
<1> HIDE DEF End, Errors
<1> QED BY <1>1, <1>2, <1>3, EndPreserves DEF IInv, TypeOK

LEMMA ForeignPreserves ==
  ASSUME IInv, ReadForeign
  PROVE  IInv'
<1>0. /\ comments' = comments /\ scheduled' = scheduled /\ start' = start
      /\ walk = "foreign" /\ pc = "reading"
  BY DEF ReadForeign, feedVars
<1>1. CASE End("contract_error") \/ End("unavailable")
  <2>1. "contract_error" \in Errors /\ "unavailable" \in Errors
    BY DEF Errors
  <2> HIDE DEF End, Errors
  <2> QED BY <1>0, <1>1, <2>1, EndPreserves DEF IInv, TypeOK
<1>2. CASE \E page \in Foreign, next \in Tokens \union {NoCursor} : Accept(page, next)
  <2>1. PICK page \in Foreign, next \in Tokens \union {NoCursor} : Accept(page, next)
    BY <1>2
  <2>2. page \in Page
    BY PagesAssumption
  <2>3. ClientIsBounded' /\ Room'
    BY <1>0, <2>1, <2>2, AcceptKeepsBounds
  <2>4. walk' = "foreign" /\ pc' \in {"reading", "done"} \union Errors
    BY <1>0, <2>1 DEF Accept, Errors
  <2>5. TypeOK'
    <3>1. pages' \in Seq(Page)
      BY <2>1, <2>2 DEF IInv, TypeOK, Accept
    <3>2. cursor' \in Tokens \union {NoCursor}
      BY <1>0, <2>1 DEF IInv, TypeOK, Accept
    <3>3. seenCursors' \subseteq Tokens
      BY <1>0, <2>1 DEF IInv, TypeOK, Accept
    <3> QED BY <1>0, <2>4, <3>1, <3>2, <3>3 DEF IInv, TypeOK
  <2>6. CursorAt' /\ CursorStored' /\ PagesDescend' /\ OffsetAt'
    BY <2>4 DEF CursorAt, CursorStored, PagesDescend, OffsetAt
  <2>7. CursorWalkComplete' /\ FeedFailuresExplained' /\ OffsetNeverSkips'
    BY <2>4 DEF CursorWalkComplete, FeedFailuresExplained, OffsetNeverSkips
  <2> QED BY <2>3, <2>5, <2>6, <2>7 DEF IInv
<1> QED BY <1>1, <1>2 DEF ReadForeign

-----------------------------------------------------------------------------
(* The feed, by offset.                                                    *)

LEMMA OffsetPreserves ==
  ASSUME IInv, ReadOffset
  PROVE  IInv'
<1> DEFINE consumed == cursor + Cardinality(OffsetPage)
           page == [ids |-> OffsetPage, repeats |-> FALSE]
<1>0. /\ walk = "offset" /\ pc = "reading" /\ AfterPage /\ TypeOK /\ cursor \in Nat
  BY DEF ReadOffset, IInv, TypeOK
<1>1. /\ comments \subseteq comments' /\ comments' \in SUBSET Ids /\ IsFiniteSet(comments')
      /\ scheduled' \in [1 .. Horizon -> Ids \union {NoComment}]
      /\ start' \subseteq comments
      /\ pages # <<>> => start' = start
      /\ pages = <<>> => start' = comments
  BY <1>0, FeedGrows
<1>2. /\ comments \subseteq Ids /\ comments \subseteq Int /\ IsFiniteSet(comments)
      /\ comments' \subseteq Int
  BY <1>0, <1>1, Stored, PagesAssumption
<1>3. /\ OffsetPage \subseteq comments
      /\ Cardinality(OffsetPage) \in Nat /\ Cardinality(OffsetPage) <= PageSize
  BY <1>0, <1>2, PagesAssumption, PageAtOffset DEF OffsetPage
<1>4. CASE InsertFails /\ End("duplicate_comment")
  <2>1. "duplicate_comment" \in Errors
    BY DEF Errors
  <2> HIDE DEF End, Errors
  <2> QED BY <1>0, <1>1, <1>4, <2>1, EndPreserves
<1>5. CASE pages' = Append(pages, page) /\ UNCHANGED <<walk, seenCursors>>
  <2>1. page \in Page
    BY <1>2, <1>3 DEF Page
  <2>2. /\ pages' \in Seq(Page) /\ pages' # <<>>
        /\ Read' = Read \union page.ids
    <3> HIDE DEF page
    <3> QED BY <1>0, <1>5, <2>1, ReadGrows DEF TypeOK
  <2>3. Read' = Read \union OffsetPage
    BY <2>2
  <2>4. pc' \in {"reading", "done"} /\ cursor' \in Nat
    BY <1>0, <1>3, <1>5 DEF ReadOffset, End, Errors
  <2>5. TypeOK'
    BY <1>0, <1>1, <1>5, <2>2, <2>4 DEF TypeOK
  <2>6. \A c \in start' : c \notin Read' => Rank(c, comments) > consumed
    <3>1. SUFFICES ASSUME NEW c \in start', c \notin Read'
                   PROVE  Rank(c, comments) > consumed
      OBVIOUS
    <3>2. Rank(c, comments) \in Nat /\ c \in comments /\ Rank(c, comments) >= 1
      BY <1>1, <1>2, RankType
    <3>3. Rank(c, comments) > cursor
      <4>1. CASE pages = <<>>
        BY <1>0, <3>2, <4>1 DEF IInv, OffsetAt
      <4>2. CASE pages # <<>>
        BY <1>0, <1>1, <2>3, <3>1, <4>2 DEF IInv, OffsetAt
      <4> QED BY <4>1, <4>2
    <3>4. Rank(c, comments) \notin cursor + 1 .. cursor + PageSize
      BY <2>3, <3>1, <3>2 DEF OffsetPage, Slice
    <3> QED BY <1>0, <1>3, <3>2, <3>3, <3>4, PagesAssumption
  <2>7. OffsetAt'
    <3>1. SUFFICES ASSUME pc' = "reading", NEW c \in start', c \notin Read'
                   PROVE  Rank(c, comments') > cursor'
      BY <2>2 DEF OffsetAt
    <3>2. cursor' = consumed /\ consumed \in Nat
      BY <1>0, <1>3, <1>5, <3>1 DEF ReadOffset, End
    <3>3. Rank(c, comments) > consumed
      BY <2>6, <3>1
    <3>4. Rank(c, comments) \in Nat /\ Rank(c, comments') \in Nat
          /\ Rank(c, comments) <= Rank(c, comments')
      BY <1>1, <1>2, RankType, RankGrows
    <3> QED BY <3>2, <3>3, <3>4
  <2>8. OffsetNeverSkips'
    <3>1. SUFFICES ASSUME pc' = "done", NEW c \in start', c \notin Read'
                   PROVE  FALSE
      BY DEF OffsetNeverSkips
    <3>2. ~(consumed < Cardinality(comments)) /\ consumed \in Nat
      BY <1>0, <1>3, <1>5, <3>1 DEF ReadOffset, End
    <3>3. Rank(c, comments) > consumed
      BY <2>6, <3>1
    <3>4. Rank(c, comments) \in Nat /\ Rank(c, comments) <= Cardinality(comments)
          /\ Cardinality(comments) \in Nat
      BY <1>2, RankType, FS_CardinalityType
    <3> QED BY <3>2, <3>3, <3>4
  <2>9. CursorAt' /\ CursorStored' /\ PagesDescend' /\ Room' /\ CursorWalkComplete'
        /\ FeedFailuresExplained' /\ ClientIsBounded'
    BY <1>0, <1>5 DEF CursorAt, CursorStored, PagesDescend, Room, CursorWalkComplete,
       FeedFailuresExplained, ClientIsBounded
  <2> QED BY <2>5, <2>7, <2>8, <2>9 DEF IInv
<1> QED BY <1>4, <1>5 DEF ReadOffset

-----------------------------------------------------------------------------
(* The feed, by cursor.                                                    *)

(* The comments there were at the first page.                              *)
Began == IF pages = <<>> THEN comments ELSE start

LEMMA CursorPage ==
  ASSUME IInv, walk = "cursor", pc = "reading"
  PROVE  /\ Snapshot \in Int
         /\ Eligible \subseteq comments /\ IsFiniteSet(Eligible)
         /\ cursor = NoCursor => pages = <<>> /\ Read = {} /\ Eligible = comments
         /\ cursor # NoCursor =>
              /\ pages # <<>>
              /\ \A c \in Eligible : c < cursor.after /\ \A d \in Read : c < d
         /\ Began # {} => Snapshot \in Began
         /\ \A c \in Began : c <= Snapshot /\ (c \in Eligible \/ c \in Read)
         /\ \A c \in Read : c <= Snapshot
<1>0. /\ comments \subseteq Int /\ IsFiniteSet(comments) /\ start \subseteq comments
      /\ cursor \in Cursors \union {NoCursor}
  BY Stored DEF IInv, TypeOK
<1>1. Eligible \in SUBSET comments
  BY DEF Eligible
<1>2. IsFiniteSet(Eligible)
  BY <1>0, <1>1, FS_Subset
<1>3. CASE cursor = NoCursor
  <2>1. pages = <<>> /\ Read = {}
    <3>1. pages = <<>>
      BY <1>3 DEF IInv, CursorAt
    <3> QED BY <3>1 DEF Read
  <2>2. CASE comments = {}
    <3>1. Snapshot = 0 /\ Eligible = comments /\ Began = {}
      BY <1>3, <2>1, <2>2 DEF Snapshot, Eligible, Began
    <3> QED BY <1>1, <1>2, <1>3, <2>1, <3>1
  <2>3. CASE comments # {}
    <3>1. Snapshot = Newest(comments) /\ Began = comments
      BY <1>3, <2>1, <2>3 DEF Snapshot, Began
    <3>2. Snapshot \in comments /\ \A d \in comments : Snapshot >= d
      BY <1>0, <2>3, <3>1, NewestExists
    <3>3. \A d \in comments : d \in Int /\ d <= Snapshot
      BY <1>0, <3>2
    <3>4. Eligible = comments
      BY <1>3, <3>3 DEF Eligible
    <3>5. Snapshot \in Int
      BY <1>0, <3>2
    <3> QED BY <1>1, <1>2, <1>3, <2>1, <3>1, <3>2, <3>3, <3>4, <3>5
  <2> QED BY <2>2, <2>3
<1>4. CASE cursor # NoCursor
  <2>1. /\ pages # <<>>
        /\ cursor.after \in Read /\ cursor.snapshot \in start
        /\ \A c \in Read : cursor.after <= c /\ c <= cursor.snapshot
        /\ \A c \in start : c <= cursor.snapshot /\ (c >= cursor.after => c \in Read)
        /\ Read \subseteq comments
    BY <1>4 DEF IInv, CursorAt, CursorStored
  <2>2. Snapshot = cursor.snapshot /\ Began = start
    BY <1>4, <2>1 DEF Snapshot, Began
  <2>3. cursor.snapshot \in Int /\ cursor.after \in Int
    BY <1>0, <1>4 DEF Cursors
  <2>4. \A c \in Eligible : c \in Int /\ c < cursor.after
    BY <1>0, <1>4 DEF Eligible
  <2>5. \A c \in Eligible : c < cursor.after /\ \A d \in Read : c < d
    <3>1. \A d \in Read : d \in Int
      BY <1>0, <2>1
    <3> QED BY <2>1, <2>3, <2>4, <3>1
  <2>6. \A c \in start : c \in Eligible \/ c \in Read
    <3>1. \A c \in start : c \in Int /\ c \in comments
      BY <1>0
    <3> QED BY <1>4, <2>1, <2>2, <2>3, <3>1 DEF Eligible
  <2> QED BY <1>1, <1>2, <1>4, <2>1, <2>2, <2>3, <2>5, <2>6
<1> QED BY <1>3, <1>4

LEMMA FeedPages ==
  ASSUME IInv, walk = "cursor", pc = "reading"
  PROVE  /\ FeedPage \subseteq Eligible /\ IsFiniteSet(FeedPage)
         /\ \A c \in Eligible \ FeedPage, d \in FeedPage : c < d
         /\ FeedPage # Eligible =>
              /\ FeedPage # {} /\ Cardinality(FeedPage) = PageSize
              /\ Oldest(FeedPage) \in FeedPage
              /\ \A d \in FeedPage : Oldest(FeedPage) <= d
         /\ FeedPage \intersect Read = {}
         /\ [ids |-> FeedPage, repeats |-> FALSE] \in Page
<1>1. Eligible \subseteq comments /\ Eligible \subseteq Int /\ IsFiniteSet(Eligible)
  BY CursorPage, Stored DEF IInv
<1>2. /\ FeedPage \subseteq Eligible /\ IsFiniteSet(FeedPage)
      /\ \A c \in Eligible \ FeedPage, d \in FeedPage : c < d
      /\ Eligible # {} => FeedPage # {}
      /\ FeedPage # Eligible => Cardinality(FeedPage) = PageSize
  BY <1>1, PagesAssumption, FirstPage DEF FeedPage
<1>3. FeedPage # Eligible => FeedPage # {}
  BY <1>2
<1>4. FeedPage \subseteq Int
  BY <1>1, <1>2
<1>5. FeedPage # {} =>
        Oldest(FeedPage) \in FeedPage /\ \A d \in FeedPage : Oldest(FeedPage) <= d
  BY <1>2, <1>4, OldestExists
<1>6. FeedPage \intersect Read = {}
  <2>1. \A c \in Eligible : c \in Int
    BY <1>1
  <2>2. \A c \in Eligible : c \notin Read
    BY <2>1, CursorPage
  <2> QED BY <1>2, <2>2
<1>7. [ids |-> FeedPage, repeats |-> FALSE] \in Page
  BY <1>1, <1>2, Stored DEF IInv, Page
<1> QED BY <1>2, <1>3, <1>5, <1>6, <1>7

(* A page of the feed that the client gets.                                *)
LEMMA ServePreserves ==
  ASSUME IInv, walk = "cursor", pc = "reading", AfterPage,
         Accept([ids |-> FeedPage, repeats |-> FALSE], NextCursor)
  PROVE  IInv'
<1> DEFINE page == [ids |-> FeedPage, repeats |-> FALSE]
<1>0. /\ TypeOK /\ comments \subseteq Int /\ IsFiniteSet(comments)
      /\ cursor \in Cursors \union {NoCursor} /\ Len(pages) \in Nat
  BY Stored DEF IInv, TypeOK
<1>1. /\ comments \subseteq comments' /\ comments' \in SUBSET Ids /\ IsFiniteSet(comments')
      /\ scheduled' \in [1 .. Horizon -> Ids \union {NoComment}]
      /\ start' = Began /\ start' \subseteq comments
  BY <1>0, FeedGrows DEF Began
<1>2. Acceptable(page, NextCursor)
  BY FeedPages DEF Acceptable, NextCursor
<1>3. /\ pages' = Append(pages, page)
      /\ UNCHANGED walk
      /\ seenCursors' = seenCursors \union ({cursor} \ {NoCursor})
      /\ \/ NextCursor = NoCursor /\ pc' = "done" /\ UNCHANGED cursor
         \/ /\ NextCursor # NoCursor
            /\ cursor' = NextCursor
            /\ pc' = IF Len(pages) + 1 = MaxPages THEN "contract_error" ELSE "reading"
  BY <1>2 DEF Accept
<1>4. /\ pages' \in Seq(Page) /\ Len(pages') = Len(pages) + 1 /\ pages' # <<>>
      /\ DOMAIN pages = 1 .. Len(pages) /\ DOMAIN pages' = 1 .. Len(pages) + 1
      /\ \A i \in DOMAIN pages : pages'[i] = pages[i]
      /\ pages'[Len(pages) + 1].ids = FeedPage
      /\ Read' = Read \union FeedPage
  <2>1. page \in Page /\ page.ids = FeedPage
    BY FeedPages
  <2> HIDE DEF page
  <2> QED BY <1>0, <1>3, <2>1, ReadGrows DEF TypeOK
<1>5. NextCursor # NoCursor => FeedPage # Eligible
  BY DEF NextCursor
<1>6. NextCursor = NoCursor => FeedPage = Eligible
  <2>1. FeedPage # Eligible => NextCursor \in Cursors
    <3>1. FeedPage # Eligible => Oldest(FeedPage) \in Int
      BY <1>0, FeedPages, CursorPage
    <3> QED BY <3>1, CursorPage DEF NextCursor, Cursors
  <2> QED BY <2>1, PagesAssumption
<1>7. NextCursor # NoCursor =>
        /\ NextCursor \in Cursors
        /\ NextCursor.snapshot = Snapshot /\ NextCursor.after = Oldest(FeedPage)
        /\ Oldest(FeedPage) \in Int
  <2>1. NextCursor # NoCursor => Oldest(FeedPage) \in Int
    BY <1>0, <1>5, FeedPages, CursorPage
  <2> QED BY <1>5, <2>1, CursorPage DEF NextCursor, Cursors
<1>8. FeedPage \subseteq comments /\ Read \subseteq comments
  BY FeedPages, CursorPage DEF IInv, CursorStored
<1>9. \A c \in Read : \A d \in FeedPage : d < c
  <2>1. CASE cursor = NoCursor
    BY <2>1, CursorPage
  <2>2. CASE cursor # NoCursor
    BY <2>2, CursorPage, FeedPages
  <2> QED BY <2>1, <2>2
<1>10. TypeOK'
  <2>1. cursor' \in Cursors \union {NoCursor}
    BY <1>0, <1>3, <1>7
  <2>2. seenCursors' \subseteq Cursors
    BY <1>0, <1>3 DEF TypeOK
  <2>3. pc' \in {"done", "reading"} \union Errors
    BY <1>3 DEF Errors
  <2> QED BY <1>0, <1>1, <1>3, <1>4, <2>1, <2>2, <2>3 DEF TypeOK
<1>11. CursorStored'
  BY <1>1, <1>4, <1>8 DEF CursorStored
<1>12. PagesDescend'
  <2>1. SUFFICES ASSUME NEW i \in DOMAIN pages', NEW j \in DOMAIN pages', i < j,
                        NEW c \in pages'[i].ids, NEW d \in pages'[j].ids
                 PROVE  d < c
    BY DEF PagesDescend
  <2>2. i \in DOMAIN pages /\ c \in Read
    BY <1>0, <1>4, <2>1 DEF Read
  <2>3. CASE j \in DOMAIN pages
    BY <1>4, <2>1, <2>2, <2>3 DEF IInv, PagesDescend
  <2>4. CASE j \notin DOMAIN pages
    <3>1. j = Len(pages) + 1
      BY <1>0, <1>4, <2>1, <2>4
    <3> QED BY <1>4, <1>9, <2>1, <2>2, <3>1
  <2> QED BY <2>3, <2>4
<1>13. ClientIsBounded' /\ Room'
  <2>1. page \in Page
    BY FeedPages
  <2> HIDE DEF page
  <2> QED BY <2>1, AcceptKeepsBounds DEF page
<1>14. /\ \A c \in start' : c <= Snapshot
       /\ start' # {} => Snapshot \in start'
       /\ \A c \in Read' : c <= Snapshot
       /\ Read' # {} => start' # {}
  <2>1. \A c \in Eligible : c <= Snapshot
    BY DEF Eligible
  <2>2. Read' # {} => start' # {}
    <3>1. CASE cursor = NoCursor
      BY <1>1, <1>4, <1>8, <3>1, CursorPage DEF Began
    <3>2. CASE cursor # NoCursor
      BY <1>1, <3>2, CursorPage DEF Began, IInv, CursorAt
    <3> QED BY <3>1, <3>2
  <2> QED BY <1>1, <1>4, <2>1, <2>2, CursorPage, FeedPages
<1>15. CursorWalkComplete'
  <2>1. SUFFICES ASSUME pc' = "done"
                 PROVE  start' \subseteq Read' /\ \A c \in Read' \ start' : \E d \in start' : c < d
    BY <1>3, <1>11, <1>12 DEF CursorWalkComplete, CursorStored, PagesDescend
  <2>2. FeedPage = Eligible
    BY <1>3, <1>6, <2>1
  <2>3. start' \subseteq Read'
    BY <1>1, <1>4, <2>2, CursorPage
  <2>4. \A c \in Read' \ start' : c < Snapshot /\ Snapshot \in start'
    <3>1. SUFFICES ASSUME NEW c \in Read' \ start'  PROVE c < Snapshot /\ Snapshot \in start'
      OBVIOUS
    <3>2. Snapshot \in start' /\ c <= Snapshot
      BY <1>14, <3>1
    <3>3. c \in Int /\ Snapshot \in Int /\ c # Snapshot
      BY <1>0, <1>4, <1>8, <3>1, <3>2, CursorPage
    <3> QED BY <3>2, <3>3
  <2> QED BY <2>3, <2>4
<1>16. NextCursor # NoCursor => Cardinality(Read') = (Len(pages) + 1) * PageSize
  <2>1. SUFFICES ASSUME NextCursor # NoCursor
                 PROVE  Cardinality(Read') = (Len(pages) + 1) * PageSize
    OBVIOUS
  <2>2. IsFiniteSet(Read) /\ Cardinality(Read) \in Nat
    BY <1>0, <1>8, FS_Subset, FS_CardinalityType
  <2>3. Cardinality(Read) = Len(pages) * PageSize
    <3>1. CASE cursor = NoCursor
      <4>1. Read = {} /\ Len(pages) = 0
        BY <3>1, CursorPage
      <4>2. Cardinality(Read) = 0
        BY <4>1, FS_EmptySet
      <4> QED BY <4>1, <4>2, PagesAssumption
    <3>2. CASE cursor # NoCursor
      BY <3>2 DEF IInv, CursorAt
    <3> QED BY <3>1, <3>2
  <2>4. IsFiniteSet(FeedPage) /\ Cardinality(FeedPage) = PageSize
    BY <1>5, <2>1, FeedPages
  <2>5. Cardinality(Read \cap FeedPage) = 0
    <3>1. Read \cap FeedPage = {}
      BY FeedPages
    <3> QED BY <3>1, FS_EmptySet
  <2>6. Cardinality(Read') = Cardinality(Read) + PageSize
    <3>1. Cardinality(Read \cup FeedPage)
            = Cardinality(Read) + Cardinality(FeedPage) - Cardinality(Read \cap FeedPage)
      BY <2>2, <2>4, FS_Union
    <3> QED BY <1>4, <2>2, <2>4, <2>5, <3>1, PagesAssumption
  <2>7. Len(pages) * PageSize + PageSize = (Len(pages) + 1) * PageSize
    BY <1>0, PagesAssumption
  <2> QED BY <2>3, <2>6, <2>7
<1>17. FeedFailuresExplained'
  <2>1. pc' = "contract_error" => Len(pages) + 1 = MaxPages /\ NextCursor # NoCursor
    BY <1>3
  <2>2. pc' \notin {"cursor_loop", "invalid_cursor"}
    BY <1>3
  <2> QED BY <1>4, <1>16, <2>1, <2>2 DEF FeedFailuresExplained
<1>18. CursorAt'
  <2>1. SUFFICES ASSUME pc' = "reading"
        PROVE  /\ cursor' # NoCursor
               /\ cursor'.after \in Read' /\ cursor'.snapshot \in start'
               /\ \A c \in Read' : cursor'.after <= c /\ c <= cursor'.snapshot
               /\ \A c \in start' : c <= cursor'.snapshot /\ (c >= cursor'.after => c \in Read')
               /\ \A s \in seenCursors' : cursor'.after < s.after
               /\ Cardinality(Read') = Len(pages') * PageSize
    BY <1>3, <1>4 DEF CursorAt
  <2>2. NextCursor # NoCursor /\ cursor' = NextCursor
    BY <1>3, <2>1
  <2> DEFINE old == Oldest(FeedPage)
  <2>3. cursor'.after = old /\ cursor'.snapshot = Snapshot /\ old \in Int
    BY <1>7, <2>2
  <2>4. /\ FeedPage # Eligible /\ FeedPage # {} /\ old \in FeedPage
        /\ \A d \in FeedPage : old <= d
        /\ \A c \in Eligible \ FeedPage : c < old
    BY <1>5, <2>2, FeedPages
  <2> HIDE DEF old
  <2>5. old \in Read' /\ Snapshot \in start'
    BY <1>4, <1>14, <2>4
  <2>6. \A c \in Read' : old <= c /\ c <= Snapshot
    <3>1. \A c \in Read' : c \in Int
      BY <1>0, <1>4, <1>8
    <3>2. \A c \in Read : old < c
      BY <1>9, <2>4
    <3> QED BY <1>4, <1>14, <2>3, <2>4, <3>1, <3>2
  <2>7. \A c \in start' : c >= old => c \in Read'
    <3>1. SUFFICES ASSUME NEW c \in start', c \notin Read'  PROVE ~(c >= old)
      OBVIOUS
    <3>2. c \in Eligible \ FeedPage /\ c \in Int
      BY <1>0, <1>1, <1>4, <3>1, CursorPage
    <3> QED BY <2>3, <2>4, <3>2
  <2>8. \A s \in seenCursors' : old < s.after
    <3>1. SUFFICES ASSUME NEW s \in seenCursors'  PROVE old < s.after
      OBVIOUS
    <3>2. cursor # NoCursor
      BY <1>3, <3>1 DEF IInv, CursorAt
    <3>3. old < cursor.after /\ cursor.after \in Int
      BY <1>0, <2>4, <3>2, CursorPage, FeedPages DEF Cursors
    <3>4. s = cursor \/ (s.after \in Int /\ cursor.after < s.after)
      BY <1>0, <1>3, <3>2 DEF IInv, CursorAt, TypeOK, Cursors
    <3> QED BY <2>3, <3>3, <3>4
  <2> QED BY <1>4, <1>14, <1>16, <2>2, <2>3, <2>5, <2>6, <2>7, <2>8
<1>19. OffsetAt' /\ OffsetNeverSkips'
  BY <1>3 DEF OffsetAt, OffsetNeverSkips
<1> QED BY <1>10, <1>11, <1>12, <1>13, <1>15, <1>17, <1>18, <1>19 DEF IInv

LEMMA FeedPreserves ==
  ASSUME IInv, ReadFeed
  PROVE  IInv'
<1>0. walk = "cursor" /\ pc = "reading" /\ TypeOK /\ CursorAt /\ CursorStored
  BY DEF ReadFeed, IInv
<1>1. CASE cursor # NoCursor /\ ~Decodable(cursor) /\ End("invalid_cursor")
           /\ UNCHANGED <<feedVars, start>>
  <2>1. "invalid_cursor" \in Errors /\ start \subseteq comments
    BY <1>0 DEF Errors, TypeOK
  <2>2. comments' = comments /\ scheduled' = scheduled /\ start' = start
    BY <1>1 DEF feedVars
  <2>3. \E c \in Read : c < 0
    <3>1. cursor \in Cursors /\ cursor.after \in Read /\ cursor.after <= cursor.snapshot
      BY <1>0, <1>1 DEF CursorAt, TypeOK
    <3>2. cursor.after < 0
      BY <1>1, <3>1 DEF Decodable, Cursors
    <3> QED BY <3>1, <3>2
  <2> HIDE DEF End, Errors
  <2> QED BY <1>0, <1>1, <2>1, <2>2, <2>3, EndPreserves DEF TypeOK
<1>2. CASE AfterPage /\ InsertFails /\ End("duplicate_comment")
  <2>1. "duplicate_comment" \in Errors
    BY DEF Errors
  <2>2. /\ comments \subseteq comments' /\ comments' \in SUBSET Ids /\ IsFiniteSet(comments')
        /\ scheduled' \in [1 .. Horizon -> Ids \union {NoComment}]
        /\ start' \subseteq comments'
    BY <1>0, <1>2, FeedGrows
  <2> HIDE DEF End, Errors
  <2> QED BY <1>2, <2>1, <2>2, EndPreserves
<1>3. CASE AfterPage /\ Accept([ids |-> FeedPage, repeats |-> FALSE], NextCursor)
  BY <1>0, <1>3, ServePreserves
<1> QED BY <1>1, <1>2, <1>3 DEF ReadFeed

LEMMA NextInv ==
  ASSUME IInv, [Next]_vars
  PROVE  IInv'
<1>1. CASE UNCHANGED vars
  <2>1. Read' = Read
    BY <1>1 DEF vars, walkVars, Read
  <2>2. TypeOK' /\ CursorStored' /\ PagesDescend' /\ Room'
    BY <1>1, <2>1 DEF IInv, vars, walkVars, feedVars, TypeOK, CursorStored, PagesDescend, Room
  <2>3. CursorAt' /\ OffsetAt' /\ CursorWalkComplete'
    BY <1>1, <2>1 DEF IInv, vars, walkVars, feedVars, CursorAt, OffsetAt, CursorWalkComplete
  <2>4. FeedFailuresExplained' /\ ClientIsBounded' /\ OffsetNeverSkips'
    BY <1>1, <2>1 DEF IInv, vars, walkVars, feedVars, FeedFailuresExplained, ClientIsBounded,
       OffsetNeverSkips
  <2> QED BY <2>2, <2>3, <2>4 DEF IInv
<1>2. CASE AddComment \/ ScheduleInsert
  BY <1>2, AddPreserves
<1>3. CASE Begin
  BY <1>3, BeginPreserves
<1>4. CASE StopAtLoop
  BY <1>4, StopPreserves
<1>5. CASE ReadFeed
  BY <1>5, FeedPreserves
<1>6. CASE ReadForeign
  BY <1>6, ForeignPreserves
<1>7. CASE ReadOffset
  BY <1>7, OffsetPreserves
<1> QED BY <1>1, <1>2, <1>3, <1>4, <1>5, <1>6, <1>7 DEF Next

-----------------------------------------------------------------------------
(* The theorems.                                                           *)

(* Whatever is added, scheduled, read and answered, the walks stand where  *)
(* the invariant says.                                                     *)
THEOREM PagesInvariant == Spec => []IInv
BY InitInv, NextInv, PTL DEF Spec

(* Every variable keeps its type, for MutableCommentFeed, fetch_all and    *)
(* walk_offset.                                                            *)
THEOREM PagesTypeCorrect == Spec => []TypeOK
<1>1. IInv => TypeOK
  BY DEF IInv
<1> QED BY <1>1, PagesInvariant, PTL

(* A completed walk by cursor has all there was at its first page, newest  *)
(* first, whatever get_page was asked and add_comment given in between;    *)
(* walk_offset misses none of the comments there were at its first page.   *)
THEOREM WalksAreComplete == Spec => []WalksComplete
<1>1. IInv => WalksComplete
  BY DEF IInv, WalksComplete
<1> QED BY <1>1, PagesInvariant, PTL

(* Against MutableCommentFeed, fetch_all fails only for the three reasons. *)
THEOREM FeedFailuresAreExplained == Spec => []FeedFailuresExplained
<1>1. IInv => FeedFailuresExplained
  BY DEF IInv
<1> QED BY <1>1, PagesInvariant, PTL

(* Against any provider, fetch_all stops and repeats no comment between    *)
(* pages.                                                                  *)
THEOREM ClientStaysBounded == Spec => []ClientIsBounded
<1>1. IInv => ClientIsBounded
  BY DEF IInv
<1> QED BY <1>1, PagesInvariant, PTL
=============================================================================
