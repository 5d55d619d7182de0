--------------------------- MODULE MCCommentPages ----------------------------
(***************************************************************************)
(* Instances of CommentPages for TLC: enough comments for one more page    *)
(* than the client accepts, two of them below zero, and a foreign provider *)
(* that can loop, repeat an item in a page or between two, and answer with *)
(* an empty page that points to another.                                   *)
(***************************************************************************)
EXTENDS CommentPages

MCIds == {-2, -1, 1, 2, 3, 4, 5}
(* Comments a feed numbers by itself.                                      *)
MCOwnIds == {1, 2, 3, 4}

MCForeign ==
  [ids : {{1}, {2}, {1, 2}}, repeats : BOOLEAN] \union [ids : {{}}, repeats : {FALSE}]
=============================================================================
