----------------------------- MODULE MCComposers -----------------------------
(* The boxes of posts and of comments, one or the other: they share nothing. *)
(* Two channels or threads, two words and one file, in two objects.          *)
EXTENDS PostComposer, CommentComposer, TLC

CONSTANTS c1, c2, t1, t2, w1, w2, f1

VARIABLE shown  \* which of the two the page shows

ComposersInit ==
  /\ ComposerInit /\ CommentInit
  /\ \/ shown = "post" /\ ~replyWaits
     \/ shown = "comment" /\ ~creating.waits

\* Bound: the user leaves a thread or an object twice at most, and in a browser
\* that waits for the server once, as with a channel.
FewMoves ==
  /\ creating.waits => spent'.switches + box'.object <= 2
  /\ replySpent'.switches + reply'.object <= IF replyWaits THEN 2 ELSE 3

ComposersNext ==
  /\ \/ shown = "post" /\ ComposerNext /\ UNCHANGED <<shown, commentVars>>
     \/ shown = "comment" /\ CommentNext /\ UNCHANGED <<shown, composerVars>>
  /\ FewMoves

ComposersSpec == ComposersInit /\ [][ComposersNext]_<<shown, composerVars, commentVars>>

Symmetry == Permutations({c1, c2}) \cup Permutations({t1, t2}) \cup Permutations({w1, w2})
=============================================================================
