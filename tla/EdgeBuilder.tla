---------------------------- MODULE EdgeBuilder ----------------------------
(***************************************************************************)
(* core/dragonperch/edge_builder.cpp: from stacked windows to walkable     *)
(* edges, each clipped to the longest part of it that shows.               *)
(*                                                                         *)
(*   candidate  [id, left, right, top, bottom, z], higher z nearer the     *)
(*              front                                                      *)
(*   cover      <<left, right>>, not empty                                 *)
(*   run        <<left, right>>                                            *)
(*                                                                         *)
(* Candidates and covers are sets: no two windows of a scan have the same  *)
(* z, and a cover that is there twice covers nothing more.                 *)
(***************************************************************************)
EXTENDS World, SequencesExt

Lower(a, b) == IF a < b THEN a ELSE b
Upper(a, b) == IF a > b THEN a ELSE b

Length(run) == run[2] - run[1]

Longer(best, run) == IF Length(run) > Length(best) THEN run ELSE best

\* Mutation of PassCover: a cover that ends within an earlier one uncovers it.
PassCover_Resets(right, seen, cover) ==
  IF seen.cursor >= right THEN seen
  ELSE [best |-> IF cover[1] > seen.cursor
                   THEN Longer(seen.best, <<seen.cursor, cover[1]>>)
                   ELSE seen.best,
        cursor |-> cover[2]]

\* Mutation of PassCover: any visible run replaces the one found before.
PassCover_KeepsLast(right, seen, cover) ==
  IF seen.cursor >= right THEN seen
  ELSE [best |-> IF cover[1] > seen.cursor THEN <<seen.cursor, cover[1]>> ELSE seen.best,
        cursor |-> Upper(seen.cursor, cover[2])]

\* The next cover from the left.  With the cursor at the end the code has
\* returned, and the covers that are left change nothing.
PassCover(right, seen, cover) ==
  IF seen.cursor >= right THEN seen
  ELSE [best |-> IF cover[1] > seen.cursor
                   THEN Longer(seen.best, <<seen.cursor, cover[1]>>)
                   ELSE seen.best,
        cursor |-> Upper(seen.cursor, cover[2])]

\* Of covers sorted by where they begin, the last.  In which order covers come that
\* begin together makes no difference.
LastCover(covers) == CHOOSE c \in covers : \A d \in covers : d[1] <= c[1]

\* What has been seen once all of the covers have been passed, from the left.
AllPassed(left, right, covers) ==
  MapThenFoldSet(LAMBDA cover, seen : PassCover(right, seen, cover),
                 [best |-> <<left, left>>, cursor |-> left],
                 LAMBDA cover : cover, LastCover, covers)

longest_visible_run(left, right, covers) ==
  LET seen == AllPassed(left, right, covers)
  IN  IF covers = {} THEN <<left, right>>
      ELSE IF seen.cursor >= right THEN seen.best
      ELSE Longer(seen.best, <<seen.cursor, right>>)

\* Mutation of Occludes: the row below a window counts as the window's.
Occludes_BottomToo(above, candidate) ==
  /\ above.z > candidate.z
  /\ above.top <= candidate.top /\ candidate.top <= above.bottom
  /\ Upper(above.left, candidate.left) < Lower(above.right, candidate.right)

\* Does `above` cover some of the row the title bar of `candidate` is in?
Occludes(above, candidate) ==
  /\ above.z > candidate.z
  /\ above.top <= candidate.top /\ candidate.top < above.bottom
  /\ Upper(above.left, candidate.left) < Lower(above.right, candidate.right)

VisibleTop(candidate, candidates) ==
  longest_visible_run(candidate.left, candidate.right,
    {<<Upper(above.left, candidate.left), Lower(above.right, candidate.right)>> :
       above \in {a \in candidates : Occludes(a, candidate)}})

\* What append_window_edges adds to the edges.
window_edges(candidates, minimum_width) ==
  {[owner |-> c.id, y |-> c.top, left |-> VisibleTop(c, candidates)[1],
    right |-> VisibleTop(c, candidates)[2], z |-> c.z] :
     c \in {d \in candidates : Length(VisibleTop(d, candidates)) >= minimum_width}}
=============================================================================
