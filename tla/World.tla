------------------------------- MODULE World -------------------------------
(***************************************************************************)
(* core/dragonperch/world.hpp and world.cpp: what the simulation knows of  *)
(* the desktop.  A world is a sequence of walkable edges in the order      *)
(* WorldSnapshot::sort leaves them in, and the set of outputs.             *)
(*                                                                         *)
(*   edge    [owner, y, left, right, z]                                    *)
(*   output  [left, right, top, bottom]                                    *)
(*                                                                         *)
(* y grows downwards, and a span holds its left end but not its right one. *)
(***************************************************************************)
EXTENDS Integers, Sequences, FiniteSetsExt

CONSTANT NoEdge   \* the null pointer of a lookup that finds nothing

IntMax == 2147483647

Width(e) == e.right - e.left

ContainsX(e, x) == e.left <= x /\ x < e.right

\* The order of WorldSnapshot::sort: top first, and front first at one height.
Before(a, b) == a.y < b.y \/ (a.y = b.y /\ a.z > b.z)

\* std::ranges::sort leaves edges that compare equal in any order.
Sorted(edges) ==
  \A i, j \in DOMAIN edges : Before(edges[i], edges[j]) => i < j

FirstOf(edges, found) == IF found = {} THEN NoEdge ELSE edges[Min(found)]

\* Mutation of edge_below: a point test at the destination.
edge_below_AtPoint(edges, x, y, lowest, width) ==
  FirstOf(edges, {i \in DOMAIN edges :
                    /\ y < edges[i].y /\ edges[i].y = lowest
                    /\ ContainsX(edges[i], x)
                    /\ Width(edges[i]) >= width})

\* The first edge strictly below <<x, y>>, no lower than `lowest`, that spans x
\* and is wide enough to be a perch.
edge_below(edges, x, y, lowest, width) ==
  FirstOf(edges, {i \in DOMAIN edges :
                    /\ y < edges[i].y /\ edges[i].y <= lowest
                    /\ ContainsX(edges[i], x)
                    /\ Width(edges[i]) >= width})

find_by_owner(edges, owner) ==
  FirstOf(edges, {i \in DOMAIN edges : edges[i].owner = owner})
=============================================================================
