--------------------------- MODULE WorldProvider ---------------------------
(***************************************************************************)
(* What PetHost relies on in an IWorldProvider (world.hpp): once started   *)
(* there is always a snapshot to read; snapshots are published one at a    *)
(* time, each numbered one up from the last; and the handler is called     *)
(* with the snapshot current() returns, or called not at all because there *)
(* is none.  How a provider learns of the desktop is its own business.     *)
(***************************************************************************)
EXTENDS Naturals

VARIABLES
  current,   \* the version of the snapshot current() returns; 0 before start
  carried    \* the version the handler is being called with, or 0

Init == current = 0 /\ carried = 0

\* start publishes what there is to know at once.
Prime ==
  /\ current = 0
  /\ current' = 1
  /\ carried' \in {0, 1}

Publish ==
  /\ current > 0
  /\ carried = 0
  /\ current' = current + 1
  /\ carried' = current + 1

Delivered ==
  /\ carried # 0
  /\ carried' = 0
  /\ UNCHANGED current

Next == Prime \/ Publish \/ Delivered

Spec == Init /\ [][Next]_<<current, carried>>
=============================================================================
