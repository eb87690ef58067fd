---------------------------- MODULE SimulationMC ----------------------------
(***************************************************************************)
(* A desktop six pixels wide for TLC: two windows that move, shrink, go    *)
(* below the screen and close, the floor of one output or of two, or none. *)
(***************************************************************************)
EXTENDS Simulation

CONSTANTS w1, w2, f1, f2

Edge(owner, y, left, right, z) ==
  [owner |-> owner, y |-> y, left |-> left, right |-> right, z |-> z]

Output(left, right, bottom) ==
  [left |-> left, right |-> right, top |-> 0, bottom |-> bottom]

OneOutput == {Output(0, 6, 6)}
TwoOutputs == {Output(0, 3, 6), Output(3, 6, 4)}

Floor == Edge(f1, 6, 0, 6, -1)

MCDesktops ==
  { [edges |-> <<Edge(w1, 2, 1, 4, 2), Floor>>, outputs |-> OneOutput],
    [edges |-> <<Floor, Edge(w1, 9, 1, 4, 2), Edge(w2, 10, 0, 6, 1)>>,
     outputs |-> OneOutput],
    [edges |-> <<Edge(w1, 3, 2, 5, 2), Edge(w2, 4, 0, 3, 1), Floor>>,
     outputs |-> OneOutput],
    [edges |-> <<Edge(w1, 2, 1, 2, 2), Floor>>, outputs |-> OneOutput],
    [edges |-> <<Edge(w2, 2, 3, 6, 1), Edge(f2, 4, 3, 6, -1), Edge(f1, 6, 0, 3, -1)>>,
     outputs |-> TwoOutputs],
    [edges |-> <<Edge(w1, 2, 1, 4, 2)>>, outputs |-> {}] }

Calm ==
  [gravity |-> 4, walk_speed |-> 2, terminal_velocity |-> 4,
   idle_interval |-> 4, idle_duration |-> 2, turn_duration |-> 1,
   land_duration |-> 1, minimum_perch_width |-> 2, turn_at_edge_chance |-> 65]

\* Narrow perches no longer do, pets never turn by choice and never rest.
Bold ==
  [Calm EXCEPT !.minimum_perch_width = 3, !.turn_at_edge_chance = 0,
               !.idle_interval = 0, !.walk_speed = 4]

MCOptions == {Calm, Bold}
MCSpawnPoints == {[x |-> 3, y |-> -1], [x |-> 0, y |-> 1]}
MCSteps == {0, 1, 2}

\* The settings DragonPerch is made with, at a display's refresh rate: hundredths
\* of a second, 42 px/s.
Hasty ==
  [Calm EXCEPT !.walk_speed = 42, !.gravity = 1400, !.terminal_velocity = 900,
               !.idle_interval = 0]
HastyOnly == {Hasty}
OneTick == {1}
OneDesktop == {[edges |-> <<Floor>>, outputs |-> OneOutput]}
=============================================================================
