----------------------------- MODULE Simulation -----------------------------
(***************************************************************************)
(* core/dragonperch/simulation.cpp: pets walking along the edges of a      *)
(* world, falling between them, and a world that changes under them.       *)
(*                                                                         *)
(* Time is counted in ticks of 1/TicksPerSecond s, so that a step, a       *)
(* duration and a velocity are integers and lround is exact; velocities    *)
(* are in px per second and tick.  The random engine is a choice: a coin   *)
(* comes up either way unless its chance is nought or one.                 *)
(*                                                                         *)
(* The simulation compares nothing of a snapshot's version but whether it  *)
(* is the one update last saw: `unseen` is that comparison                 *)
(* (!seen_world_ || world_.version() != last_world_version_).              *)
(***************************************************************************)
EXTENDS World

CONSTANTS
  TicksPerSecond,
  Steps,          \* the dt of an update, in ticks: 0 up to PetHost::max_step
  Desktops,       \* the worlds a provider may publish: [edges, outputs]
  OptionSets,     \* the SimulationOptions settings may ask for
  SpawnPoints,    \* where the head may put a new pet: [x, y]
  MaxPets,        \* bound: pets alive at once
  ElapsedCap,     \* bound: no duration is longer, so nothing past it is told apart
  Owners,         \* the owner ids of edges
  Nobody,         \* the empty perch_
  OutOfTheWorld,  \* out_of_the_world, 1 000 000
  BelowFloor,     \* how far under the lowest output a pet is given up, 128
  AboveTop        \* how far above an output it comes back, 64

VARIABLES
  world,    \* world_: [edges, outputs]
  unseen,   \* update has not seen this world yet
  options,  \* options_
  pets      \* pets_

vars == <<world, unseen, options, pets>>

\* The WorldSnapshot a simulation is made with.
NoDesktop == [edges |-> << >>, outputs |-> {}]

Grounded == {"walking", "idle", "turning", "landing"}
PetStates == Grounded \cup {"falling", "flying"}

\* lround of a / b, for a >= 0 and b > 0.
Round(a, b) == (2 * a + b) \div (2 * b)

\* The outcomes of coin(random_) < num / den.
Toss(num, den) ==
  {b \in BOOLEAN : (b => num > 0) /\ (~b => num < den)}

Lesser(a, b) == IF a < b THEN a ELSE b

-----------------------------------------------------------------------------
(* Pet *)

NewPet(at) ==
  [x |-> at.x, y |-> at.y, state |-> "falling", facing |-> 1, vel |-> 0,
   perch |-> Nobody, elapsed |-> 0]

Advance(p, dt) ==
  [p EXCEPT !.elapsed = Lesser(@ + dt, ElapsedCap)]

Enter(p, state) ==
  IF p.state = state THEN p
  ELSE [p EXCEPT !.state = state, !.elapsed = 0]

Drop(p) == Enter([p EXCEPT !.perch = Nobody, !.vel = 0], "falling")

-----------------------------------------------------------------------------
(* update, one pet at a time: pets never read one another *)

\* Mutation of ReconcilePerch: the window may have moved from under the pet.
ReconcilePerch_AnySpan(p) ==
  LET e == find_by_owner(world.edges, p.perch)
  IN  IF p.perch = Nobody THEN p
      ELSE IF e = NoEdge \/ Width(e) < options.minimum_perch_width THEN Drop(p)
      ELSE [p EXCEPT !.y = e.y]

\* Mutation of ReconcilePerch: the pet does not ride.
ReconcilePerch_NoRide(p) ==
  LET e == find_by_owner(world.edges, p.perch)
  IN  IF p.perch = Nobody THEN p
      ELSE IF \/ e = NoEdge
              \/ ~ContainsX(e, p.x)
              \/ Width(e) < options.minimum_perch_width
        THEN Drop(p)
        ELSE p

\* The world has changed: ride the window, or fall off it.
ReconcilePerch(p) ==
  LET e == find_by_owner(world.edges, p.perch)
  IN  IF p.perch = Nobody THEN p
      ELSE IF \/ e = NoEdge
              \/ ~ContainsX(e, p.x)
              \/ Width(e) < options.minimum_perch_width
        THEN Drop(p)
        ELSE [p EXCEPT !.y = e.y]

\* At the end of the ledge: turn back, or step off if there is anything below.
AtTheEnd(p, next_x) ==
  LET below == edge_below(world.edges, next_x, p.y, IntMax,
                          options.minimum_perch_width)
  IN  {IF wants_to_turn \/ below = NoEdge
         THEN Enter(p, "turning")
         ELSE Drop([p EXCEPT !.x = next_x]) :
       wants_to_turn \in Toss(options.turn_at_edge_chance, 100)}

StrollOn(p, next_x, dt) ==
  LET there == [p EXCEPT !.x = next_x]
  IN  IF options.idle_interval = 0 THEN {there}
      ELSE {IF pauses THEN Enter(there, "idle") ELSE there :
            pauses \in Toss(dt, options.idle_interval)}

UpdateWalking(p, dt) ==
  LET e == find_by_owner(world.edges, p.perch)
      next_x == p.x + p.facing * Round(options.walk_speed * dt, TicksPerSecond)
  IN  IF p.perch = Nobody \/ e = NoEdge THEN {Drop(p)}
      ELSE IF ContainsX(e, next_x) THEN StrollOn(p, next_x, dt)
      ELSE AtTheEnd(p, next_x)

\* Fell past the bottom of every output: back at the top of any of them.
Lowest(outputs) == Max({o.bottom : o \in outputs})

Recycled(p) ==
  UNION {{[p EXCEPT !.x = across, !.y = o.top - AboveTop, !.vel = 0] :
            across \in o.left .. o.right - 1} : o \in world.outputs}

\* Mutation of FallTo: the bound is tested before the pet has moved.
FallTo_LaterRecycled(p, target) ==
  LET there == [p EXCEPT !.y = target]
  IN  IF world.outputs = {} THEN {[p EXCEPT !.y = Lesser(target, OutOfTheWorld)]}
      ELSE IF p.y > Lowest(world.outputs) + BelowFloor THEN Recycled(there)
      ELSE {there}

FallTo(p, target) ==
  LET there == [p EXCEPT !.y = target]
  IN  IF world.outputs = {} THEN {[p EXCEPT !.y = Lesser(target, OutOfTheWorld)]}
      ELSE IF target > Lowest(world.outputs) + BelowFloor THEN Recycled(there)
      ELSE {there}

LandOn(p, e) ==
  Enter([p EXCEPT !.y = e.y, !.vel = 0, !.perch = e.owner], "landing")

UpdateFalling(p, dt) ==
  LET vel == Lesser(p.vel + options.gravity * dt,
                    options.terminal_velocity * TicksPerSecond)
      target == p.y + Round(vel * dt, TicksPerSecond * TicksPerSecond)
      landing == edge_below(world.edges, p.x, p.y, target,
                            options.minimum_perch_width)
  IN  IF landing # NoEdge THEN {LandOn(p, landing)}
      ELSE FallTo([p EXCEPT !.vel = vel], target)

\* A state that lasts as long as the options say and ends in `next`.
After(p, duration, next) == {IF p.elapsed >= duration THEN next ELSE p}

UpdatePet(p, dt) ==
  CASE p.state = "walking" -> UpdateWalking(p, dt)
    [] p.state = "falling" -> UpdateFalling(p, dt)
    [] p.state = "idle"    -> After(p, options.idle_duration, Enter(p, "walking"))
    [] p.state = "turning" -> After(p, options.turn_duration,
                                Enter([p EXCEPT !.facing = -@], "walking"))
    [] p.state = "landing" -> After(p, options.land_duration, Enter(p, "walking"))
    [] p.state = "flying"  -> {Enter(p, "falling")}

Moves(p, dt) ==
  UpdatePet(IF unseen THEN ReconcilePerch(Advance(p, dt)) ELSE Advance(p, dt), dt)

-----------------------------------------------------------------------------
(* What the host and the head do *)

Init ==
  /\ world = NoDesktop
  /\ unseen = TRUE
  /\ options \in OptionSets
  /\ pets = << >>

Update(dt) ==
  /\ pets' \in {f \in [DOMAIN pets -> UNION {Moves(pets[i], dt) : i \in DOMAIN pets}] :
                  \A i \in DOMAIN pets : f[i] \in Moves(pets[i], dt)}
  /\ unseen' = FALSE
  /\ UNCHANGED <<world, options>>

\* A snapshot of a version the simulation has not seen; one it has seen is the
\* same world again.
SetWorld(w) ==
  /\ world' = w
  /\ unseen' = TRUE
  /\ UNCHANGED <<options, pets>>

Spawn(at) ==
  /\ Len(pets) < MaxPets
  /\ pets' = Append(pets, NewPet(at))
  /\ UNCHANGED <<world, unseen, options>>

ClearPets ==
  /\ pets # << >>
  /\ pets' = << >>
  /\ UNCHANGED <<world, unseen, options>>

SetOptions(o) ==
  /\ options # o
  /\ options' = o
  /\ UNCHANGED <<world, unseen, pets>>

Next ==
  \/ \E dt \in Steps : Update(dt)
  \/ \E w \in Desktops : SetWorld(w)
  \/ \E at \in SpawnPoints : Spawn(at)
  \/ ClearPets
  \/ \E o \in OptionSets : SetOptions(o)

Spec == Init /\ [][Next]_vars

\* PetHost::run goes on drawing frames, and frames take time.
Fairness == WF_vars(\E dt \in Steps \ {0} : Update(dt))

FairSpec == Spec /\ Fairness

-----------------------------------------------------------------------------
(* Assumptions *)

EdgeType == [owner : Owners, y : Int, left : Int, right : Int, z : Int]
OutputType ==
  {o \in [left : Int, right : Int, top : Int, bottom : Int] : o.top <= o.bottom}

\* Gravity and the terminal velocity are simulation.hpp's: no setting changes them.
OptionsType ==
  [gravity : Nat \ {0}, walk_speed : Nat, terminal_velocity : Nat \ {0},
   idle_interval : Nat, idle_duration : Nat, turn_duration : Nat,
   land_duration : Nat, minimum_perch_width : Nat, turn_at_edge_chance : 0 .. 100]

\* A provider gives a window one edge at most, and sorts what it publishes.
IsDesktop(w) ==
  /\ w.edges \in Seq(EdgeType)
  /\ w.outputs \subseteq OutputType /\ IsFiniteSet(w.outputs)
  /\ \A i, j \in DOMAIN w.edges : w.edges[i].owner = w.edges[j].owner => i = j
  /\ Sorted(w.edges)

ASSUME SimulationAssumption ==
  /\ TicksPerSecond \in Nat \ {0}
  /\ Steps \subseteq Nat
  /\ \A w \in Desktops : IsDesktop(w)
  /\ NoEdge \notin EdgeType
  /\ Nobody \notin Owners
  /\ OptionSets \subseteq OptionsType
  /\ SpawnPoints \subseteq [x : Int, y : Int]
  /\ {ElapsedCap, OutOfTheWorld, BelowFloor, AboveTop, MaxPets} \subseteq Nat

-----------------------------------------------------------------------------
(* Properties *)

PetType ==
  [x : Int, y : Int, state : PetStates, facing : {-1, 1}, vel : Nat,
   perch : Owners \cup {Nobody}, elapsed : 0 .. ElapsedCap]

TypeOK ==
  /\ world \in Desktops \cup {NoDesktop}
  /\ unseen \in BOOLEAN
  /\ options \in OptionSets
  /\ pets \in Seq(PetType)
  /\ Len(pets) <= MaxPets

IsPerch(e) == Width(e) >= options.minimum_perch_width

PerchedIffGrounded(p) == p.perch # Nobody <=> p.state \in Grounded

\* A pet has a perch exactly while it is in a state that needs one.
PerchWhenGrounded == \A i \in DOMAIN pets : PerchedIffGrounded(pets[i])

StandsOn(p, e) == e # NoEdge /\ ContainsX(e, p.x) /\ p.y = e.y

OnItsEdge(p) ==
  p.perch # Nobody => StandsOn(p, find_by_owner(world.edges, p.perch))

\* Once update has seen the world, every pet with a perch stands on it: the
\* perch is in this world, at the pet's feet, and under it -- however the
\* windows moved, shrank or closed and whatever the settings became meanwhile.
StandsOnAnEdge == ~unseen => \A i \in DOMAIN pets : OnItsEdge(pets[i])

\* How far down a falling pet gets before update takes it back.
Depth == IF world.outputs = {} THEN OutOfTheWorld ELSE Lowest(world.outputs) + BelowFloor

Updating == \E dt \in Steps : Update(dt)

\* Nothing falls for ever: a pet that goes on falling is never left below the lowest
\* output, or out of the world if there is no output, wherever it began to fall --
\* off a window below the screen, or where the head has put it -- and however far a
\* step took it.
FallIsBounded ==
  [][Updating => \A i \in DOMAIN pets :
       pets[i].state = "falling" /\ pets'[i].state = "falling" => pets'[i].y <= Depth
    ]_vars

\* The perches a pet at p falling straight down would meet before depth y.
Met(p, y) ==
  {e \in Range(world.edges) :
     ContainsX(e, p.x) /\ p.y < e.y /\ e.y <= y /\ IsPerch(e)}

MovingOn == \E dt \in Steps \ {0} : Update(dt)

\* Of a pet p that was falling and what became of it: it lands on a perch with none
\* above it, falls on having passed none, or is taken back, and there was none at all.
PassesNone(p, q) ==
  CASE q.state = "landing" ->
         q.x = p.x /\ q.y > p.y /\ Met(p, q.y - 1) = {} /\ Met(p, q.y) # {}
    [] q.state = "falling" /\ q.vel > 0 -> Met(p, q.y) = {}
    [] OTHER -> Met(p, Depth) = {}

\* No tunnelling, whatever the step: a falling pet stops at the first perch
\* under it, and is only taken to the top when there was none on its way down.
NoTunnelling ==
  [][MovingOn => \A i \in DOMAIN pets :
       pets[i].state = "falling" => PassesNone(pets[i], pets'[i])]_vars

\* A pet that is not walking is carried along: a window that moves and keeps
\* the pet over it keeps the pet on it, at its new height.
RidesItsWindow ==
  [][Updating /\ unseen => \A i \in DOMAIN pets :
       LET e == find_by_owner(world.edges, pets[i].perch)
       IN  /\ pets[i].state \in Grounded \ {"walking"}
           /\ e # NoEdge /\ ContainsX(e, pets[i].x) /\ IsPerch(e)
           => /\ pets'[i].perch = pets[i].perch
              /\ pets'[i].x = pets[i].x
              /\ pets'[i].y = e.y
    ]_vars

Settled == <>[][Updating]_vars

HasFloor ==
  /\ world.outputs # {}
  /\ \A o \in world.outputs : \E e \in Range(world.edges) :
       e.left <= o.left /\ e.right >= o.right /\ e.y <= Lowest(world.outputs)
       /\ e.y > o.top - AboveTop /\ IsPerch(e)

\* A pet in the air lands, on a desktop that settles and has a floor: wherever
\* it is when the desktop stops changing, it reaches a perch in the end.
EveryFallEnds ==
  Settled =>
    \A i \in 1 .. MaxPets :
      (i \in DOMAIN pets /\ pets[i].state = "falling" /\ HasFloor)
        ~> (i \in DOMAIN pets => pets[i].state \in Grounded \/ ~HasFloor)

\* settings.hpp and docs/settings.md: walk-speed is in pixels per second.  A pet
\* that goes on walking gets somewhere.
WalkingGetsSomewhere ==
  \A i \in 1 .. MaxPets : \A x \in -1 .. 8 :
    (i \in DOMAIN pets /\ pets[i].state = "walking" /\ pets[i].x = x)
      ~> (i \in DOMAIN pets => pets[i].state # "walking" \/ pets[i].x # x)
=============================================================================
