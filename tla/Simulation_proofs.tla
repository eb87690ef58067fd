------------------------- MODULE Simulation_proofs --------------------------
(***************************************************************************)
(* Where pets stand, for every desktop, every setting, every step length   *)
(* and every number of pets; and that the edges they stand on, as a scan   *)
(* of a Windows desktop finds them, are the ones there are.                *)
(***************************************************************************)
EXTENDS Simulation, DesktopScanner, SequenceTheorems, FiniteSetTheorems, TLAPS

-----------------------------------------------------------------------------
(* The lookups *)

\* A set of naturals that is not empty has a least element.
LEMMA MinOfNat ==
  ASSUME NEW S \in SUBSET Nat, S # {}
  PROVE  Min(S) \in S /\ \A j \in S : Min(S) <= j
<1> DEFINE Less == {ss \in Nat \X Nat : ss[1] < ss[2]}
<1>1. IsWellFoundedOn(Less, Nat)
  BY NatLessThanWellFounded, Zenon DEF OpToRel
<1>2. \E i \in S : \A j \in S : i <= j
  <2> HIDE DEF Less
  <2>1. PICK i \in S : \A j \in S : <<j, i>> \notin Less
    BY <1>1, WFMin
  <2>2. ASSUME NEW j \in S PROVE i <= j
    <3>1. i \in Nat /\ j \in Nat
      OBVIOUS
    <3>2. j < i => <<j, i>> \in Less
      <4> DEFINE p == <<j, i>>
      <4>1. p \in Nat \X Nat /\ p[1] = j /\ p[2] = i
        BY <3>1
      <4> HIDE DEF p
      <4>2. j < i => p \in Less
        BY <4>1 DEF Less
      <4> QED
        BY <4>2 DEF p
    <3> QED
      BY <2>1, <3>1, <3>2
  <2> QED
    BY <2>2
<1> QED
  BY <1>2 DEF Min

\* FirstOf finds nothing, or the first of what was to be found.
LEMMA FirstOfIsFirst ==
  ASSUME NEW edges, NEW found \in SUBSET Nat, found # {}
  PROVE  \E i \in found : /\ FirstOf(edges, found) = edges[i]
                          /\ \A j \in found : i <= j
<1>1. Min(found) \in found /\ \A j \in found : Min(found) <= j
  BY MinOfNat
<1> QED
  BY <1>1 DEF FirstOf

\* edge_below answers nothing, or the first edge under the point, within the bound,
\* that spans x and is wide enough.
LEMMA EdgeBelowIsBelow ==
  ASSUME NEW edges \in Seq(EdgeType), NEW x \in Int, NEW y \in Int, NEW lowest,
         NEW width,
         edge_below(edges, x, y, lowest, width) # NoEdge
  PROVE  \E i \in DOMAIN edges :
            /\ edge_below(edges, x, y, lowest, width) = edges[i]
            /\ y < edges[i].y /\ edges[i].y <= lowest
            /\ ContainsX(edges[i], x)
            /\ Width(edges[i]) >= width
            /\ \A j \in DOMAIN edges :
                 /\ y < edges[j].y /\ edges[j].y <= lowest
                 /\ ContainsX(edges[j], x)
                 /\ Width(edges[j]) >= width
                 => i <= j
<1> DEFINE found == {i \in DOMAIN edges :
                       /\ y < edges[i].y /\ edges[i].y <= lowest
                       /\ ContainsX(edges[i], x)
                       /\ Width(edges[i]) >= width}
<1>1. edge_below(edges, x, y, lowest, width) = FirstOf(edges, found)
  BY DEF edge_below
<1>2. found # {}
  BY <1>1 DEF FirstOf
<1>3. found \in SUBSET Nat
  OBVIOUS
<1>4. PICK i \in found : /\ FirstOf(edges, found) = edges[i]
                         /\ \A j \in found : i <= j
  BY <1>2, <1>3, FirstOfIsFirst
<1> QED
  BY <1>1, <1>4

\* When edge_below answers nothing there is no such edge.
LEMMA EdgeBelowMissesNothing ==
  ASSUME NEW edges \in Seq(EdgeType), NEW x \in Int, NEW y \in Int, NEW lowest,
         NEW width,
         edge_below(edges, x, y, lowest, width) = NoEdge
  PROVE  \A i \in DOMAIN edges :
            ~(/\ y < edges[i].y /\ edges[i].y <= lowest
              /\ ContainsX(edges[i], x)
              /\ Width(edges[i]) >= width)
<1> DEFINE found == {i \in DOMAIN edges :
                       /\ y < edges[i].y /\ edges[i].y <= lowest
                       /\ ContainsX(edges[i], x)
                       /\ Width(edges[i]) >= width}
<1>1. edge_below(edges, x, y, lowest, width) = FirstOf(edges, found)
  BY DEF edge_below
<1>2. found \in SUBSET Nat
  OBVIOUS
<1>3. ASSUME found # {} PROVE FALSE
  <2>1. PICK i \in found : FirstOf(edges, found) = edges[i]
    BY <1>2, <1>3, FirstOfIsFirst
  <2>2. edges[i] \in EdgeType
    BY <2>1
  <2> QED
    BY <1>1, <2>1, <2>2, SimulationAssumption
<1> QED
  BY <1>3

\* find_by_owner finds the edge of that owner, where there is one.
LEMMA FindByOwnerFinds ==
  ASSUME NEW w, IsDesktop(w), NEW i \in DOMAIN w.edges
  PROVE  find_by_owner(w.edges, w.edges[i].owner) = w.edges[i]
<1> DEFINE found == {j \in DOMAIN w.edges : w.edges[j].owner = w.edges[i].owner}
<1>1. found = {i}
  BY DEF IsDesktop
<1>2. found \in SUBSET Nat
  BY <1>1 DEF IsDesktop
<1>3. \E j \in found : FirstOf(w.edges, found) = w.edges[j]
  BY <1>1, <1>2, FirstOfIsFirst
<1> QED
  BY <1>1, <1>3 DEF find_by_owner
\* A finite set of integers that is not empty has a greatest element.
LEMMA MaxOfFinite ==
  ASSUME NEW S \in SUBSET Int, IsFiniteSet(S), S # {}
  PROVE  Max(S) \in S /\ \A y \in S : y <= Max(S)
<1> DEFINE HasMax(T) == \E x \in T : \A y \in T : x >= y
           Bad == {T \in FiniteSubsetsOf(S) : T # {} /\ ~HasMax(T)}
<1>1. ASSUME Bad # {} PROVE FALSE
  <2>1. PICK T \in Bad : \A U \in Bad : <<U, T>> \notin StrictSubsetOrdering(S)
    <3> HIDE DEF Bad
    <3>1. Bad \subseteq FiniteSubsetsOf(S)
      BY DEF Bad
    <3> QED
      BY <1>1, <3>1, FS_StrictSubsetOrderingWellFounded, WFMin
  <2>2. T \in SUBSET S /\ IsFiniteSet(T) /\ T # {} /\ ~HasMax(T)
    BY DEF FiniteSubsetsOf
  <2>3. PICK x \in T : TRUE
    BY <2>2
  <2> DEFINE U == T \ {x}
  <2>4. U # {}
    BY <2>2, <2>3
  <2>5. U \in FiniteSubsetsOf(S) /\ <<U, T>> \in StrictSubsetOrdering(S)
    <3>1. IsFiniteSet(U)
      BY <2>2, FS_RemoveElement
    <3> QED
      BY <2>2, <2>3, <3>1 DEF FiniteSubsetsOf, StrictSubsetOrdering
  <2>6. PICK m \in U : \A y \in U : m >= y
    BY <2>1, <2>4, <2>5
  <2> QED
    BY <2>2, <2>3, <2>6
<1>2. HasMax(S)
  BY <1>1 DEF FiniteSubsetsOf
<1>3. Max(S) \in S /\ \A y \in S : Max(S) >= y
  BY <1>2 DEF Max
<1> QED
  BY <1>3

-----------------------------------------------------------------------------
(* One pet through one update *)

\* What the proofs use of the types: the world is one a provider publishes.
LEMMA WorldIsDesktop ==
  ASSUME TypeOK
  PROVE  IsDesktop(world)
<1>1. IsDesktop(NoDesktop)
  <2>1. NoDesktop.edges = << >> /\ NoDesktop.outputs = {}
    BY DEF NoDesktop
  <2> QED
    BY <2>1, FS_EmptySet DEF IsDesktop, Sorted
<1> QED
  BY <1>1, SimulationAssumption DEF TypeOK

LEMMA RoundIsNat ==
  ASSUME NEW a \in Nat, NEW b \in Nat \ {0}
  PROVE  Round(a, b) \in Nat
BY Z3 DEF Round

\* What a pet is between two updates of one world: well typed, perched exactly
\* when its state needs it, and standing on its perch.
Settles(p) == p \in PetType /\ PerchedIffGrounded(p) /\ OnItsEdge(p)

LEMMA EnterKeepsPlace ==
  ASSUME NEW p \in PetType, NEW state \in PetStates
  PROVE  /\ Enter(p, state) \in PetType
         /\ Enter(p, state).state = state
         /\ Enter(p, state).x = p.x
         /\ Enter(p, state).y = p.y
         /\ Enter(p, state).perch = p.perch
<1>1. 0 \in 0 .. ElapsedCap
  BY SimulationAssumption
<1>2. [p EXCEPT !.state = state, !.elapsed = 0] \in PetType
  BY <1>1 DEF PetType
<1>3. /\ [p EXCEPT !.state = state, !.elapsed = 0].state = state
      /\ [p EXCEPT !.state = state, !.elapsed = 0].x = p.x
      /\ [p EXCEPT !.state = state, !.elapsed = 0].y = p.y
      /\ [p EXCEPT !.state = state, !.elapsed = 0].perch = p.perch
  BY DEF PetType
<1> QED
  BY <1>2, <1>3 DEF Enter

LEMMA DropSettles ==
  ASSUME NEW p \in PetType
  PROVE  Settles(Drop(p)) /\ Drop(p).perch = Nobody /\ Drop(p).state = "falling"
<1> DEFINE q == [p EXCEPT !.perch = Nobody, !.vel = 0]
<1>1. q \in PetType /\ q.perch = Nobody
  BY DEF PetType
<1>2. "falling" \in PetStates /\ "falling" \notin Grounded
  BY DEF PetStates, Grounded
<1> HIDE DEF q
<1>3. /\ Enter(q, "falling") \in PetType
      /\ Enter(q, "falling").perch = Nobody
      /\ Enter(q, "falling").state = "falling"
  BY <1>1, <1>2, EnterKeepsPlace
<1> QED
  BY <1>2, <1>3 DEF Settles, Drop, PerchedIffGrounded, OnItsEdge, q

\* Entering another grounded state keeps a settled pet settled.
LEMMA EnterSettles ==
  ASSUME NEW p, Settles(p), p.perch # Nobody, NEW state \in Grounded
  PROVE  Settles(Enter(p, state))
<1>1. /\ Enter(p, state) \in PetType
      /\ Enter(p, state).state = state
      /\ Enter(p, state).x = p.x
      /\ Enter(p, state).y = p.y
      /\ Enter(p, state).perch = p.perch
  BY EnterKeepsPlace DEF Settles, PetStates
<1> QED
  BY <1>1 DEF Settles, PerchedIffGrounded, OnItsEdge, StandsOn

LEMMA AdvanceKeepsPlace ==
  ASSUME NEW p \in PetType, NEW dt \in Nat
  PROVE  /\ Advance(p, dt) \in PetType
         /\ Advance(p, dt).state = p.state
         /\ Advance(p, dt).x = p.x
         /\ Advance(p, dt).y = p.y
         /\ Advance(p, dt).perch = p.perch
<1> USE SimulationAssumption
<1>1. Lesser(p.elapsed + dt, ElapsedCap) \in 0 .. ElapsedCap
  BY DEF Lesser, PetType
<1> QED
  BY <1>1 DEF Advance, PetType

\* What find_by_owner finds is an edge of the world.
LEMMA FoundIsEdge ==
  ASSUME TypeOK, NEW owner, find_by_owner(world.edges, owner) # NoEdge
  PROVE  find_by_owner(world.edges, owner) \in EdgeType
<1>1. IsDesktop(world)
  BY WorldIsDesktop
<1> DEFINE found == {i \in DOMAIN world.edges : world.edges[i].owner = owner}
<1>2. found # {}
  BY DEF find_by_owner, FirstOf
<1>3. \E i \in DOMAIN world.edges : find_by_owner(world.edges, owner) = world.edges[i]
  BY <1>1, <1>2, FirstOfIsFirst DEF find_by_owner, IsDesktop
<1> QED
  BY <1>1, <1>3 DEF IsDesktop

\* After a changed world has been reconciled, whoever still has a perch stands
\* on it.
LEMMA ReconcileSettles ==
  ASSUME TypeOK, NEW p \in PetType, PerchedIffGrounded(p)
  PROVE  Settles(ReconcilePerch(p))
<1> DEFINE e == find_by_owner(world.edges, p.perch)
<1>1. CASE p.perch = Nobody
  BY <1>1 DEF ReconcilePerch, Settles, OnItsEdge
<1>2. CASE p.perch # Nobody /\ (\/ e = NoEdge
                                 \/ ~ContainsX(e, p.x)
                                 \/ Width(e) < options.minimum_perch_width)
  <2>1. ReconcilePerch(p) = Drop(p)
    BY <1>2 DEF ReconcilePerch
  <2> QED
    BY <2>1, DropSettles
<1>3. CASE p.perch # Nobody /\ ~(\/ e = NoEdge
                                  \/ ~ContainsX(e, p.x)
                                  \/ Width(e) < options.minimum_perch_width)
  <2>1. ReconcilePerch(p) = [p EXCEPT !.y = e.y]
    BY <1>3 DEF ReconcilePerch
  <2>2. e \in EdgeType
    BY <1>3, FoundIsEdge
  <2> DEFINE q == [p EXCEPT !.y = e.y]
  <2>3. /\ q \in PetType /\ q.perch = p.perch /\ q.state = p.state
        /\ q.x = p.x /\ q.y = e.y
    BY <2>2 DEF PetType, EdgeType
  <2>4. StandsOn(q, e)
    BY <1>3, <2>3 DEF StandsOn
  <2> HIDE DEF q, e
  <2>5. Settles(q)
    BY <2>3, <2>4 DEF Settles, PerchedIffGrounded, OnItsEdge, e
  <2> QED
    BY <2>1, <2>5 DEF q, e
<1> QED
  BY <1>1, <1>2, <1>3
\* A pet moved along its own edge still stands on it.
LEMMA SidestepSettles ==
  ASSUME NEW p, Settles(p), p.perch # Nobody, NEW next_x \in Int,
         ContainsX(find_by_owner(world.edges, p.perch), next_x)
  PROVE  Settles([p EXCEPT !.x = next_x]) /\ [p EXCEPT !.x = next_x].perch # Nobody
<1> DEFINE q == [p EXCEPT !.x = next_x]
<1>1. /\ q \in PetType /\ q.perch = p.perch /\ q.state = p.state
      /\ q.x = next_x /\ q.y = p.y
  BY DEF Settles, PetType
<1> HIDE DEF q
<1>2. Settles(q) /\ q.perch # Nobody
  BY <1>1 DEF Settles, PerchedIffGrounded, OnItsEdge, StandsOn
<1> QED
  BY <1>2 DEF q

LEMMA WalkingSettles ==
  ASSUME TypeOK, NEW p, Settles(p), p.state = "walking", NEW dt \in Nat,
         NEW q \in UpdateWalking(p, dt)
  PROVE  Settles(q)
<1> DEFINE e == find_by_owner(world.edges, p.perch)
           next_x == p.x + p.facing * Round(options.walk_speed * dt, TicksPerSecond)
<1>1. p \in PetType /\ p.perch # Nobody
  BY DEF Settles, PerchedIffGrounded, Grounded
<1>2. next_x \in Int
  <2>1. options.walk_speed \in Nat
    BY SimulationAssumption DEF TypeOK, OptionsType
  <2>2. options.walk_speed * dt \in Nat
    BY <2>1
  <2>3. Round(options.walk_speed * dt, TicksPerSecond) \in Nat
    BY <2>2, RoundIsNat, SimulationAssumption
  <2>4. p.x \in Int /\ p.facing \in {-1, 1}
    BY <1>1 DEF PetType
  <2> QED
    BY <2>3, <2>4
<1>3. CASE e = NoEdge
  BY <1>1, <1>3, DropSettles DEF UpdateWalking
<1>4. CASE e # NoEdge /\ ContainsX(e, next_x)
  <2> DEFINE there == [p EXCEPT !.x = next_x]
  <2>1. q \in StrollOn(p, next_x, dt)
    BY <1>1, <1>4 DEF UpdateWalking
  <2>2. q = there \/ q = Enter(there, "idle")
    BY <2>1 DEF StrollOn
  <2>3. Settles(there) /\ there.perch # Nobody
    BY <1>1, <1>2, <1>4, SidestepSettles
  <2>4. Settles(Enter(there, "idle"))
    <3> HIDE DEF there
    <3> QED
      BY <2>3, EnterSettles DEF Grounded
  <2> QED
    BY <2>2, <2>3, <2>4
<1>5. CASE e # NoEdge /\ ~ContainsX(e, next_x)
  <2>1. q \in AtTheEnd(p, next_x)
    BY <1>1, <1>5 DEF UpdateWalking
  <2>2. q = Enter(p, "turning") \/ q = Drop([p EXCEPT !.x = next_x])
    BY <2>1 DEF AtTheEnd
  <2>3. Settles(Enter(p, "turning"))
    BY <1>1, EnterSettles DEF Grounded
  <2>4. [p EXCEPT !.x = next_x] \in PetType
    <3> HIDE DEF next_x
    <3> QED
      BY <1>1, <1>2 DEF PetType
  <2>5. Settles(Drop([p EXCEPT !.x = next_x]))
    <3> HIDE DEF next_x
    <3> QED
      BY <2>4, DropSettles
  <2> QED
    BY <2>2, <2>3, <2>5
<1> QED
  BY <1>3, <1>4, <1>5

\* Landing puts the pet on the edge it met.
LEMMA LandingSettles ==
  ASSUME TypeOK, NEW p \in PetType, NEW target, NEW width,
         edge_below(world.edges, p.x, p.y, target, width) # NoEdge
  PROVE  Settles(LandOn(p, edge_below(world.edges, p.x, p.y, target, width)))
<1> DEFINE e == edge_below(world.edges, p.x, p.y, target, width)
           q == [p EXCEPT !.y = e.y, !.vel = 0, !.perch = e.owner]
<1>1. IsDesktop(world) /\ world.edges \in Seq(EdgeType)
  BY WorldIsDesktop DEF IsDesktop
<1>2. p.x \in Int /\ p.y \in Int
  BY DEF PetType
<1>3. PICK i \in DOMAIN world.edges :
        e = world.edges[i] /\ ContainsX(world.edges[i], p.x)
  BY <1>1, <1>2, EdgeBelowIsBelow
<1>4. e \in EdgeType
  BY <1>1, <1>3
<1>5. find_by_owner(world.edges, e.owner) = e
  BY <1>1, <1>3, FindByOwnerFinds
<1> HIDE DEF e
<1>6. e \in EdgeType /\ e # NoEdge /\ ContainsX(e, p.x)
  BY <1>3, <1>4 DEF e
<1>7. /\ q \in PetType /\ q.perch = e.owner /\ q.x = p.x /\ q.y = e.y
      /\ e.owner # Nobody
  BY <1>6, SimulationAssumption DEF PetType, EdgeType
<1> HIDE DEF q
<1>8. /\ Enter(q, "landing") \in PetType
      /\ Enter(q, "landing").state = "landing"
      /\ Enter(q, "landing").x = p.x
      /\ Enter(q, "landing").y = e.y
      /\ Enter(q, "landing").perch = e.owner
  BY <1>7, EnterKeepsPlace DEF PetStates, Grounded
<1>9. Settles(Enter(q, "landing"))
  BY <1>5, <1>6, <1>7, <1>8
     DEF Settles, PerchedIffGrounded, OnItsEdge, StandsOn, Grounded
<1> QED
  BY <1>9 DEF LandOn, q, e

\* Whatever else a fall does, the pet stays in the air.
LEMMA AirborneSettles ==
  ASSUME NEW p \in PetType, p.perch = Nobody, p.state \notin Grounded
  PROVE  Settles(p)
BY DEF Settles, PerchedIffGrounded, OnItsEdge

LEMMA FallToSettles ==
  ASSUME TypeOK, NEW p \in PetType, p.perch = Nobody, p.state = "falling",
         NEW target \in Int, NEW q \in FallTo(p, target)
  PROVE  Settles(q)
<1> USE SimulationAssumption
<1>1. \A x \in Int, y \in Int : LET r == [p EXCEPT !.x = x, !.y = y, !.vel = 0]
                                IN  r \in PetType /\ r.perch = Nobody /\ r.state = "falling"
  BY DEF PetType
<1>2. \A y \in Int : LET r == [p EXCEPT !.y = y]
                     IN  r \in PetType /\ r.perch = Nobody /\ r.state = "falling"
  BY DEF PetType
<1>3. q \in PetType /\ q.perch = Nobody /\ q.state = "falling"
  <2>1. CASE world.outputs = {}
    <3>1. Lesser(target, OutOfTheWorld) \in Int
      BY DEF Lesser
    <3> QED
      BY <2>1, <3>1, <1>2 DEF FallTo
  <2>2. CASE world.outputs # {} /\ target > Lowest(world.outputs) + BelowFloor
    <3> DEFINE there == [p EXCEPT !.y = target]
    <3>1. q \in Recycled(there)
      BY <2>2 DEF FallTo
    <3> DEFINE above(o) == {[there EXCEPT !.x = across, !.y = o.top - AboveTop,
                                          !.vel = 0] :
                              across \in o.left .. o.right - 1}
    <3>a. Recycled(there) = UNION {above(o) : o \in world.outputs}
      BY DEF Recycled
    <3>b. PICK o \in world.outputs : q \in above(o)
      <4> HIDE DEF above, there
      <4> QED
        BY <3>1, <3>a
    <3>2. \E across \in o.left .. o.right - 1 :
            q = [there EXCEPT !.x = across, !.y = o.top - AboveTop, !.vel = 0]
      BY <3>b
    <3>3. o \in OutputType
      BY WorldIsDesktop DEF IsDesktop
    <3>4. PICK across \in o.left .. o.right - 1 :
            q = [there EXCEPT !.x = across, !.y = o.top - AboveTop, !.vel = 0]
      BY <3>2
    <3>5. across \in Int /\ o.top - AboveTop \in Int
      BY <3>3 DEF OutputType
    <3>6. q = [p EXCEPT !.x = across, !.y = o.top - AboveTop, !.vel = 0]
      BY <3>4 DEF PetType
    <3> QED
      BY <1>1, <3>5, <3>6
  <2>3. CASE world.outputs # {} /\ ~(target > Lowest(world.outputs) + BelowFloor)
    BY <2>3, <1>2 DEF FallTo
  <2> QED
    BY <2>1, <2>2, <2>3
<1> QED
  BY <1>3, AirborneSettles DEF Grounded

LEMMA FallingSettles ==
  ASSUME TypeOK, NEW p, Settles(p), p.state = "falling", NEW dt \in Nat,
         NEW q \in UpdateFalling(p, dt)
  PROVE  Settles(q)
<1> DEFINE vel == Lesser(p.vel + options.gravity * dt,
                         options.terminal_velocity * TicksPerSecond)
           target == p.y + Round(vel * dt, TicksPerSecond * TicksPerSecond)
           landing == edge_below(world.edges, p.x, p.y, target,
                                 options.minimum_perch_width)
           r == [p EXCEPT !.vel = vel]
<1>1. p \in PetType /\ p.perch = Nobody
  BY DEF Settles, PerchedIffGrounded, Grounded
<1>2. vel \in Nat /\ target \in Int
  <2>1. options.gravity \in Nat /\ options.terminal_velocity \in Nat
    BY SimulationAssumption DEF TypeOK, OptionsType
  <2>2. p.vel \in Nat /\ p.y \in Int
    BY <1>1 DEF PetType
  <2>3. options.gravity * dt \in Nat /\ options.terminal_velocity * TicksPerSecond \in Nat
    BY <2>1, SimulationAssumption
  <2>4. vel \in Nat
    BY <2>2, <2>3 DEF Lesser
  <2> HIDE DEF vel
  <2>5. vel * dt \in Nat /\ TicksPerSecond * TicksPerSecond \in Nat \ {0}
    BY <2>4, SimulationAssumption
  <2>6. Round(vel * dt, TicksPerSecond * TicksPerSecond) \in Nat
    BY <2>5, RoundIsNat
  <2> QED
    BY <2>2, <2>4, <2>6
<1>3. CASE landing # NoEdge
  <2>1. q = LandOn(p, landing)
    BY <1>3 DEF UpdateFalling
  <2> QED
    BY <1>1, <1>3, <2>1, LandingSettles
<1>4. CASE landing = NoEdge
  <2>1. q \in FallTo(r, target)
    BY <1>4 DEF UpdateFalling
  <2>2. r \in PetType /\ r.perch = Nobody /\ r.state = "falling"
    <3> HIDE DEF vel
    <3> QED
      BY <1>1, <1>2 DEF PetType
  <2> HIDE DEF r, target
  <2> QED
    BY <1>2, <2>1, <2>2, FallToSettles
<1> QED
  BY <1>3, <1>4

LEMMA WaitingSettles ==
  ASSUME NEW p, Settles(p), p.state \in {"idle", "turning", "landing", "flying"},
         NEW dt \in Nat, NEW q \in UpdatePet(p, dt)
  PROVE  Settles(q)
<1>1. p \in PetType
  BY DEF Settles
<1>2. CASE p.state = "flying"
  <2>1. q = Enter(p, "falling")
    BY <1>2 DEF UpdatePet
  <2>2. p.perch = Nobody
    BY <1>2 DEF Settles, PerchedIffGrounded, Grounded
  <2>3. q \in PetType /\ q.perch = Nobody /\ q.state = "falling"
    BY <1>1, <2>1, <2>2, EnterKeepsPlace DEF PetStates
  <2> QED
    BY <2>3, AirborneSettles DEF Grounded
<1>3. CASE p.state \in {"idle", "landing"}
  <2>1. q = p \/ q = Enter(p, "walking")
    BY <1>3 DEF UpdatePet, After
  <2>2. p.perch # Nobody
    BY <1>3 DEF Settles, PerchedIffGrounded, Grounded
  <2> QED
    BY <2>1, <2>2, EnterSettles DEF Grounded
<1>4. CASE p.state = "turning"
  <2> DEFINE r == [p EXCEPT !.facing = -@]
  <2>1. q = p \/ q = Enter(r, "walking")
    BY <1>4 DEF UpdatePet, After
  <2>2. p.perch # Nobody
    BY <1>4 DEF Settles, PerchedIffGrounded, Grounded
  <2>3. /\ r \in PetType /\ r.x = p.x /\ r.y = p.y /\ r.perch = p.perch
        /\ r.state = p.state
    BY <1>1 DEF PetType
  <2> HIDE DEF r
  <2>4. Settles(r) /\ r.perch # Nobody
    BY <2>2, <2>3 DEF Settles, PerchedIffGrounded, OnItsEdge, StandsOn
  <2> QED
    BY <2>1, <2>4, EnterSettles DEF Grounded
<1> QED
  BY <1>2, <1>3, <1>4

\* One pet through one update: however it was, as long as it was well typed and
\* either the world is new or it stood on its perch, it settles.
LEMMA MoveSettles ==
  ASSUME TypeOK, NEW p \in PetType, PerchedIffGrounded(p),
         ~unseen => OnItsEdge(p), NEW dt \in Nat, NEW q \in Moves(p, dt)
  PROVE  Settles(q)
<1> DEFINE a == Advance(p, dt)
           r == IF unseen THEN ReconcilePerch(a) ELSE a
<1>1. /\ a \in PetType /\ a.state = p.state /\ a.x = p.x /\ a.y = p.y
      /\ a.perch = p.perch
  BY AdvanceKeepsPlace
<1> HIDE DEF a
<1>2. PerchedIffGrounded(a) /\ (~unseen => OnItsEdge(a))
  BY <1>1 DEF PerchedIffGrounded, OnItsEdge, StandsOn
<1>3. Settles(r)
  BY <1>1, <1>2, ReconcileSettles DEF Settles
<1>4. q \in UpdatePet(r, dt)
  BY DEF Moves, a
<1> HIDE DEF r
<1>5. r.state \in PetStates
  BY <1>3 DEF Settles, PetType
<1>6. CASE r.state = "walking"
  BY <1>3, <1>4, <1>6, WalkingSettles DEF UpdatePet
<1>7. CASE r.state = "falling"
  BY <1>3, <1>4, <1>7, FallingSettles DEF UpdatePet
<1>8. CASE r.state \in {"idle", "turning", "landing", "flying"}
  BY <1>3, <1>4, <1>8, WaitingSettles
<1> QED
  BY <1>5, <1>6, <1>7, <1>8 DEF PetStates, Grounded

-----------------------------------------------------------------------------
(* The specification *)

IInv == TypeOK /\ PerchWhenGrounded /\ StandsOnAnEdge

LEMMA InitIInv == Init => IInv
<1> SUFFICES ASSUME Init PROVE IInv
  OBVIOUS
<1>1. TypeOK
  BY SimulationAssumption DEF Init, TypeOK
<1>2. PerchWhenGrounded /\ StandsOnAnEdge
  BY DEF Init, PerchWhenGrounded, StandsOnAnEdge
<1> QED
  BY <1>1, <1>2 DEF IInv

LEMMA UpdateIInv ==
  ASSUME IInv, NEW dt \in Steps, Update(dt)
  PROVE  IInv'
<1> USE SimulationAssumption
<1>1. TypeOK /\ dt \in Nat
  BY DEF IInv
<1>2. ASSUME NEW i \in DOMAIN pets, NEW q \in Moves(pets[i], dt)
      PROVE  Settles(q)
  <2>1. /\ pets[i] \in PetType
        /\ PerchedIffGrounded(pets[i])
        /\ ~unseen => OnItsEdge(pets[i])
    BY <1>2 DEF IInv, TypeOK, PerchWhenGrounded, StandsOnAnEdge
  <2> QED
    BY <1>1, <1>2, <2>1, MoveSettles
<1>3. /\ DOMAIN pets' = DOMAIN pets
      /\ \A i \in DOMAIN pets : Settles(pets'[i])
      /\ pets' \in [DOMAIN pets -> PetType]
  <2>1. /\ pets' \in [DOMAIN pets -> UNION {Moves(pets[i], dt) : i \in DOMAIN pets}]
        /\ \A i \in DOMAIN pets : pets'[i] \in Moves(pets[i], dt)
    BY DEF Update
  <2>2. \A i \in DOMAIN pets : Settles(pets'[i])
    BY <1>2, <2>1
  <2> QED
    BY <2>1, <2>2 DEF Settles
<1>4. pets' \in Seq(PetType) /\ Len(pets') = Len(pets)
  <2>1. DOMAIN pets = 1 .. Len(pets) /\ Len(pets) \in Nat
    BY <1>1 DEF TypeOK
  <2>2. pets' \in [1 .. Len(pets) -> PetType]
    BY <1>3, <2>1
  <2>3. pets' \in Seq(PetType)
    BY <2>1, <2>2, SeqDef
  <2> QED
    BY <2>1, <2>2, <2>3
<1>5. UNCHANGED <<world, options>> /\ unseen' = FALSE
  BY DEF Update
<1>6. TypeOK'
  BY <1>1, <1>4, <1>5 DEF TypeOK
<1>7. \A i \in DOMAIN pets' :
        PerchedIffGrounded(pets'[i]) /\ OnItsEdge(pets[i])'
  BY <1>3, <1>5 DEF Settles, OnItsEdge
<1> QED
  BY <1>6, <1>7 DEF IInv, PerchWhenGrounded, StandsOnAnEdge, PerchedIffGrounded

LEMMA SpawnIInv ==
  ASSUME IInv, NEW at \in SpawnPoints, Spawn(at)
  PROVE  IInv'
<1> USE SimulationAssumption
<1>1. NewPet(at) \in PetType
  BY DEF NewPet, PetType, PetStates
<1>2. NewPet(at).perch = Nobody /\ NewPet(at).state = "falling"
  BY DEF NewPet
<1> DEFINE n == NewPet(at)
<1> HIDE DEF n
<1>3. n \in PetType /\ n.perch = Nobody /\ n.state = "falling"
  BY <1>1, <1>2 DEF n
<1>4. /\ pets' = Append(pets, n) /\ Len(pets) < MaxPets
      /\ UNCHANGED <<world, unseen, options>>
  BY DEF Spawn, n
<1>5. TypeOK'
  BY <1>3, <1>4 DEF IInv, TypeOK
<1>6. ASSUME NEW i \in DOMAIN pets'
      PROVE  pets'[i] = n \/ (i \in DOMAIN pets /\ pets'[i] = pets[i])
  BY <1>3, <1>4 DEF IInv, TypeOK
<1>7. PerchWhenGrounded'
  BY <1>3, <1>6 DEF IInv, PerchWhenGrounded, PerchedIffGrounded, Grounded
<1>8. StandsOnAnEdge'
  BY <1>3, <1>4, <1>6 DEF IInv, StandsOnAnEdge, OnItsEdge
<1> QED
  BY <1>5, <1>7, <1>8 DEF IInv

\* The pets, the world and the options are well typed, a pet has a perch exactly
\* while its state needs one, and stands on it: an inductive invariant.
THEOREM InductiveInvariant == Spec => []IInv
<1>1. Init => IInv
  BY InitIInv
<1>2. IInv /\ [Next]_vars => IInv'
  <2> SUFFICES ASSUME IInv, [Next]_vars PROVE IInv'
    OBVIOUS
  <2>1. ASSUME NEW dt \in Steps, Update(dt) PROVE IInv'
    BY <2>1, UpdateIInv
  <2>2. ASSUME NEW w \in Desktops, SetWorld(w) PROVE IInv'
    BY <2>2 DEF SetWorld, IInv, TypeOK, PerchWhenGrounded, StandsOnAnEdge
  <2>3. ASSUME NEW at \in SpawnPoints, Spawn(at) PROVE IInv'
    BY <2>3, SpawnIInv
  <2>4. CASE ClearPets
    BY <2>4, SimulationAssumption
       DEF ClearPets, IInv, TypeOK, PerchWhenGrounded, StandsOnAnEdge
  <2>5. ASSUME NEW o \in OptionSets, SetOptions(o) PROVE IInv'
    BY <2>5 DEF SetOptions, IInv, TypeOK, PerchWhenGrounded, StandsOnAnEdge, OnItsEdge
  <2>6. CASE UNCHANGED vars
    BY <2>6 DEF vars, IInv, TypeOK, PerchWhenGrounded, StandsOnAnEdge, OnItsEdge
  <2> QED
    BY <2>1, <2>2, <2>3, <2>4, <2>5, <2>6 DEF Next
<1> QED
  BY <1>1, <1>2, PTL DEF Spec

\* The types of the simulation's state.
THEOREM TypeCorrect == Spec => []TypeOK
BY InductiveInvariant, PTL DEF IInv

\* A pet has a perch exactly while it is in a state that needs one.
THEOREM PerchMatchesState == Spec => []PerchWhenGrounded
BY InductiveInvariant, PTL DEF IInv

\* Once update has seen the world, no pet is left standing where no edge is.
THEOREM NobodyStandsOnAir == Spec => []StandsOnAnEdge
BY InductiveInvariant, PTL DEF IInv

-----------------------------------------------------------------------------
(* What an update may never do *)

\* What an update makes of the pets, one by one.
LEMMA UpdateMoves ==
  ASSUME IInv, NEW dt \in Steps, Update(dt), NEW i \in DOMAIN pets
  PROVE  /\ pets'[i] \in Moves(pets[i], dt)
         /\ pets[i] \in PetType /\ PerchedIffGrounded(pets[i])
         /\ UNCHANGED <<world, options>>
         /\ dt \in Nat
BY SimulationAssumption DEF Update, IInv, TypeOK, PerchWhenGrounded

\* A pet that only waits stays where it is.
LEMMA WaitingKeepsPlace ==
  ASSUME NEW p \in PetType, p.state \in Grounded \ {"walking"},
         NEW dt, NEW q \in UpdatePet(p, dt)
  PROVE  q.x = p.x /\ q.y = p.y /\ q.perch = p.perch
<1> DEFINE r == [p EXCEPT !.facing = -@]
<1>1. "walking" \in PetStates
  BY DEF PetStates, Grounded
<1>2. /\ r \in PetType /\ r.x = p.x /\ r.y = p.y /\ r.perch = p.perch
  BY DEF PetType
<1>3. q = p \/ q = Enter(p, "walking") \/ q = Enter(r, "walking")
  BY DEF UpdatePet, After, Grounded
<1> HIDE DEF r
<1> QED
  BY <1>1, <1>2, <1>3, EnterKeepsPlace

\* Reconciling takes a pet along that is still over a perch of its window.
LEMMA ReconcileRides ==
  ASSUME TypeOK, NEW p \in PetType, p.perch # Nobody,
         NEW e, e = find_by_owner(world.edges, p.perch),
         e # NoEdge, ContainsX(e, p.x), IsPerch(e)
  PROVE  LET r == ReconcilePerch(p)
         IN  /\ r \in PetType /\ r.state = p.state
             /\ r.x = p.x /\ r.y = e.y /\ r.perch = p.perch
<1>1. e \in EdgeType
  BY FoundIsEdge
<1>2. ~(Width(e) < options.minimum_perch_width)
  <2>1. Width(e) \in Int
    BY <1>1 DEF Width, EdgeType
  <2>2. options.minimum_perch_width \in Nat
    BY SimulationAssumption DEF TypeOK, OptionsType
  <2> QED
    BY <2>1, <2>2 DEF IsPerch
<1>3. ReconcilePerch(p) = [p EXCEPT !.y = e.y]
  BY <1>2 DEF ReconcilePerch
<1> QED
  BY <1>1, <1>3 DEF PetType, EdgeType

LEMMA UpdateRides ==
  ASSUME IInv, NEW dt \in Steps, Update(dt), unseen, NEW i \in DOMAIN pets,
         NEW e, e = find_by_owner(world.edges, pets[i].perch),
         pets[i].state \in Grounded \ {"walking"},
         e # NoEdge, ContainsX(e, pets[i].x), IsPerch(e)
  PROVE  pets'[i].perch = pets[i].perch /\ pets'[i].x = pets[i].x /\ pets'[i].y = e.y
<1> DEFINE p == pets[i]
           a == Advance(p, dt)
           r == ReconcilePerch(a)
<1>1. /\ pets'[i] \in Moves(p, dt) /\ p \in PetType /\ p.perch # Nobody
      /\ dt \in Nat /\ TypeOK
  BY UpdateMoves DEF PerchedIffGrounded, IInv
<1>2. /\ a \in PetType /\ a.state = p.state /\ a.x = p.x /\ a.y = p.y
      /\ a.perch = p.perch
  BY <1>1, AdvanceKeepsPlace
<1>3. pets'[i] \in UpdatePet(r, dt)
  BY <1>1 DEF Moves
<1> HIDE DEF a
<1>4. /\ r \in PetType /\ r.state = p.state
      /\ r.x = p.x /\ r.y = e.y /\ r.perch = p.perch
  BY <1>1, <1>2, ReconcileRides
<1> HIDE DEF r
<1> QED
  BY <1>3, <1>4, WaitingKeepsPlace

\* A pet that stands, turns, rests or lands on a window that moves and stays under it
\* rides along.
THEOREM WindowsCarryPets == Spec => RidesItsWindow
<1> DEFINE Rides ==
      Updating /\ unseen => \A i \in DOMAIN pets :
        LET e == find_by_owner(world.edges, pets[i].perch)
        IN  /\ pets[i].state \in Grounded \ {"walking"}
            /\ e # NoEdge /\ ContainsX(e, pets[i].x) /\ IsPerch(e)
            => /\ pets'[i].perch = pets[i].perch
               /\ pets'[i].x = pets[i].x
               /\ pets'[i].y = e.y
<1>1. IInv => Rides
  BY UpdateRides DEF Updating
<1>2. IInv /\ [Next]_vars => [Rides]_vars
  BY <1>1
<1> QED
  BY <1>2, InductiveInvariant, PTL DEF Spec, RidesItsWindow

\* Where a fall may lead: onto what edge_below finds on the way down to `target`; and
\* if that is nothing, there, or back to the top of an output.
FallsTo(p, q, vel, target) ==
  LET hit == edge_below(world.edges, p.x, p.y, target, options.minimum_perch_width)
  IN  \/ /\ hit # NoEdge
         /\ q.state = "landing" /\ q.x = p.x /\ q.y = hit.y
      \/ /\ hit = NoEdge
         /\ q.state = "falling"
         /\ \/ world.outputs = {} /\ q.y = Lesser(target, OutOfTheWorld) /\ q.vel = vel
            \/ /\ world.outputs # {} /\ target > Depth /\ q.vel = 0
               /\ \E o \in world.outputs : q.y = o.top - AboveTop
            \/ /\ world.outputs # {} /\ ~(target > Depth)
               /\ q.y = target /\ q.vel = vel

\* What the lowest output is, where there is one.
LEMMA LowestIsLowest ==
  ASSUME IsDesktop(world), world.outputs # {}
  PROVE  /\ Lowest(world.outputs) \in Int
         /\ \A o \in world.outputs : o.bottom <= Lowest(world.outputs)
<1> DEFINE bottom == [o \in world.outputs |-> o.bottom]
           B == {o.bottom : o \in world.outputs}
<1>1. IsFiniteSet(world.outputs) /\ world.outputs \subseteq OutputType
  BY DEF IsDesktop
<1>2. bottom \in Surjection(world.outputs, B)
  BY DEF Surjection
<1>3. IsFiniteSet(B)
  <2> HIDE DEF bottom, B
  <2> QED
    BY <1>1, <1>2, FS_Surjection
<1>4. B \in SUBSET Int /\ B # {}
  BY <1>1 DEF OutputType
<1> HIDE DEF B
<1>5. Max(B) \in B /\ \A y \in B : y <= Max(B)
  BY <1>3, <1>4, MaxOfFinite
<1> QED
  BY <1>4, <1>5 DEF Lowest, B

LEMMA DepthIsInt ==
  ASSUME IsDesktop(world)
  PROVE  Depth \in Int
BY LowestIsLowest, SimulationAssumption DEF Depth

\* One falling pet through FallTo.
LEMMA FallToFallsTo ==
  ASSUME NEW p \in PetType, p.state = "falling", NEW vel \in Nat, p.vel = vel,
         NEW target \in Int, NEW q \in FallTo(p, target),
         edge_below(world.edges, p.x, p.y, target, options.minimum_perch_width) = NoEdge
  PROVE  FallsTo(p, q, vel, target)
<1> DEFINE there == [p EXCEPT !.y = target]
<1>1. CASE world.outputs = {}
  <2>1. q = [p EXCEPT !.y = Lesser(target, OutOfTheWorld)]
    BY <1>1 DEF FallTo
  <2>2. q.state = "falling" /\ q.y = Lesser(target, OutOfTheWorld) /\ q.vel = vel
    BY <2>1 DEF PetType
  <2> QED
    BY <1>1, <2>2 DEF FallsTo
<1>2. CASE world.outputs # {} /\ target > Depth
  <2>1. q \in Recycled(there)
    BY <1>2 DEF FallTo, Depth
  <2>2. PICK o \in world.outputs : \E across \in o.left .. o.right - 1 :
          q = [there EXCEPT !.x = across, !.y = o.top - AboveTop, !.vel = 0]
    <3> DEFINE above(o) == {[there EXCEPT !.x = across, !.y = o.top - AboveTop,
                                          !.vel = 0] :
                              across \in o.left .. o.right - 1}
    <3>1. Recycled(there) = UNION {above(o) : o \in world.outputs}
      BY DEF Recycled
    <3>2. PICK o \in world.outputs : q \in above(o)
      <4> HIDE DEF above, there
      <4> QED
        BY <2>1, <3>1
    <3> QED
      BY <3>2
  <2>3. q.state = "falling" /\ q.y = o.top - AboveTop /\ q.vel = 0
    BY <2>2 DEF PetType
  <2> QED
    BY <1>2, <2>3 DEF FallsTo
<1>3. CASE world.outputs # {} /\ ~(target > Depth)
  <2>1. q = there
    BY <1>3 DEF FallTo, Depth
  <2>2. q.state = "falling" /\ q.y = target /\ q.vel = vel
    BY <2>1 DEF PetType
  <2> QED
    BY <1>3, <2>2 DEF FallsTo
<1> QED
  BY <1>1, <1>2, <1>3

\* One falling pet through an update: it goes down by what gravity makes of its speed.
LEMMA FallingMoves ==
  ASSUME TypeOK, NEW p \in PetType, PerchedIffGrounded(p), p.state = "falling",
         NEW dt \in Nat, NEW q \in Moves(p, dt)
  PROVE  \E vel \in Nat, target \in Int :
            (dt > 0 => vel > 0) /\ target >= p.y /\ FallsTo(p, q, vel, target)
<1> DEFINE a == Advance(p, dt)
           vel == Lesser(a.vel + options.gravity * dt,
                         options.terminal_velocity * TicksPerSecond)
           target == a.y + Round(vel * dt, TicksPerSecond * TicksPerSecond)
           landing == edge_below(world.edges, a.x, a.y, target,
                                 options.minimum_perch_width)
           r == [a EXCEPT !.vel = vel]
<1>1. /\ a \in PetType /\ a.state = "falling" /\ a.x = p.x /\ a.y = p.y
      /\ a.perch = Nobody
  BY AdvanceKeepsPlace DEF PerchedIffGrounded, Grounded
<1>2. q \in UpdatePet(a, dt)
  BY <1>1 DEF Moves, ReconcilePerch
<1> HIDE DEF a
<1>3. q \in UpdateFalling(a, dt)
  BY <1>1, <1>2 DEF UpdatePet
<1>4. vel \in Nat /\ (dt > 0 => vel > 0) /\ target \in Int /\ target >= p.y
  <2>1. options.gravity \in Nat \ {0} /\ options.terminal_velocity \in Nat \ {0}
    BY SimulationAssumption DEF TypeOK, OptionsType
  <2>2. a.vel \in Nat /\ a.y \in Int
    BY <1>1 DEF PetType
  <2>3. options.gravity * dt \in Nat /\ (dt > 0 => options.gravity * dt > 0)
    BY <2>1, Z3
  <2>4. options.terminal_velocity * TicksPerSecond \in Nat \ {0}
    BY <2>1, SimulationAssumption, Z3
  <2>5. vel \in Nat /\ (dt > 0 => vel > 0)
    BY <2>2, <2>3, <2>4 DEF Lesser
  <2> HIDE DEF vel
  <2>6. vel * dt \in Nat /\ TicksPerSecond * TicksPerSecond \in Nat \ {0}
    BY <2>5, SimulationAssumption
  <2>7. Round(vel * dt, TicksPerSecond * TicksPerSecond) \in Nat
    BY <2>6, RoundIsNat
  <2> QED
    BY <1>1, <2>2, <2>5, <2>7
<1>5. CASE landing # NoEdge
  <2>1. q = LandOn(a, landing)
    BY <1>3, <1>5 DEF UpdateFalling
  <2>2. landing \in EdgeType
    <3>1. world.edges \in Seq(EdgeType)
      BY WorldIsDesktop DEF IsDesktop
    <3>2. a.x \in Int /\ a.y \in Int
      BY <1>1 DEF PetType
    <3>3. \E i \in DOMAIN world.edges : landing = world.edges[i]
      <4> HIDE DEF target
      <4> QED
        BY <1>5, <3>1, <3>2, EdgeBelowIsBelow
    <3> QED
      BY <3>1, <3>3
  <2> HIDE DEF landing
  <2> DEFINE s == [a EXCEPT !.y = landing.y, !.vel = 0, !.perch = landing.owner]
  <2>3. s \in PetType /\ s.x = p.x /\ s.y = landing.y
    BY <1>1, <2>2 DEF PetType, EdgeType
  <2> HIDE DEF s
  <2>4. Enter(s, "landing").state = "landing" /\ Enter(s, "landing").x = p.x
        /\ Enter(s, "landing").y = landing.y
    BY <2>3, EnterKeepsPlace DEF PetStates, Grounded
  <2>5. q.state = "landing" /\ q.x = p.x /\ q.y = landing.y
    BY <2>1, <2>4 DEF LandOn, s
  <2>6. FallsTo(p, q, vel, target)
    <3> HIDE DEF vel, target
    <3> QED
      BY <1>1, <1>5, <2>5 DEF FallsTo, landing
  <2> QED
    BY <1>4, <2>6
<1>6. CASE landing = NoEdge
  <2>1. q \in FallTo(r, target)
    BY <1>3, <1>6 DEF UpdateFalling
  <2> HIDE DEF vel, target
  <2>2. /\ r \in PetType /\ r.state = "falling" /\ r.x = p.x /\ r.y = p.y /\ r.vel = vel
    BY <1>1, <1>4 DEF PetType
  <2> HIDE DEF r
  <2>3. edge_below(world.edges, r.x, r.y, target, options.minimum_perch_width) = NoEdge
    BY <1>1, <1>6, <2>2
  <2>4. FallsTo(r, q, vel, target)
    BY <1>4, <2>1, <2>2, <2>3, FallToFallsTo
  <2>5. FallsTo(p, q, vel, target)
    BY <2>2, <2>4 DEF FallsTo
  <2> QED
    BY <1>4, <2>5
<1> QED
  BY <1>5, <1>6

LEMMA UpdateBounds ==
  ASSUME IInv, NEW dt \in Steps, Update(dt), NEW i \in DOMAIN pets,
         pets[i].state = "falling", pets'[i].state = "falling"
  PROVE  pets'[i].y <= Depth
<1>1. /\ pets'[i] \in Moves(pets[i], dt) /\ pets[i] \in PetType /\ dt \in Nat /\ TypeOK
      /\ PerchedIffGrounded(pets[i])
  BY UpdateMoves DEF IInv
<1>2. PICK vel \in Nat, target \in Int : FallsTo(pets[i], pets'[i], vel, target)
  BY <1>1, FallingMoves
<1>3. IsDesktop(world) /\ Depth \in Int
  BY <1>1, WorldIsDesktop, DepthIsInt
<1>4. CASE world.outputs = {} /\ pets'[i].y = Lesser(target, OutOfTheWorld)
  BY <1>4, SimulationAssumption DEF Lesser, Depth
<1>5. CASE world.outputs # {} /\ \E o \in world.outputs : pets'[i].y = o.top - AboveTop
  <2>1. PICK o \in world.outputs : pets'[i].y = o.top - AboveTop
    BY <1>5
  <2>2. o.top \in Int /\ o.bottom \in Int /\ o.top <= o.bottom
    BY <1>3 DEF IsDesktop, OutputType
  <2>3. Lowest(world.outputs) \in Int /\ o.bottom <= Lowest(world.outputs)
    BY <1>3, LowestIsLowest
  <2>4. AboveTop \in Nat /\ BelowFloor \in Nat
    BY SimulationAssumption
  <2>5. Depth = Lowest(world.outputs) + BelowFloor
    BY <1>5 DEF Depth
  <2> QED
    BY <2>1, <2>2, <2>3, <2>4, <2>5
<1>6. CASE world.outputs # {} /\ ~(target > Depth) /\ pets'[i].y = target
  BY <1>3, <1>6
<1> QED
  BY <1>2, <1>4, <1>5, <1>6 DEF FallsTo

\* A pet that goes on falling stays above the depth at which it is taken back.
THEOREM FallsStayBounded == Spec => FallIsBounded
<1> DEFINE Bounded ==
      Updating => \A i \in DOMAIN pets :
        pets[i].state = "falling" /\ pets'[i].state = "falling" => pets'[i].y <= Depth
<1>1. IInv => Bounded
  BY UpdateBounds DEF Updating
<1>2. IInv /\ [Next]_vars => [Bounded]_vars
  BY <1>1
<1> QED
  BY <1>2, InductiveInvariant, PTL DEF Spec, FallIsBounded

\* A perch that a pet meets is one that edge_below looks for, and the other way round.
LEMMA MetIsFound ==
  ASSUME NEW p, NEW y
  PROVE  /\ Met(p, y) = {} <=>
              \A i \in DOMAIN world.edges :
                 ~(/\ p.y < world.edges[i].y /\ world.edges[i].y <= y
                   /\ ContainsX(world.edges[i], p.x)
                   /\ Width(world.edges[i]) >= options.minimum_perch_width)
BY DEF Met, Range, IsPerch

LEMMA EdgesAreEdges ==
  ASSUME IsDesktop(world)
  PROVE  /\ world.edges \in Seq(EdgeType)
         /\ \A i \in DOMAIN world.edges :
              world.edges[i] \in EdgeType /\ world.edges[i].y \in Int /\ i \in Int
<1>1. world.edges \in Seq(EdgeType)
  BY DEF IsDesktop
<1>2. \A i \in DOMAIN world.edges : world.edges[i] \in EdgeType /\ i \in Int
  BY <1>1
<1>3. \A e \in EdgeType : e.y \in Int
  BY DEF EdgeType
<1> QED
  BY <1>1, <1>2, <1>3

\* The less deep, the less is met.
LEMMA MetAbove ==
  ASSUME IsDesktop(world), NEW p \in PetType, NEW y \in Int, NEW deeper \in Int,
         y <= deeper, Met(p, deeper) = {}
  PROVE  Met(p, y) = {}
<1>1. \A e \in Range(world.edges) : e.y \in Int
  BY EdgesAreEdges DEF Range
<1> QED
  BY <1>1 DEF Met

LEMMA MissedNothing ==
  ASSUME TypeOK, NEW p \in PetType, NEW target \in Int,
         edge_below(world.edges, p.x, p.y, target, options.minimum_perch_width) = NoEdge
  PROVE  Met(p, target) = {}
<1>1. world.edges \in Seq(EdgeType) /\ p.x \in Int /\ p.y \in Int
  BY WorldIsDesktop DEF IsDesktop, PetType
<1> QED
  BY <1>1, EdgeBelowMissesNothing, MetIsFound

\* The edges are sorted, so that the first of them below a pet is the highest one.
LEMMA FirstIsHighest ==
  ASSUME TypeOK, NEW p \in PetType, NEW target \in Int, NEW hit,
         hit = edge_below(world.edges, p.x, p.y, target, options.minimum_perch_width),
         hit # NoEdge
  PROVE  p.y < hit.y /\ Met(p, hit.y - 1) = {} /\ Met(p, hit.y) # {}
<1>1. IsDesktop(world) /\ world.edges \in Seq(EdgeType) /\ p.x \in Int /\ p.y \in Int
  BY WorldIsDesktop DEF IsDesktop, PetType
<1> DEFINE Below(j, y) ==
      /\ p.y < world.edges[j].y /\ world.edges[j].y <= y
      /\ ContainsX(world.edges[j], p.x)
      /\ Width(world.edges[j]) >= options.minimum_perch_width
<1>2. PICK i \in DOMAIN world.edges :
        hit = world.edges[i] /\ Below(i, target)
        /\ \A j \in DOMAIN world.edges : Below(j, target) => i <= j
  BY <1>1, EdgeBelowIsBelow
<1>3. \A j \in DOMAIN world.edges : world.edges[j].y \in Int /\ j \in Int
  BY <1>1, EdgesAreEdges
<1>4. ASSUME NEW j \in DOMAIN world.edges, Below(j, hit.y - 1)
      PROVE  FALSE
  <2>1. Below(j, target) /\ world.edges[j].y < hit.y
    BY <1>2, <1>3, <1>4
  <2>2. i <= j
    BY <1>2, <2>1
  <2>3. j < i
    BY <1>1, <1>2, <2>1 DEF IsDesktop, Sorted, Before
  <2> QED
    BY <1>3, <2>2, <2>3
<1>5. Met(p, hit.y - 1) = {}
  BY <1>4, MetIsFound
<1>6. Below(i, hit.y)
  BY <1>2, <1>3
<1>7. Met(p, hit.y) # {}
  BY <1>6, MetIsFound
<1> QED
  BY <1>2, <1>5, <1>7

LEMMA UpdatePassesNone ==
  ASSUME IInv, NEW dt \in Steps \ {0}, Update(dt), NEW i \in DOMAIN pets,
         pets[i].state = "falling"
  PROVE  PassesNone(pets[i], pets'[i])
<1> DEFINE p == pets[i]
           q == pets'[i]
<1>1. /\ q \in Moves(p, dt) /\ p \in PetType /\ dt \in Nat /\ dt > 0 /\ TypeOK
      /\ PerchedIffGrounded(p)
  BY UpdateMoves, SimulationAssumption DEF IInv
<1> HIDE DEF p, q
<1>2. PICK vel \in Nat, target \in Int :
        vel > 0 /\ target >= p.y /\ FallsTo(p, q, vel, target)
  BY <1>1, FallingMoves DEF p
<1>3. IsDesktop(world) /\ Depth \in Int /\ p.y \in Int
  BY <1>1, WorldIsDesktop, DepthIsInt DEF PetType
<1> DEFINE hit == edge_below(world.edges, p.x, p.y, target, options.minimum_perch_width)
<1>4. CASE hit # NoEdge /\ q.state = "landing" /\ q.x = p.x /\ q.y = hit.y
  <2> HIDE DEF hit
  <2>1. p.y < hit.y /\ Met(p, hit.y - 1) = {} /\ Met(p, hit.y) # {}
    BY <1>1, <1>4, FirstIsHighest DEF hit
  <2>2. hit.y > p.y
    <3>1. hit.y \in Int
      <4>1. world.edges \in Seq(EdgeType) /\ p.x \in Int
        BY <1>1, <1>3 DEF IsDesktop, PetType
      <4>2. hit \in EdgeType
        BY <1>3, <1>4, <4>1, EdgeBelowIsBelow DEF hit
      <4> QED
        BY <4>2 DEF EdgeType
    <3> QED
      BY <1>3, <2>1, <3>1
  <2> QED
    BY <1>4, <2>1, <2>2 DEF PassesNone, p, q
<1>5. CASE hit = NoEdge /\ q.state = "falling"
  <2>1. Met(p, target) = {}
    BY <1>1, <1>5, MissedNothing
  <2>2. CASE q.vel = vel /\ q.y = target
    BY <1>2, <1>5, <2>1, <2>2 DEF PassesNone, p, q
  <2>3. CASE q.vel = vel /\ q.y = Lesser(target, OutOfTheWorld)
    <3>1. q.y \in Int /\ q.y <= target
      BY <2>3, SimulationAssumption DEF Lesser
    <3>2. Met(p, q.y) = {}
      BY <1>1, <1>3, <2>1, <3>1, MetAbove
    <3> QED
      BY <1>2, <1>5, <2>3, <3>2 DEF PassesNone, p, q
  <2>4. CASE q.vel = 0 /\ target > Depth
    <3>1. Met(p, Depth) = {}
      BY <1>1, <1>3, <2>1, <2>4, MetAbove
    <3> QED
      BY <1>5, <2>4, <3>1 DEF PassesNone, p, q
  <2> QED
    BY <1>2, <1>5, <2>2, <2>3, <2>4 DEF FallsTo
<1> QED
  BY <1>2, <1>4, <1>5 DEF FallsTo

\* However long a frame took, a falling pet passes no perch: it lands on the first one
\* on its way, and is taken back to the top only if there was none.
THEOREM NobodyTunnels == Spec => NoTunnelling
<1> DEFINE Passes ==
      MovingOn => \A i \in DOMAIN pets :
        pets[i].state = "falling" => PassesNone(pets[i], pets'[i])
<1>1. IInv => Passes
  BY UpdatePassesNone DEF MovingOn
<1>2. IInv /\ [Next]_vars => [Passes]_vars
  BY <1>1
<1> QED
  BY <1>2, InductiveInvariant, PTL DEF Spec, NoTunnelling

-----------------------------------------------------------------------------
(* Where worlds come from: DesktopScanner.  Its edges are sorted and there is one   *)
(* of each it has found, which is what the lookups rely on.                         *)

\* The edges there are to be found on the desktop as it is.
EdgesThere == scan_windows \cup add_taskbar \cup add_screen_floors

\* What has been scanned is the desktop as it is.
ScanInv ==
  /\ screens \in Screens
  /\ Scanned => scanned.edges \in InOrder(EdgesThere)

LEMMA DesktopMakesEdges ==
  ASSUME UNCHANGED <<windows, stack, screens>>
  PROVE  EdgesThere' = EdgesThere
BY DEF EdgesThere, scan_windows, add_taskbar, add_screen_floors,
   Candidate, IsCandidate, Rank, CoveredByPanel

LEMMA ScanIsUpToDate == ScannerSpec => []ScanInv
<1>1. ScannerInit => ScanInv
  BY DEF ScannerInit, ScanInv, Scanned
<1>2. ScanInv /\ [ScannerNext]_scannerVars => ScanInv'
  <2> SUFFICES ASSUME ScanInv, [ScannerNext]_scannerVars PROVE ScanInv'
    OBVIOUS
  <2>1. CASE UNCHANGED scannerVars
    <3>1. UNCHANGED <<windows, stack, screens, scanned>>
      BY <2>1 DEF scannerVars
    <3>2. EdgesThere' = EdgesThere
      BY <3>1, DesktopMakesEdges
    <3> QED
      BY <3>1, <3>2 DEF ScanInv, InOrder, Sorted, NotScanned, Scanned
  <2>2. CASE Scan
    <3>1. UNCHANGED <<windows, stack, screens>>
      BY <2>2 DEF Scan
    <3>2. EdgesThere' = EdgesThere
      BY <3>1, DesktopMakesEdges
    <3>3. scanned'.edges \in InOrder(EdgesThere)
      <4>1. PICK s \in InOrder(EdgesThere) :
              \E outputs : scanned' = [edges |-> s, outputs |-> outputs]
        BY <2>2 DEF Scan, EdgesThere
      <4> QED
        BY <4>1
    <3> QED
      BY <3>1, <3>2, <3>3 DEF ScanInv, Scanned
  <2>3. ASSUME scanned' = NotScanned, screens' \in Screens
        PROVE  ScanInv'
    BY <2>3 DEF ScanInv, Scanned, NotScanned
  <2>4. ASSUME NEW w \in Windows,
               \/ \E f \in Frames[w] : Move(w, f)
               \/ \E k \in Kinds : Become(w, k)
               \/ Raise(w)
        PROVE  ScanInv'
    BY <2>3, <2>4 DEF ScanInv, Move, Become, Raise
  <2>5. ASSUME NEW s \in Screens, Rearrange(s)
        PROVE  ScanInv'
    BY <2>3, <2>5 DEF Rearrange
  <2> QED
    BY <2>1, <2>2, <2>4, <2>5 DEF ScannerNext
<1> QED
  BY <1>1, <1>2, PTL DEF ScannerSpec

\* What is made of each element of a finite set is a finite set.
LEMMA ImageIsFinite ==
  ASSUME NEW S, IsFiniteSet(S), NEW f, DOMAIN f = S
  PROVE  IsFiniteSet({f[x] : x \in S})
<1> DEFINE T == {f[x] : x \in S}
<1>1. [x \in S |-> f[x]] \in Surjection(S, T)
  BY DEF Surjection
<1> HIDE DEF T
<1>2. IsFiniteSet(T)
  BY <1>1, FS_Surjection
<1> QED
  BY <1>2 DEF T

\* A scan finds finitely many edges.
LEMMA FinitelyManyEdges ==
  ASSUME ScanInv
  PROVE  IsFiniteSet(EdgesThere)
<1>1. /\ IsFiniteSet(Windows) /\ IsFiniteSet(screens.monitors)
      /\ IsFiniteSet(screens.taskbar)
  BY ScannerAssumption DEF ScanInv
<1>2. IsFiniteSet(scan_windows)
  <2> DEFINE able == {v \in Windows : IsCandidate(v)}
             cands == {Candidate(w) : w \in able}
             wide == {d \in cands :
                        Length(VisibleTop(d, cands)) >= MinimumWidth}
             edge == [c \in wide |->
                        [owner |-> c.id, y |-> c.top,
                         left |-> VisibleTop(c, cands)[1],
                         right |-> VisibleTop(c, cands)[2], z |-> c.z]]
  <2>1. scan_windows = {edge[c] : c \in wide}
    BY DEF scan_windows, window_edges
  <2>2. IsFiniteSet(able)
    BY <1>1, FS_Subset
  <2>3. IsFiniteSet(cands)
    <3> DEFINE f == [w \in able |-> Candidate(w)]
    <3>1. cands = {f[w] : w \in able}
      OBVIOUS
    <3> HIDE DEF able, f, cands
    <3> QED
      BY <2>2, <3>1, ImageIsFinite DEF f
  <2>4. IsFiniteSet(wide)
    <3> HIDE DEF cands
    <3> QED
      BY <2>3, FS_Subset
  <2> HIDE DEF wide
  <2>5. DOMAIN edge = wide
    OBVIOUS
  <2> HIDE DEF edge
  <2> QED
    BY <2>1, <2>4, <2>5, ImageIsFinite
<1>3. IsFiniteSet(add_taskbar)
  <2> DEFINE bars == {t \in screens.taskbar : /\ t.right - t.left >= MinimumWidth
                                              /\ t.bottom - t.top <= t.right - t.left}
             edge == [t \in bars |-> [owner |-> Taskbar, y |-> t.top, left |-> t.left,
                                      right |-> t.right, z |-> IntMin + 1]]
  <2>1. add_taskbar = {edge[t] : t \in bars}
    BY DEF add_taskbar
  <2>2. IsFiniteSet(bars)
    BY <1>1, FS_Subset
  <2> HIDE DEF bars
  <2>3. DOMAIN edge = bars
    OBVIOUS
  <2> HIDE DEF edge
  <2> QED
    BY <2>1, <2>2, <2>3, ImageIsFinite
<1>4. IsFiniteSet(add_screen_floors)
  <2> DEFINE bare == {n \in screens.monitors : ~CoveredByPanel(n.work)}
             edge == [m \in bare |-> [owner |-> -m.id, y |-> m.work.bottom,
                                      left |-> m.work.left, right |-> m.work.right,
                                      z |-> IntMin]]
  <2>1. add_screen_floors = {edge[m] : m \in bare}
    BY DEF add_screen_floors
  <2>2. IsFiniteSet(bare)
    BY <1>1, FS_Subset
  <2> HIDE DEF bare
  <2>3. DOMAIN edge = bare
    OBVIOUS
  <2> HIDE DEF edge
  <2> QED
    BY <2>1, <2>2, <2>3, ImageIsFinite
<1> QED
  BY <1>2, <1>3, <1>4, FS_Union DEF EdgesThere

\* A sequence of a finite set's elements, each of them once, has them all.
LEMMA SeqHasThemAll ==
  ASSUME NEW S, IsFiniteSet(S), NEW s \in SetToSeqs(S)
  PROVE  DOMAIN s = 1 .. Cardinality(S) /\ Cardinality(S) \in Nat /\ Range(s) = S
<1> DEFINE D == 1 .. Cardinality(S)
<1>1. Cardinality(S) \in Nat
  BY FS_CardinalityType
<1>2. s \in [D -> S] /\ \A i, j \in D : i # j => s[i] # s[j]
  BY DEF SetToSeqs
<1>3. IsFiniteSet(D) /\ Cardinality(D) = Cardinality(S)
  BY <1>1, FS_Interval
<1> HIDE DEF D
<1>4. s \in Injection(D, S)
  BY <1>2 DEF Injection, IsInjective
<1>5. s \in Surjection(D, S)
  BY <1>3, <1>4, FS_Injection
<1>6. DOMAIN s = D /\ Range(s) = S
  BY <1>2, <1>5 DEF Surjection, Range
<1> QED
  BY <1>1, <1>6 DEF D

\* On every desktop a scan makes, the perch a lookup finds is the highest there is
\* below the point, and at one height the frontmost.
THEOREM LandsOnTheHighest == ScannerSpec => []LandingIsTheHighest
<1>1. ScanInv => LandingIsTheHighest
  <2> SUFFICES ASSUME ScanInv, Scanned,
                      NEW m \in screens.monitors, NEW x \in m.left .. m.right - 1,
                      NEW y \in m.top - 1 .. m.bottom
               PROVE  LET hit == edge_below(scanned.edges, x, y, m.bottom, MinimumWidth)
                          perches == {e \in Range(scanned.edges) :
                                        /\ ContainsX(e, x)
                                        /\ e.y > y /\ e.y <= m.bottom
                                        /\ Width(e) >= MinimumWidth}
                      IN  IF perches = {} THEN hit = NoEdge
                          ELSE hit \in perches
                               /\ \A e \in perches : ~Before(e, hit)
    BY DEF LandingIsTheHighest
  <2> DEFINE edges == scanned.edges
             Perch(e) == /\ ContainsX(e, x)
                         /\ y < e.y /\ e.y <= m.bottom
                         /\ Width(e) >= MinimumWidth
             found == {i \in DOMAIN edges : Perch(edges[i])}
             perches == {e \in Range(edges) : Perch(e)}
             hit == FirstOf(edges, found)
  <2>1. edges \in SetToSeqs(EdgesThere) /\ Sorted(edges)
    BY DEF ScanInv, InOrder
  <2>2. DOMAIN edges \subseteq Nat
    <3> DEFINE n == Cardinality(EdgesThere)
    <3>1. DOMAIN edges = 1 .. n
      BY <2>1 DEF SetToSeqs
    <3> HIDE DEF n
    <3> QED
      BY <3>1
  <2>3. hit = edge_below(edges, x, y, m.bottom, MinimumWidth)
    <3>1. found = {i \in DOMAIN edges :
                     /\ y < edges[i].y /\ edges[i].y <= m.bottom
                     /\ ContainsX(edges[i], x)
                     /\ Width(edges[i]) >= MinimumWidth}
      OBVIOUS
    <3> HIDE DEF found
    <3> QED
      BY <3>1 DEF edge_below
  <2>4. perches = {edges[i] : i \in found}
    BY DEF Range
  <2>5. perches = {e \in Range(scanned.edges) :
                     /\ ContainsX(e, x) /\ e.y > y /\ e.y <= m.bottom
                     /\ Width(e) >= MinimumWidth}
    OBVIOUS
  <2>6. found \in SUBSET Nat /\ found \subseteq DOMAIN edges
    BY <2>2
  <2> HIDE DEF edges, found, perches
  <2>7. CASE perches = {}
    <3>1. found = {}
      BY <2>4, <2>7
    <3>2. hit = NoEdge
      BY <3>1 DEF FirstOf
    <3> QED
      BY <2>3, <2>5, <2>7, <3>2 DEF edges
  <2>8. CASE perches # {}
    <3>1. PICK i \in found : hit = edges[i] /\ \A j \in found : i <= j
      BY <2>4, <2>6, <2>8, FirstOfIsFirst
    <3>2. hit \in perches
      BY <2>4, <3>1
    <3>3. ASSUME NEW j \in found, Before(edges[j], hit)
          PROVE  FALSE
      <4>1. j < i
        BY <2>1, <2>6, <3>1, <3>3 DEF Sorted
      <4> QED
        BY <2>6, <3>1, <4>1
    <3>4. \A e \in perches : ~Before(e, hit)
      BY <2>4, <3>3
    <3> QED
      BY <2>3, <2>5, <2>8, <3>2, <3>4 DEF edges
  <2> QED
    BY <2>7, <2>8
<1> QED
  BY <1>1, ScanIsUpToDate, PTL

\* A scan has all the edges there are.
LEMMA AllEdgesScanned ==
  ASSUME ScanInv, Scanned
  PROVE  Range(scanned.edges) = EdgesThere
<1>1. scanned.edges \in SetToSeqs(EdgesThere)
  BY DEF ScanInv, InOrder
<1> QED
  BY <1>1, FinitelyManyEdges, SeqHasThemAll

\* Whatever the windows and the monitors are, every column of every work area has an
\* edge at its bottom: the panel that spans the area, or a floor of its own.
THEOREM EveryFloorIsThere == ScannerSpec => []EveryWorkAreaHasAFloor
<1>1. ScanInv => EveryWorkAreaHasAFloor
  <2> SUFFICES ASSUME ScanInv, Scanned, NEW m \in screens.monitors,
                      NEW x \in m.work.left .. m.work.right - 1
               PROVE  \E e \in Range(scanned.edges) :
                        ContainsX(e, x) /\ e.y = m.work.bottom
    BY DEF EveryWorkAreaHasAFloor
  <2>1. Range(scanned.edges) = EdgesThere
    BY AllEdgesScanned
  <2>2. /\ m.work.left \in Int /\ m.work.right \in Int
        /\ \A t \in screens.taskbar : t.left \in Int /\ t.right \in Int
    BY ScannerAssumption DEF ScanInv, RectType
  <2>3. x \in Int /\ m.work.left <= x /\ x < m.work.right
    BY <2>2
  <2>4. CASE CoveredByPanel(m.work)
    <3>1. PICK e \in add_taskbar :
            e.y = m.work.bottom /\ e.left <= m.work.left /\ e.right >= m.work.right
      BY <2>4 DEF CoveredByPanel
    <3>2. e.left \in Int /\ e.right \in Int
      BY <2>2, <3>1 DEF add_taskbar
    <3>3. ContainsX(e, x)
      BY <2>2, <2>3, <3>1, <3>2 DEF ContainsX
    <3> QED
      BY <2>1, <3>1, <3>3 DEF EdgesThere
  <2>5. CASE ~CoveredByPanel(m.work)
    <3> DEFINE floor == [owner |-> -m.id, y |-> m.work.bottom, left |-> m.work.left,
                         right |-> m.work.right, z |-> IntMin]
    <3>1. floor \in add_screen_floors
      BY <2>5 DEF add_screen_floors
    <3>2. ContainsX(floor, x) /\ floor.y = m.work.bottom
      BY <2>3 DEF ContainsX
    <3> QED
      BY <2>1, <3>1, <3>2 DEF EdgesThere
  <2> QED
    BY <2>4, <2>5
<1> QED
  BY <1>1, ScanIsUpToDate, PTL
-----------------------------------------------------------------------------
(* longest_visible_run: what its loop has seen after some of the covers, and that   *)
(* the longest run is left when it has passed them all                              *)

\* What holds of nought, and of each number after one it holds of, holds of all.
LEMMA CountingUp ==
  ASSUME NEW S \in SUBSET Nat, 0 \in S, \A n \in S : n + 1 \in S
  PROVE  S = Nat
<1> SUFFICES ASSUME Nat \ S # {} PROVE FALSE
  OBVIOUS
<1> DEFINE m == Min(Nat \ S)
<1>1. m \in Nat \ S /\ \A j \in Nat \ S : m <= j
  BY MinOfNat
<1> HIDE DEF m
<1>2. m # 0 /\ m - 1 \in Nat
  BY <1>1
<1>3. m - 1 \in S
  BY <1>1, <1>2
<1>4. (m - 1) + 1 \in S
  BY <1>3
<1> QED
  BY <1>1, <1>4

\* One of finitely many covers begins last.
LEMMA OneCoverIsLast ==
  ASSUME NEW covers \in SUBSET (Int \X Int), IsFiniteSet(covers), covers # {}
  PROVE  /\ LastCover(covers) \in covers
         /\ \A d \in covers : d[1] <= LastCover(covers)[1]
<1> DEFINE begins == [c \in covers |-> c[1]]
           S == {begins[c] : c \in covers}
<1>1. IsFiniteSet(S)
  BY ImageIsFinite
<1>2. S \in SUBSET Int /\ S # {}
  OBVIOUS
<1>3. Max(S) \in S /\ \A y \in S : y <= Max(S)
  <2> HIDE DEF S
  <2> QED
    BY <1>1, <1>2, MaxOfFinite
<1>4. PICK c \in covers : c[1] = Max(S)
  BY <1>3
<1>5. \A d \in covers : d[1] <= c[1]
  BY <1>3, <1>4
<1> QED
  BY <1>5 DEF LastCover

\* What has been seen of a set of covers, if f says what has been seen of the sets that
\* have one cover less.
Step(left, right, f, T) ==
  IF T = {} THEN [best |-> <<left, left>>, cursor |-> left]
  ELSE PassCover(right, f[T \ {LastCover(T)}], LastCover(T))

Stepwise(left, right, f, sets) == f = [T \in sets |-> Step(left, right, f, T)]

LEMMA PassingIsDefined ==
  ASSUME NEW left, NEW right, NEW covers \in SUBSET (Int \X Int), IsFiniteSet(covers)
  PROVE  \E f : Stepwise(left, right, f, SUBSET covers)
<1> DEFINE Upto(n) == {T \in SUBSET covers : Cardinality(T) <= n}
           N == {n \in Nat : \E f : Stepwise(left, right, f, Upto(n))}
<1>1. \A T \in SUBSET covers :
        /\ IsFiniteSet(T) /\ Cardinality(T) \in Nat /\ Cardinality(T) <= Cardinality(covers)
        /\ Cardinality(T) = 0 <=> T = {}
  BY FS_Subset, FS_CardinalityType, FS_EmptySet
<1>2. \A T \in SUBSET covers :
        T # {} => /\ T \ {LastCover(T)} \in SUBSET covers
                  /\ Cardinality(T \ {LastCover(T)}) = Cardinality(T) - 1
  <2> SUFFICES ASSUME NEW T \in SUBSET covers, T # {}
               PROVE  Cardinality(T \ {LastCover(T)}) = Cardinality(T) - 1
    OBVIOUS
  <2>1. LastCover(T) \in T
    BY <1>1, OneCoverIsLast
  <2> QED
    BY <1>1, <2>1, FS_RemoveElement
<1>3. 0 \in N
  <2> DEFINE f == [T \in Upto(0) |-> [best |-> <<left, left>>, cursor |-> left]]
  <2>1. \A T \in Upto(0) : T = {}
    BY <1>1
  <2>2. f = [T \in Upto(0) |-> Step(left, right, f, T)]
    BY <2>1 DEF Step
  <2> QED
    BY <2>2 DEF Stepwise
<1>4. ASSUME NEW n \in N PROVE n + 1 \in N
  <2>1. PICK f : Stepwise(left, right, f, Upto(n))
    BY <1>4
  <2> DEFINE g == [T \in Upto(n + 1) |-> Step(left, right, f, T)]
  <2>2. \A T \in Upto(n + 1) : T # {} => T \ {LastCover(T)} \in Upto(n)
    <3> SUFFICES ASSUME NEW T \in SUBSET covers, Cardinality(T) <= n + 1, T # {}
                 PROVE  Cardinality(T \ {LastCover(T)}) <= n
      BY <1>2
    <3> QED
      BY <1>1, <1>2
  <2>3. \A T \in Upto(n) : T \in Upto(n + 1) /\ f[T] = Step(left, right, f, T)
    <3>1. \A T \in Upto(n) : T \in Upto(n + 1)
      BY <1>1
    <3> HIDE DEF Upto
    <3> QED
      BY <2>1, <3>1 DEF Stepwise
  <2>4. \A T \in Upto(n) : g[T] = f[T]
    <3> HIDE DEF Upto
    <3> QED
      BY <2>3
  <2>5. \A T \in Upto(n + 1) : Step(left, right, g, T) = Step(left, right, f, T)
    <3> HIDE DEF Upto, g
    <3> QED
      BY <2>2, <2>4 DEF Step
  <2>6. Stepwise(left, right, g, Upto(n + 1))
    <3> HIDE DEF Upto
    <3> QED
      BY <2>5 DEF Stepwise
  <2> HIDE DEF Upto, g
  <2> QED
    BY <2>6
<1>5. N = Nat
  <2> HIDE DEF N
  <2>1. N \in SUBSET Nat
    BY DEF N
  <2> QED
    BY <1>3, <1>4, <2>1, CountingUp
<1>6. Upto(Cardinality(covers)) = SUBSET covers
  BY <1>1
<1> HIDE DEF Upto
<1>7. Cardinality(covers) \in N
  BY <1>1, <1>5
<1> QED
  BY <1>6, <1>7

\* AllPassed goes through the covers one by one.
Passing(left, right, covers) == CHOOSE f : Stepwise(left, right, f, SUBSET covers)

LEMMA PassedStepwise ==
  ASSUME NEW left, NEW right, NEW covers \in SUBSET (Int \X Int), IsFiniteSet(covers),
         NEW f, f = Passing(left, right, covers)
  PROVE  /\ AllPassed(left, right, covers) = f[covers]
         /\ \A T \in SUBSET covers : f[T] = Step(left, right, f, T)
<1>1. Stepwise(left, right, f, SUBSET covers)
  BY PassingIsDefined DEF Passing
<1>2. AllPassed(left, right, covers) = Passing(left, right, covers)[covers]
  BY DEF AllPassed, MapThenFoldSet, Passing, Stepwise, Step
<1>3. \A T \in SUBSET covers : f[T] = Step(left, right, f, T)
  BY <1>1 DEF Stepwise
<1> QED
  BY <1>2, <1>3

\* None of the covers hides any of the run.
Clear(run, covers) == \A d \in covers : run[2] <= d[1] \/ d[2] <= run[1] \/ run[1] = run[2]

\* The run is as long as any other, and comes before those that are as long.
Outdoes(run, other) ==
  \/ Length(other) < Length(run)
  \/ Length(other) = Length(run) /\ run[1] <= other[1]

\* The best of the runs that end at the cursor or before it.
IsBestRun(left, right, run, covers, cursor) ==
  /\ run \in (left .. right) \X (left .. right) /\ run[1] <= run[2] /\ run[2] <= cursor
  /\ Clear(run, covers)
  /\ \A a, b \in left .. right : a < b /\ b <= cursor /\ Clear(<<a, b>>, covers)
                                   => Outdoes(run, <<a, b>>)

\* What the loop has seen, after the covers it has passed.
SeenSoFar(left, right, covers, seen) ==
  /\ seen.cursor \in left .. right
  /\ \A d \in covers : d[2] <= seen.cursor
  /\ seen.cursor > left => \E d \in covers : d[1] < seen.cursor /\ seen.cursor <= d[2]
  /\ IsBestRun(left, right, seen.best, covers, seen.cursor)
  /\ seen.best[1] < seen.best[2] => \E d \in covers : seen.best[2] <= d[1]

\* The covers there may be over a row from left to right.
CoversOf(left, right) == {c \in Int \X Int : left <= c[1] /\ c[1] < c[2] /\ c[2] <= right}

\* No run that begins before the cursor ends after it.
LEMMA NoneAcross ==
  ASSUME NEW left \in Int, NEW right \in Int, NEW covers \in SUBSET CoversOf(left, right),
         NEW cursor \in left .. right,
         cursor > left => \E d \in covers : d[1] < cursor /\ cursor <= d[2],
         NEW a \in left .. right, NEW b \in left .. right, a < cursor, a < b,
         Clear(<<a, b>>, covers)
  PROVE  b <= cursor
<1>1. PICK d \in covers : d[1] < cursor /\ cursor <= d[2]
  OBVIOUS
<1>2. d[1] \in Int /\ d[2] \in Int
  BY DEF CoversOf
<1>3. b <= d[1] \/ d[2] <= a
  BY DEF Clear
<1> QED
  BY <1>1, <1>2, <1>3

\* The run from the cursor to the next cover, or to the right end, comes in where it is
\* the longest so far.
LEMMA LongerIsBest ==
  ASSUME NEW left \in Int, NEW right \in Int, NEW covers \in SUBSET CoversOf(left, right),
         NEW cursor \in left .. right, NEW end \in left .. right, cursor < end,
         cursor > left => \E d \in covers : d[1] < cursor /\ cursor <= d[2],
         \A d \in covers : d[2] <= cursor,
         NEW best, IsBestRun(left, right, best, covers, cursor)
  PROVE  IsBestRun(left, right, Longer(best, <<cursor, end>>), covers, end)
<1> DEFINE run == <<cursor, end>>
           new == Longer(best, run)
<1>1. /\ best \in (left .. right) \X (left .. right) /\ best[1] <= best[2] /\ best[2] <= cursor
      /\ Clear(best, covers)
  BY DEF IsBestRun
<1>2. Clear(run, covers)
  BY DEF Clear
<1>3. /\ new \in (left .. right) \X (left .. right) /\ new[1] <= new[2] /\ new[2] <= end
      /\ Clear(new, covers)
  BY <1>1, <1>2 DEF Longer
<1>4. Outdoes(new, run) /\ Outdoes(new, best)
  BY <1>1 DEF Longer, Outdoes, Length
<1>5. ASSUME NEW a \in left .. right, NEW b \in left .. right, a < b, b <= end,
             Clear(<<a, b>>, covers)
      PROVE  Outdoes(new, <<a, b>>)
  <2>1. CASE a < cursor
    <3>1. b <= cursor
      BY <1>5, <2>1, NoneAcross
    <3>2. Outdoes(best, <<a, b>>)
      BY <1>5, <3>1 DEF IsBestRun
    <3> QED
      BY <1>1, <3>2 DEF Longer, Outdoes, Length
  <2>2. CASE a >= cursor
    BY <1>1, <1>5, <2>2 DEF Longer, Outdoes, Length
  <2> QED
    BY <2>1, <2>2
<1>6. IsBestRun(left, right, new, covers, end)
  <2> HIDE DEF new
  <2> QED
    BY <1>3, <1>5 DEF IsBestRun
<1> QED
  BY <1>6

\* Passing one more cover, which begins after the others.
LEMMA OneMorePassed ==
  ASSUME NEW left \in Int, NEW right \in Int, left <= right,
         NEW covers \in SUBSET CoversOf(left, right),
         NEW c \in CoversOf(left, right), \A d \in covers : d[1] <= c[1],
         NEW seen, SeenSoFar(left, right, covers, seen)
  PROVE  SeenSoFar(left, right, covers \cup {c}, PassCover(right, seen, c))
<1> DEFINE all == covers \cup {c}
           cursor == seen.cursor
           best == seen.best
           later == Upper(cursor, c[2])
           new == IF c[1] > cursor THEN Longer(best, <<cursor, c[1]>>) ELSE best
<1>1. c[1] \in left .. right /\ c[2] \in left .. right /\ c[1] < c[2] /\ cursor \in left .. right
  BY DEF CoversOf, SeenSoFar
<1>2. /\ best \in (left .. right) \X (left .. right) /\ best[1] <= best[2] /\ best[2] <= cursor
      /\ Clear(best, covers)
      /\ best[1] < best[2] => best[2] <= c[1]
  <2>1. best[1] < best[2] => \E d \in covers : best[2] <= d[1] /\ d[1] \in Int
    BY DEF SeenSoFar, CoversOf
  <2> QED
    BY <1>1, <2>1 DEF SeenSoFar, IsBestRun
<1>3. Clear(best, all)
  BY <1>1, <1>2 DEF Clear
<1>4. CASE cursor >= right
  <2>1. PassCover(right, seen, c) = seen /\ c[2] <= cursor
    BY <1>1, <1>4 DEF PassCover
  <2>2. IsBestRun(left, right, best, all, cursor)
    <3>1. \A a, b \in left .. right : Clear(<<a, b>>, all) => Clear(<<a, b>>, covers)
      BY DEF Clear
    <3> QED
      BY <1>3, <3>1 DEF SeenSoFar, IsBestRun
  <2> QED
    BY <2>1, <2>2 DEF SeenSoFar
<1>5. CASE cursor < right
  <2>1. PassCover(right, seen, c) = [best |-> new, cursor |-> later]
    BY <1>1, <1>5 DEF PassCover
  <2>2. /\ later \in left .. right /\ cursor <= later /\ c[2] <= later
        /\ later = cursor \/ later = c[2]
    BY <1>1 DEF Upper
  <2>3. \A d \in all : d[2] <= later
    <3>1. \A d \in covers : d[2] <= cursor /\ d[2] \in Int
      BY DEF SeenSoFar, CoversOf
    <3> QED
      BY <1>1, <2>2, <3>1
  <2>4. later > left => \E d \in all : d[1] < later /\ later <= d[2]
    BY <1>1, <2>2 DEF SeenSoFar
  <2>5. new[1] < new[2] => \E d \in all : new[2] <= d[1]
    BY <1>1, <1>2 DEF Longer
  <2>6. /\ new \in (left .. right) \X (left .. right) /\ new[1] <= new[2] /\ new[2] <= later
        /\ Clear(new, all)
    <3>1. CASE c[1] > cursor
      <4>1. IsBestRun(left, right, new, covers, c[1])
        BY <1>1, <3>1, LongerIsBest DEF SeenSoFar
      <4>2. /\ new \in (left .. right) \X (left .. right) /\ new[1] <= new[2]
            /\ new[2] <= c[1] /\ Clear(new, covers)
        BY <4>1 DEF IsBestRun
      <4> HIDE DEF new
      <4> QED
        BY <1>1, <2>2, <4>2 DEF Clear
    <3>2. CASE ~(c[1] > cursor)
      BY <1>1, <1>2, <1>3, <2>2, <3>2
    <3> QED
      BY <3>1, <3>2
  <2>7. ASSUME NEW a \in left .. right, NEW b \in left .. right, a < b, b <= later,
               Clear(<<a, b>>, all)
        PROVE  Outdoes(new, <<a, b>>)
    <3>1. Clear(<<a, b>>, covers) /\ (b <= c[1] \/ c[2] <= a)
      BY <2>7 DEF Clear
    <3>2. CASE c[1] > cursor
      <4>1. IsBestRun(left, right, new, covers, c[1])
        BY <1>1, <3>2, LongerIsBest DEF SeenSoFar
      <4>2. b <= c[1]
        BY <1>1, <2>2, <2>7, <3>1, <3>2
      <4> HIDE DEF new
      <4> QED
        BY <2>7, <3>1, <4>1, <4>2 DEF IsBestRun
    <3>3. CASE ~(c[1] > cursor)
      <4>1. b <= cursor
        <5>1. CASE a < cursor
          BY <1>1, <2>7, <3>1, <5>1, NoneAcross DEF SeenSoFar
        <5>2. CASE ~(a < cursor)
          BY <1>1, <2>2, <2>7, <3>1, <3>3, <5>2
        <5> QED
          BY <5>1, <5>2
      <4> QED
        BY <2>7, <3>1, <3>3, <4>1 DEF SeenSoFar, IsBestRun
    <3> QED
      BY <3>2, <3>3
  <2>8. IsBestRun(left, right, new, all, later)
    <3> HIDE DEF new, later, all
    <3> QED
      BY <2>6, <2>7 DEF IsBestRun
  <2>9. SeenSoFar(left, right, all, [best |-> new, cursor |-> later])
    <3> HIDE DEF new, later, all
    <3> QED
      BY <2>2, <2>3, <2>4, <2>5, <2>8 DEF SeenSoFar
  <2> QED
    BY <2>1, <2>9
<1> QED
  BY <1>1, <1>4, <1>5

\* Whatever the covers are, what is seen once all have been passed is right.
LEMMA AllPassedIsRight ==
  ASSUME NEW left \in Int, NEW right \in Int, left <= right,
         NEW covers \in SUBSET CoversOf(left, right), IsFiniteSet(covers)
  PROVE  SeenSoFar(left, right, covers, AllPassed(left, right, covers))
<1>1. covers \in SUBSET (Int \X Int)
  BY DEF CoversOf
<1> DEFINE f == Passing(left, right, covers)
<1>2. /\ AllPassed(left, right, covers) = f[covers]
      /\ \A T \in SUBSET covers : f[T] = Step(left, right, f, T)
  BY <1>1, PassedStepwise
<1> HIDE DEF f
<1> DEFINE N == {n \in Nat : \A T \in SUBSET covers :
                   Cardinality(T) = n => SeenSoFar(left, right, T, f[T])}
<1>3. \A T \in SUBSET covers :
        IsFiniteSet(T) /\ Cardinality(T) \in Nat /\ (Cardinality(T) = 0 <=> T = {})
  BY FS_Subset, FS_CardinalityType, FS_EmptySet
<1>4. 0 \in N
  <2>1. f[{}] = [best |-> <<left, left>>, cursor |-> left]
    BY <1>2 DEF Step
  <2>2. SeenSoFar(left, right, {}, f[{}])
    BY <2>1 DEF SeenSoFar, IsBestRun, Clear
  <2> QED
    BY <1>3, <2>2
<1>5. ASSUME NEW n \in N PROVE n + 1 \in N
  <2> SUFFICES ASSUME NEW T \in SUBSET covers, Cardinality(T) = n + 1
               PROVE  SeenSoFar(left, right, T, f[T])
    OBVIOUS
  <2> DEFINE c == LastCover(T)
             U == T \ {c}
  <2>1. T # {}
    BY <1>3
  <2>2. c \in T /\ \A d \in T : d[1] <= c[1]
    BY <1>1, <1>3, <2>1, OneCoverIsLast
  <2>3. Cardinality(U) = n /\ U \in SUBSET covers
    BY <1>3, <2>2, FS_RemoveElement
  <2>4. SeenSoFar(left, right, U, f[U])
    BY <2>3
  <2>5. f[T] = PassCover(right, f[U], c)
    BY <1>2, <2>1 DEF Step
  <2>6. T = U \cup {c} /\ U \in SUBSET CoversOf(left, right) /\ c \in CoversOf(left, right)
    BY <2>2
  <2> HIDE DEF c, U
  <2>7. \A d \in U : d[1] <= c[1]
    BY <2>2, <2>6
  <2>8. SeenSoFar(left, right, U \cup {c}, PassCover(right, f[U], c))
    BY <2>4, <2>6, <2>7, OneMorePassed
  <2> QED
    BY <2>5, <2>6, <2>8
<1>6. N = Nat
  <2> HIDE DEF N
  <2>1. N \in SUBSET Nat
    BY DEF N
  <2> QED
    BY <1>4, <1>5, <2>1, CountingUp
<1> QED
  BY <1>2, <1>3, <1>6

\* longest_visible_run finds the leftmost of the longest runs that no cover hides.
LEMMA LongestVisibleRunIsRight ==
  ASSUME NEW left \in Int, NEW right \in Int, left < right,
         NEW covers \in SUBSET CoversOf(left, right), IsFiniteSet(covers)
  PROVE  IsBestRun(left, right, longest_visible_run(left, right, covers), covers,
                   right)
<1> DEFINE seen == AllPassed(left, right, covers)
<1>1. SeenSoFar(left, right, covers, seen)
  BY AllPassedIsRight
<1> HIDE DEF seen
<1>2. CASE covers = {}
  <2>1. longest_visible_run(left, right, covers) = <<left, right>>
    BY <1>2 DEF longest_visible_run
  <2> QED
    BY <1>2, <2>1 DEF IsBestRun, Clear, Outdoes, Length
<1>3. CASE covers # {} /\ seen.cursor >= right
  <2>1. longest_visible_run(left, right, covers) = seen.best /\ seen.cursor = right
    BY <1>1, <1>3 DEF longest_visible_run, SeenSoFar, seen
  <2> QED
    BY <1>1, <2>1 DEF SeenSoFar
<1>4. CASE covers # {} /\ seen.cursor < right
  <2>1. longest_visible_run(left, right, covers) =
          Longer(seen.best, <<seen.cursor, right>>)
    BY <1>1, <1>4 DEF longest_visible_run, SeenSoFar, seen
  <2> QED
    BY <1>1, <1>4, <2>1, LongerIsBest DEF SeenSoFar
<1> QED
  BY <1>1, <1>2, <1>3, <1>4 DEF SeenSoFar
-----------------------------------------------------------------------------
(* append_window_edges: the ledges, window by window                                *)

\* What hides some of the row the title bar of w is in.
CoversOver(w) ==
  {<<Upper(above.left, windows[w].frame.left),
     Lower(above.right, windows[w].frame.right)>> :
     above \in {a \in {Candidate(v) : v \in Candidates} :
                  Occludes(a, Candidate(w))}}

\* The part of w's top that append_window_edges finds.
VisibleOf(w) ==
  longest_visible_run(windows[w].frame.left, windows[w].frame.right,
                              CoversOver(w))

\* The ledge of w, if it has one.
LedgeOf(w) ==
  [owner |-> w, y |-> windows[w].frame.top, left |-> VisibleOf(w)[1],
   right |-> VisibleOf(w)[2], z |-> Rank(w)]

WindowsType == windows \in [Windows -> [frame : RectType, kind : Kinds]]

\* A window a pet could stand on is not empty.
LEMMA CandidateIsWide ==
  ASSUME WindowsType, NEW w \in Candidates
  PROVE  /\ windows[w].frame \in RectType
         /\ windows[w].frame.left < windows[w].frame.right
         /\ w \in Windows /\ IsCandidate(w)
<1>1. w \in Windows /\ windows[w].frame \in RectType
  BY DEF WindowsType, Candidates
<1> QED
  BY <1>1, ScannerAssumption DEF Candidates, IsCandidate, RectType

LEMMA CoversAreCovers ==
  ASSUME WindowsType, NEW w \in Candidates
  PROVE  /\ CoversOver(w) \in SUBSET CoversOf(windows[w].frame.left, windows[w].frame.right)
         /\ IsFiniteSet(CoversOver(w))
<1> DEFINE f == windows[w].frame
           cands == {Candidate(v) : v \in Candidates}
           over == {a \in cands : Occludes(a, Candidate(w))}
<1>1. f.left \in Int /\ f.right \in Int /\ f.left < f.right
  BY CandidateIsWide DEF RectType
<1>2. \A v \in Candidates :
        Candidate(v).left \in Int /\ Candidate(v).right \in Int
  BY CandidateIsWide DEF Candidate, RectType
<1>3. ASSUME NEW a \in over
      PROVE  <<Upper(a.left, f.left), Lower(a.right, f.right)>>
               \in CoversOf(f.left, f.right)
  <2>1. a.left \in Int /\ a.right \in Int
    BY <1>2
  <2>2. Upper(a.left, f.left) < Lower(a.right, f.right)
    BY DEF Occludes, Candidate
  <2> HIDE DEF f
  <2> QED
    BY <1>1, <2>1, <2>2 DEF CoversOf, Upper, Lower
<1>4. IsFiniteSet(Candidates)
  BY FS_Subset, ScannerAssumption DEF Candidates
<1>5. IsFiniteSet(cands)
  <2> DEFINE g == [v \in Candidates |-> Candidate(v)]
  <2>1. cands = {g[v] : v \in Candidates}
    OBVIOUS
  <2>2. DOMAIN g = Candidates
    OBVIOUS
  <2> HIDE DEF g, cands
  <2> QED
    BY <1>4, <2>1, <2>2, ImageIsFinite
<1>6. IsFiniteSet(over)
  <2> HIDE DEF cands
  <2> QED
    BY <1>5, FS_Subset
<1>7. IsFiniteSet(CoversOver(w))
  <2> DEFINE g == [a \in over |-> <<Upper(a.left, f.left),
                                    Lower(a.right, f.right)>>]
  <2>1. CoversOver(w) = {g[a] : a \in over}
    BY DEF CoversOver
  <2>2. DOMAIN g = over
    OBVIOUS
  <2> HIDE DEF g, over
  <2> QED
    BY <1>6, <2>1, <2>2, ImageIsFinite
<1>8. CoversOver(w) \in SUBSET CoversOf(f.left, f.right)
  BY <1>3 DEF CoversOver
<1> QED
  BY <1>7, <1>8

\* A run is clear of the covers exactly if nothing hides a column of it.
LEMMA ShowsIsClear ==
  ASSUME WindowsType, NEW w \in Candidates,
         NEW l \in windows[w].frame.left .. windows[w].frame.right,
         NEW r \in windows[w].frame.left .. windows[w].frame.right, l < r
  PROVE  Shows(w, l, r, Candidates) <=> Clear(<<l, r>>, CoversOver(w))
<1> DEFINE f == windows[w].frame
           Cover(v) == <<Upper(windows[v].frame.left, f.left),
                         Lower(windows[v].frame.right, f.right)>>
           Behind(v) == Occludes(Candidate(v), Candidate(w))
<1>1. /\ f.left \in Int /\ f.right \in Int /\ f.top \in Int /\ f.left < f.right
      /\ l \in Int /\ r \in Int /\ f.left <= l /\ r <= f.right
  BY CandidateIsWide DEF RectType
<1>2. \A v \in Candidates :
        /\ windows[v].frame.left \in Int /\ windows[v].frame.right \in Int
        /\ windows[v].frame.top \in Int /\ windows[v].frame.bottom \in Int
  BY CandidateIsWide DEF RectType
<1>3. CoversOver(w) = {Cover(v) : v \in {u \in Candidates : Behind(u)}}
  <2>1. \A v \in Candidates :
          /\ Candidate(v).left = windows[v].frame.left
          /\ Candidate(v).right = windows[v].frame.right
    BY DEF Candidate
  <2> QED
    BY <2>1 DEF CoversOver
<1>4. \A v \in Candidates :
        Behind(v) <=> /\ InFront(v, w)
                      /\ windows[v].frame.top <= f.top /\ f.top < windows[v].frame.bottom
                      /\ Cover(v)[1] < Cover(v)[2]
  BY DEF Occludes, Candidate, InFront
<1>5. \A v \in Candidates :
        /\ Cover(v)[1] \in Int /\ Cover(v)[2] \in Int
        /\ \A x \in Int : (Cover(v)[1] <= x /\ x < Cover(v)[2])
             <=> /\ windows[v].frame.left <= x /\ x < windows[v].frame.right
                 /\ f.left <= x /\ x < f.right
  <2> SUFFICES ASSUME NEW v \in Candidates
               PROVE  /\ Cover(v)[1] \in Int /\ Cover(v)[2] \in Int
                      /\ \A x \in Int : (Cover(v)[1] <= x /\ x < Cover(v)[2])
                           <=> /\ windows[v].frame.left <= x /\ x < windows[v].frame.right
                               /\ f.left <= x /\ x < f.right
    OBVIOUS
  <2> DEFINE a == windows[v].frame
  <2>1. a.left \in Int /\ a.right \in Int
    BY <1>2
  <2> HIDE DEF a, f
  <2> QED
    BY <1>1, <2>1 DEF Upper, Lower, a
<1>6. ASSUME Shows(w, l, r, Candidates)
      PROVE  Clear(<<l, r>>, CoversOver(w))
  <2> SUFFICES ASSUME NEW v \in Candidates, Behind(v)
               PROVE  r <= Cover(v)[1] \/ Cover(v)[2] <= l
    BY <1>3 DEF Clear
  <2> DEFINE x == Upper(l, Cover(v)[1])
  <2>1. /\ Cover(v)[1] \in Int /\ Cover(v)[2] \in Int /\ Cover(v)[1] < Cover(v)[2]
        /\ InFront(v, w)
        /\ windows[v].frame.top <= f.top /\ f.top < windows[v].frame.bottom
    BY <1>4, <1>5
  <2> HIDE DEF Cover
  <2> SUFFICES ASSUME ~(r <= Cover(v)[1]), ~(Cover(v)[2] <= l) PROVE FALSE
    OBVIOUS
  <2>2. x \in l .. r - 1 /\ Cover(v)[1] <= x /\ x < Cover(v)[2]
    BY <1>1, <2>1 DEF Upper
  <2> HIDE DEF x
  <2>3. windows[v].frame.left <= x /\ x < windows[v].frame.right
    BY <1>1, <1>5, <2>2
  <2>4. Covers(v, x, f.top)
    BY <2>1, <2>3 DEF Covers
  <2> QED
    BY <1>6, <2>1, <2>2, <2>4 DEF Shows
<1>7. ASSUME Clear(<<l, r>>, CoversOver(w))
      PROVE  Shows(w, l, r, Candidates)
  <2> SUFFICES ASSUME NEW x \in l .. r - 1, NEW v \in Candidates,
                      InFront(v, w), Covers(v, x, f.top)
               PROVE  FALSE
    BY DEF Shows
  <2>1. x \in Int /\ l <= x /\ x < r
    BY <1>1
  <2>2. /\ windows[v].frame.left <= x /\ x < windows[v].frame.right
        /\ windows[v].frame.top <= f.top /\ f.top < windows[v].frame.bottom
    BY DEF Covers
  <2> HIDE DEF Cover, Behind, f
  <2>3. Cover(v)[1] <= x /\ x < Cover(v)[2] /\ Cover(v)[1] \in Int /\ Cover(v)[2] \in Int
    <3>1. f.left <= x /\ x < f.right
      BY <1>1, <2>1
    <3> QED
      BY <1>5, <2>1, <2>2, <3>1
  <2>4. Cover(v)[1] < Cover(v)[2]
    BY <2>1, <2>3
  <2>5. Cover(v) \in CoversOver(w)
    BY <1>3, <1>4, <2>2, <2>4
  <2>6. r <= Cover(v)[1] \/ Cover(v)[2] <= l
    BY <1>1, <1>7, <2>5 DEF Clear
  <2> QED
    BY <1>1, <2>1, <2>3, <2>6
<1> QED
  BY <1>6, <1>7

\* The ledge of a window is of the longest part of its top that shows, the leftmost of
\* those, and there is one if that part is wide enough.
LedgeIsRight(w, edges) ==
  LET f == windows[w].frame
      visible == {run \in (f.left .. f.right) \X (f.left .. f.right) :
                    /\ Length(run) >= MinimumWidth
                    /\ Shows(w, run[1], run[2], Candidates)}
      longest == {run \in visible :
                    \A other \in visible : Length(other) <= Length(run)}
  IN  IF ~IsCandidate(w) \/ visible = {} THEN edges = {}
      ELSE \E e \in edges :
             /\ edges = {e}
             /\ e.y = f.top
             /\ <<e.left, e.right>> \in longest
             /\ \A run \in longest : e.left <= run[1]

LEMMA WindowHasOneLedge ==
  ASSUME WindowsType, NEW w \in Windows
  PROVE  {e \in scan_windows : e.owner = w} =
           IF IsCandidate(w) /\ Length(VisibleOf(w)) >= MinimumWidth
             THEN {LedgeOf(w)} ELSE {}
<1> DEFINE cands == {Candidate(v) : v \in Candidates}
           Ledge(c) == [owner |-> c.id, y |-> c.top,
                        left |-> VisibleTop(c, cands)[1],
                        right |-> VisibleTop(c, cands)[2], z |-> c.z]
           Wide(c) == Length(VisibleTop(c, cands)) >= MinimumWidth
<1>1. scan_windows = {Ledge(c) : c \in {d \in cands : Wide(d)}}
  BY DEF scan_windows, window_edges, Candidates
<1>2. \A v \in Candidates :
        VisibleTop(Candidate(v), cands) = VisibleOf(v)
  BY DEF VisibleTop, VisibleOf, CoversOver, Candidate
<1>3. \A v \in Candidates :
        /\ Ledge(Candidate(v)) = LedgeOf(v)
        /\ Wide(Candidate(v)) <=> Length(VisibleOf(v)) >= MinimumWidth
  BY <1>2 DEF LedgeOf, Candidate
<1> HIDE DEF Ledge, Wide
<1>4. scan_windows =
        {LedgeOf(v) : v \in {u \in Candidates :
                               Length(VisibleOf(u)) >= MinimumWidth}}
  <2> DEFINE wide == {u \in Candidates :
                        Length(VisibleOf(u)) >= MinimumWidth}
  <2>1. {d \in cands : Wide(d)} = {Candidate(v) : v \in wide}
    BY <1>3
  <2>2. {Ledge(c) : c \in {Candidate(v) : v \in wide}} = {LedgeOf(v) : v \in wide}
    BY <1>3
  <2> QED
    BY <1>1, <2>1, <2>2
<1>5. \A v \in Candidates : LedgeOf(v).owner = v
  BY DEF LedgeOf
<1>6. w \in Candidates <=> IsCandidate(w)
  BY DEF Candidates
<1> QED
  BY <1>4, <1>5, <1>6

LEMMA LedgeIsLongest ==
  ASSUME WindowsType, NEW w \in Windows
  PROVE  LedgeIsRight(w, {e \in scan_windows : e.owner = w})
<1> DEFINE edges == {e \in scan_windows : e.owner = w}
           f == windows[w].frame
           visible == {run \in (f.left .. f.right) \X (f.left .. f.right) :
                         /\ Length(run) >= MinimumWidth
                         /\ Shows(w, run[1], run[2], Candidates)}
           longest == {run \in visible :
                         \A other \in visible : Length(other) <= Length(run)}
<1>1. edges = IF IsCandidate(w) /\ Length(VisibleOf(w)) >= MinimumWidth
                THEN {LedgeOf(w)} ELSE {}
  BY WindowHasOneLedge
<1> HIDE DEF edges
<1>2. CASE ~IsCandidate(w)
  BY <1>1, <1>2 DEF LedgeIsRight, edges
<1>3. CASE IsCandidate(w)
  <2> DEFINE best == VisibleOf(w)
             covers == CoversOver(w)
  <2>1. w \in Candidates
    BY <1>3 DEF Candidates
  <2>2. f.left \in Int /\ f.right \in Int /\ f.left < f.right
    BY <2>1, CandidateIsWide DEF RectType
  <2>3. IsBestRun(f.left, f.right, best, covers, f.right)
    BY <2>1, <2>2, CoversAreCovers, LongestVisibleRunIsRight DEF VisibleOf
  <2>4. /\ best \in (f.left .. f.right) \X (f.left .. f.right) /\ best[1] <= best[2]
        /\ best[1] < best[2] => Clear(<<best[1], best[2]>>, covers)
        /\ \A a, b \in f.left .. f.right :
             a < b /\ Clear(<<a, b>>, covers) => Outdoes(best, <<a, b>>)
    BY <2>2, <2>3 DEF IsBestRun, Clear
  <2>5. \A a, b \in f.left .. f.right :
          a < b => (Shows(w, a, b, Candidates)
                      <=> Clear(<<a, b>>, covers))
    BY <2>1, ShowsIsClear
  <2>6. MinimumWidth \in Int /\ MinimumWidth > 0
    BY ScannerAssumption
  <2>7. \A run \in visible :
          /\ run \in (f.left .. f.right) \X (f.left .. f.right)
          /\ run[1] < run[2] /\ Length(run) >= MinimumWidth /\ Outdoes(best, run)
    <3> SUFFICES ASSUME NEW a \in f.left .. f.right, NEW b \in f.left .. f.right,
                        Length(<<a, b>>) >= MinimumWidth,
                        Shows(w, a, b, Candidates)
                 PROVE  a < b /\ Outdoes(best, <<a, b>>)
      OBVIOUS
    <3>1. a < b
      <4> HIDE DEF f
      <4> QED
        BY <2>2, <2>6 DEF Length
    <3> QED
      BY <2>4, <2>5, <3>1
  <2> HIDE DEF best, covers
  <2>8. Length(best) >= MinimumWidth => best \in visible
    <3> SUFFICES ASSUME Length(best) >= MinimumWidth
                 PROVE  Shows(w, best[1], best[2], Candidates)
      BY <2>4
    <3>1. best[1] \in f.left .. f.right /\ best[2] \in f.left .. f.right /\ best[1] < best[2]
      <4> HIDE DEF f
      <4> QED
        BY <2>2, <2>4, <2>6 DEF Length
    <3> QED
      BY <2>4, <2>5, <3>1
  <2> HIDE DEF visible, f
  <2>9. \A run \in visible :
          /\ Length(run) \in Int /\ Length(run) <= Length(best)
          /\ Length(run) = Length(best) => best[1] <= run[1]
    BY <2>2, <2>4, <2>7 DEF Outdoes, Length
  <2>10. Length(best) \in Int
    BY <2>2, <2>4 DEF Length
  <2>11. CASE Length(best) >= MinimumWidth
    <3>1. best \in longest
      BY <2>8, <2>9, <2>11
    <3>2. \A run \in longest : best[1] <= run[1]
      BY <2>8, <2>9, <2>10, <2>11
    <3>3. edges = {LedgeOf(w)} /\ visible # {}
      BY <1>1, <1>3, <2>8, <2>11 DEF best
    <3>4. /\ LedgeOf(w).y = f.top /\ LedgeOf(w).left = best[1] /\ LedgeOf(w).right = best[2]
      BY DEF LedgeOf, best, f
    <3>5. <<best[1], best[2]>> = best
      BY <2>4
    <3> HIDE DEF longest
    <3>6. /\ edges = {LedgeOf(w)} /\ LedgeOf(w).y = f.top
          /\ <<LedgeOf(w).left, LedgeOf(w).right>> \in longest
          /\ \A run \in longest : LedgeOf(w).left <= run[1]
      BY <3>1, <3>2, <3>3, <3>4, <3>5
    <3>7. LedgeIsRight(w, edges)
      BY <1>3, <3>3, <3>6 DEF LedgeIsRight, longest, visible, f
    <3> QED
      BY <3>7 DEF edges
  <2>12. CASE ~(Length(best) >= MinimumWidth)
    <3>1. visible = {}
      BY <2>6, <2>7, <2>9, <2>10, <2>12
    <3>2. edges = {}
      BY <1>1, <2>12 DEF best
    <3>3. LedgeIsRight(w, edges)
      BY <3>1, <3>2 DEF LedgeIsRight, visible, f
    <3> QED
      BY <3>3 DEF edges
  <2> QED
    BY <2>11, <2>12
<1> QED
  BY <1>2, <1>3

\* Windows have a place on the desktop, wherever they are moved.
LEMMA WindowsAreWindows ==
  ScannerSpec => []WindowsType
<1>1. ScannerInit => WindowsType
  <2> SUFFICES ASSUME ScannerInit PROVE WindowsType
    OBVIOUS
  <2>1. PICK f \in [Windows -> UNION {[frame : Frames[w], kind : Kinds] : w \in Windows}] :
          windows = f
    BY DEF ScannerInit
  <2>2. \A v \in Windows : windows[v] \in [frame : RectType, kind : Kinds]
    <3> SUFFICES ASSUME NEW v \in Windows
                 PROVE  windows[v] \in [frame : RectType, kind : Kinds]
      OBVIOUS
    <3>1. PICK w \in Windows : windows[v] \in [frame : Frames[w], kind : Kinds]
      BY <2>1
    <3>2. Frames[w] \subseteq RectType
      BY ScannerAssumption
    <3> QED
      BY <3>1, <3>2
  <2> QED
    BY <2>1, <2>2 DEF WindowsType
<1>2. WindowsType /\ [ScannerNext]_scannerVars => WindowsType'
  <2> SUFFICES ASSUME WindowsType, [ScannerNext]_scannerVars PROVE WindowsType'
    OBVIOUS
  <2>1. CASE UNCHANGED windows
    BY <2>1 DEF WindowsType
  <2>2. ASSUME NEW w \in Windows, NEW f \in Frames[w], Move(w, f) PROVE WindowsType'
    <3>1. f \in RectType
      BY ScannerAssumption
    <3> QED
      BY <2>2, <3>1 DEF Move, WindowsType
  <2>3. ASSUME NEW w \in Windows, NEW k \in Kinds, Become(w, k) PROVE WindowsType'
    BY <2>3 DEF Become, WindowsType
  <2> QED
    BY <2>1, <2>2, <2>3 DEF ScannerNext, scannerVars, Scan, Raise,
       Rearrange
<1> QED
  BY <1>1, <1>2, PTL DEF ScannerSpec

\* Whatever the windows, and in whatever order they are stacked, every ledge is the
\* longest part of its window's top that shows, the leftmost of those; and every window
\* with a part that is wide enough has its ledge.
THEOREM LedgesAreWhatShows == ScannerSpec => []LedgesAreTheLongestVisible
<1>1. ScanInv /\ WindowsType => LedgesAreTheLongestVisible
  <2> SUFFICES ASSUME ScanInv, WindowsType, Scanned, NEW w \in Windows
               PROVE  LedgeIsRight(w, EdgesOf(w))
    BY DEF LedgesAreTheLongestVisible, LedgeIsRight
  <2>1. Range(scanned.edges) = EdgesThere
    BY AllEdgesScanned
  <2>2. \A e \in add_taskbar \cup add_screen_floors : e.owner # w
    BY ScannerAssumption DEF add_taskbar, add_screen_floors, ScanInv
  <2>3. EdgesOf(w) = {e \in scan_windows : e.owner = w}
    BY <2>1, <2>2 DEF EdgesOf, EdgesThere
  <2> QED
    BY <2>3, LedgeIsLongest
<1> QED
  BY <1>1, ScanIsUpToDate, WindowsAreWindows, PTL
=============================================================================
