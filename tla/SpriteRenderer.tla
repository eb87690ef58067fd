--------------------------- MODULE SpriteRenderer ---------------------------
(***************************************************************************)
(* win/sprite_renderer.cpp with output_surface.cpp, overlay_window.cpp and *)
(* fullscreen.cpp: the overlays keep what was drawn on them, and a frame   *)
(* repaints only what it believes may have changed.                        *)
(*                                                                         *)
(* A rectangle is the set of the columns it spans, for everything is in    *)
(* the same rows: what unites, intersects and inflates rectangles works on *)
(* the two axes alike.  Sprites are opaque, and it makes no difference     *)
(* which is where, only that something is.  A frame is one step, of the    *)
(* one thread that draws; a device error throws, which ends the program.   *)
(***************************************************************************)
EXTENDS Integers

CONSTANTS
  Columns,   \* the columns of the desktop, and some beyond its edges
  Outputs,   \* overlays, one for a monitor
  Bounds,    \* Bounds[o]: the columns of o's surface
  Pets,
  Pictures,  \* where a sprite may be: sets of columns
  Nobody     \* not an output

ASSUME BoundsAssumption ==
  /\ Bounds \in [Outputs -> SUBSET Columns]
  /\ Columns \subseteq Int
  /\ Pictures \subseteq SUBSET Columns
  /\ Nobody \notin Outputs

VARIABLES
  drawn,            \* drawn[p]: where pet p's sprite was in the last frame, {} if it had none
  previous_damage,  \* previous_damage_
  visible,          \* visible[o]: visible_ of its overlay window
  needs_full_draw,  \* needs_full_draw[o]: needs_full_draw_ of its surface
  pixels,           \* pixels[o]: the columns of the surface that are not transparent
  fresh,            \* no frame has been drawn yet
  cover,            \* the monitor an application covers, or Nobody
  paused            \* PetHost's paused_

surfaceVars == <<visible, needs_full_draw, pixels>>
rendererVars == <<drawn, previous_damage, surfaceVars, fresh, cover, paused>>

TypeOK ==
  /\ drawn \in [Pets -> SUBSET Columns]
  /\ previous_damage \subseteq Columns
  /\ visible \in [Outputs -> BOOLEAN]
  /\ needs_full_draw \in [Outputs -> BOOLEAN]
  /\ pixels \in [Outputs -> SUBSET Columns]
  /\ \A o \in Outputs : pixels[o] \subseteq Bounds[o]
  /\ fresh \in BOOLEAN
  /\ cover \in Outputs \cup {Nobody}
  /\ paused \in BOOLEAN

\* A surface nobody has written to holds anything.
RendererInit ==
  /\ drawn = [p \in Pets |-> {}]
  /\ previous_damage = {}
  /\ visible = [o \in Outputs |-> TRUE]
  /\ needs_full_draw = [o \in Outputs |-> TRUE]
  /\ pixels \in [Outputs -> SUBSET Columns]
  /\ \A o \in Outputs : pixels[o] \subseteq Bounds[o]
  /\ fresh = TRUE
  /\ cover \in Outputs \cup {Nobody}
  /\ paused = FALSE

-----------------------------------------------------------------------------
(* A frame: begin_frame, draw for every sprite, end_frame *)

\* The smallest rectangle around what is given: united, over and over.
United(columns) == {x \in Columns : \E a, b \in columns : a <= x /\ x <= b}

\* inflated(1, 1); the rectangle that is empty at the origin becomes two wide.
Inflated(rectangle) ==
  IF rectangle = {} THEN Columns \cap {-1, 0}
  ELSE {x \in Columns : \E d \in {-1, 0, 1} : x + d \in rectangle}

Pending(placed) == UNION {placed[p] : p \in Pets}

\* Mutation of Damage: where the sprites were is forgotten.
Damage_OfThisFrame(placed) == Inflated(United(Pending(placed)))

Damage(placed) == Inflated(United(previous_damage \cup Pending(placed)))

\* The rectangle OutputSurface::draw is asked to repaint, which is all of it if
\* that is owed, for more than one reason.
Dirty(placed, o) == IF needs_full_draw[o] THEN Bounds[o] ELSE Damage(placed) \cap Bounds[o]

\* Is anything drawn on o in this frame?
Drawn(placed, o) == cover # o /\ Dirty(placed, o) # {}

\* invalidate for a hidden surface; a draw settles it.
NeedsFullDraw(placed, o) == cover = o \/ (~Drawn(placed, o) /\ needs_full_draw[o])

\* Clear and draw, clipped to what is dirty.
Painted(placed, o) ==
  IF Drawn(placed, o)
    THEN (pixels[o] \ Dirty(placed, o)) \cup (Pending(placed) \cap Dirty(placed, o))
    ELSE pixels[o]

Frame(placed) ==
  /\ ~paused
  /\ visible' = [o \in Outputs |-> cover # o]
  /\ needs_full_draw' = [o \in Outputs |-> NeedsFullDraw(placed, o)]
  /\ pixels' = [o \in Outputs |-> Painted(placed, o)]
  /\ previous_damage' = United(Pending(placed))
  /\ drawn' = placed
  /\ fresh' = FALSE
  /\ UNCHANGED <<cover, paused>>

\* Any pets, anywhere: the simulation may have been told to spawn them again.
AnyFrame == \E placed \in [Pets -> Pictures \cup {{}}] : Frame(placed)

-----------------------------------------------------------------------------
(* What happens between frames *)

\* What fullscreen::covers finds: an application that fills a monitor comes to the
\* front, or another one does.
Foreground(o) ==
  /\ cover # o
  /\ cover' = o
  /\ UNCHANGED <<drawn, previous_damage, surfaceVars, fresh, paused>>

SetPaused(on) ==
  /\ paused # on
  /\ paused' = on
  /\ UNCHANGED <<drawn, previous_damage, surfaceVars, fresh, cover>>

RendererNext ==
  \/ AnyFrame
  \/ \E o \in Outputs \cup {Nobody} : Foreground(o)
  \/ \E on \in BOOLEAN : SetPaused(on)

RendererSpec == RendererInit /\ [][RendererNext]_rendererVars

-----------------------------------------------------------------------------
(* Properties *)

\* Every column of an overlay that shows holds what belongs there and nothing that
\* was once drawn: no pet is left behind on the screen, wherever the pets jumped
\* to and however often the overlay was hidden in between.
NoGhosts ==
  ~fresh => \A o \in Outputs :
    visible[o] => pixels[o] = Pending(drawn) \cap Bounds[o]

\* What the damage of the next frame rests on: a surface that is not owed a full
\* draw shows, has been drawn, and holds nothing outside the last damage.
DamageSuffices ==
  \A o \in Outputs :
    ~needs_full_draw[o] => visible[o] /\ ~fresh /\ pixels[o] \subseteq previous_damage
=============================================================================
