--------------------------- MODULE WaylandOverlays ---------------------------
(***************************************************************************)
(* linux/wayland_display.cpp, layer_surface.cpp, frame_clock.cpp and the   *)
(* overlays of gles_renderer.cpp: the monitors of a Wayland session, an    *)
(* overlay on each, and the frame callback that paces the render loop.     *)
(*                                                                         *)
(* The compositor (external: it does what these files say of it) answers   *)
(* with events.  Those it has sent and the client has not dispatched are   *)
(* on the wire; a dispatch takes all there are.  A monitor is told of by   *)
(* a global, describes itself up to a done, and may be removed once: one   *)
(* that is plugged in again has another name.  Positions, modes, scales    *)
(* and what is drawn are left out but for the order of the monitors, from  *)
(* left to right, which is that of their numbers here.                     *)
(*                                                                         *)
(* The actions are steps of the compositor and of the one thread that      *)
(* dispatches; which of them that thread takes when is LinuxDaemon's.      *)
(***************************************************************************)
EXTENDS Naturals, FiniteSets, Sequences

CONSTANTS Outputs,  \* the monitors there may ever be
          Nowhere   \* a null wl_output

ASSUME OutputsAssumption ==
  /\ Outputs \subseteq Nat
  /\ IsFiniteSet(Outputs)
  /\ Nowhere \notin Outputs

VARIABLES
  connected,     \* the compositor is there
  screen,        \* screen[o]: is monitor o absent, here, or gone for good
  wire,          \* events sent and not dispatched
  owed,          \* frame callbacks asked for and not answered
  monitors,      \* monitors_: the wl_outputs bound
  described,     \* those of them with described set
  outputs,       \* outputs_: what rebuild_outputs made of them last
  overlays,      \* overlays_
  pending,       \* FrameClock's pending_ is a callback
  disconnected   \* FrameClock's disconnected_

compositorVars == <<connected, screen>>
displayVars == <<monitors, described, outputs>>
waylandVars ==
  <<connected, screen, wire, owed, monitors, described, outputs, overlays,
    pending, disconnected>>

Events ==
  ({"global", "done", "removed"} \X Outputs) \cup ({"closed"} \X Nat) \cup {<<"frame", 1>>}

\* A LayerSurface: the monitor it was asked for, and what has happened to it.
OverlayType ==
  [on : Outputs \cup {Nowhere}, configured : BOOLEAN, mapped : BOOLEAN, closed : BOOLEAN]

NoSurface == [on |-> Nowhere, configured |-> FALSE, mapped |-> FALSE, closed |-> FALSE]

WaylandTypeOK ==
  /\ connected \in BOOLEAN
  /\ screen \in [Outputs -> {"absent", "here", "gone"}]
  /\ wire \subseteq Events
  /\ owed \in Nat
  /\ monitors \subseteq Outputs
  /\ described \subseteq monitors
  /\ outputs \subseteq Outputs
  /\ overlays \in Seq(OverlayType)
  /\ pending \in BOOLEAN
  /\ disconnected \in BOOLEAN

WaylandInit ==
  /\ connected = TRUE
  /\ screen \in [Outputs -> {"absent", "here"}]
  /\ wire = {}
  /\ owed = 0
  /\ monitors = {}
  /\ described = {}
  /\ outputs = {}
  /\ overlays = << >>
  /\ pending = FALSE
  /\ disconnected = FALSE

Here(o) == o \in Outputs /\ screen[o] = "here"

-----------------------------------------------------------------------------
(* The compositor *)

Plug(o) ==
  /\ connected
  /\ screen[o] = "absent"
  /\ screen' = [screen EXCEPT ![o] = "here"]
  /\ wire' = wire \cup {<<"global", o>>}
  /\ UNCHANGED <<connected, owed, displayVars, overlays, pending, disconnected>>

\* A monitor that has been bound says where it is, its mode, scale and name.
Describe(o) ==
  /\ connected
  /\ Here(o)
  /\ o \in monitors \ described
  /\ <<"done", o>> \notin wire
  /\ wire' = wire \cup {<<"done", o>>}
  /\ UNCHANGED <<compositorVars, owed, displayVars, overlays, pending, disconnected>>

Unplug(o) ==
  /\ connected
  /\ Here(o)
  /\ screen' = [screen EXCEPT ![o] = "gone"]
  /\ wire' = wire \cup {<<"removed", o>>}
  /\ UNCHANGED <<connected, owed, displayVars, overlays, pending, disconnected>>

\* A surface whose monitor is gone is closed, before or after the client hears of
\* the monitor.
CloseSurface(i) ==
  /\ connected
  /\ overlays[i].on \in Outputs
  /\ screen[overlays[i].on] = "gone"
  /\ ~overlays[i].closed
  /\ <<"closed", i>> \notin wire
  /\ wire' = wire \cup {<<"closed", i>>}
  /\ UNCHANGED <<compositorVars, owed, displayVars, overlays, pending, disconnected>>

\* A surface is presented while it is mapped and its monitor is there, and only
\* then are the callbacks asked of it answered.
Presented(i) == connected /\ overlays[i].mapped /\ Here(overlays[i].on)

Present ==
  /\ owed > 0
  /\ overlays # << >>
  /\ Presented(1)
  /\ owed' = 0
  /\ wire' = wire \cup {<<"frame", 1>>}
  /\ UNCHANGED <<compositorVars, displayVars, overlays, pending, disconnected>>

Disconnect ==
  /\ connected
  /\ connected' = FALSE
  /\ wire' = {}
  /\ UNCHANGED <<screen, owed, displayVars, overlays, pending, disconnected>>

-----------------------------------------------------------------------------
(* What the client does with the events of one dispatch *)

About(event) == {o \in Outputs : <<event, o>> \in wire}

registry_global == monitors \cup About("global")

registry_global_remove == registry_global \ About("removed")

output_done == (described \cup About("done")) \cap registry_global_remove

\* Only a monitor's removal makes rebuild_outputs run.  The batch may have
\* described others before it did, or only after.
rebuild_outputs ==
  IF About("removed") = {} THEN {outputs}
  ELSE {(described \cup early) \cap registry_global_remove : early \in SUBSET About("done")}

\* configure and closed_callback, on the overlays they are about.
Told(configured) ==
  [i \in DOMAIN overlays |->
     [on |-> overlays[i].on,
      configured |-> overlays[i].configured \/ i \in configured,
      mapped |-> overlays[i].mapped,
      closed |-> overlays[i].closed \/ <<"closed", i>> \in wire]]

FrameArrives == <<"frame", 1>> \in wire

\* Mutation of Dispatched: done leaves the callback it was for where it is.
Dispatched_KeepsPending(configured) ==
  /\ wire' = {}
  /\ monitors' = registry_global_remove
  /\ described' = output_done
  /\ outputs' \in rebuild_outputs
  /\ overlays' = Told(configured)
  /\ pending' = pending

\* One wl_display_dispatch, or a roundtrip in which `configured` overlays are.
Dispatched(configured) ==
  /\ wire' = {}
  /\ monitors' = registry_global_remove
  /\ described' = output_done
  /\ outputs' \in rebuild_outputs
  /\ overlays' = Told(configured)
  /\ pending' = (pending /\ ~FrameArrives)

-----------------------------------------------------------------------------
(* WaylandDisplay::connect, of two roundtrips: the first delivers the globals,
   the second what the monitors say of themselves. *)

FirstRoundtrip ==
  /\ connected
  /\ monitors' = {o \in Outputs : Here(o)}
  /\ UNCHANGED <<compositorVars, wire, owed, described, outputs, overlays, pending, disconnected>>

SecondRoundtrip ==
  /\ connected
  /\ wire' = {}
  /\ monitors' = registry_global_remove
  /\ described' = {o \in monitors : Here(o)}
  /\ outputs' = {o \in monitors : Here(o)}
  /\ UNCHANGED <<compositorVars, owed, overlays, pending, disconnected>>

-----------------------------------------------------------------------------
(* GlesRenderer::create and LayerSurface::create *)

\* The output at index i - 1 of outputs_.
Nth(i) == CHOOSE o \in outputs : Cardinality({p \in outputs : p < o}) = i - 1

ResizeOverlays ==
  /\ overlays' = [i \in 1 .. Cardinality(outputs) |-> NoSurface]
  /\ UNCHANGED <<compositorVars, wire, owed, displayVars, pending, disconnected>>

\* The surface, and the commit without a buffer that asks for a configure.
CreateSurface(i) ==
  /\ overlays' = [overlays EXCEPT ![i].on = Nth(i)]
  /\ UNCHANGED <<compositorVars, wire, owed, displayVars, pending, disconnected>>

\* The roundtrip after it: a surface is configured if its monitor is still there.
ConfigureRoundtrip(i) ==
  /\ connected
  /\ Dispatched(IF Here(overlays[i].on) THEN {i} ELSE {})
  /\ UNCHANGED <<compositorVars, owed, disconnected>>

\* The first, transparent frame maps the surface.
FirstFrame(i) ==
  /\ overlays' = [overlays EXCEPT ![i].mapped = TRUE]
  /\ UNCHANGED <<compositorVars, wire, owed, displayVars, pending, disconnected>>

-----------------------------------------------------------------------------
(* FrameClock::wait_for_next_frame *)

\* The callback of a wait that was interrupted is still to come.
RequestFrame ==
  /\ pending' = TRUE
  /\ owed' = IF pending THEN owed ELSE owed + 1
  /\ UNCHANGED <<compositorVars, wire, displayVars, overlays, disconnected>>

\* The read blocks until there is something.
Dispatch ==
  /\ connected
  /\ wire # {}
  /\ Dispatched({})
  /\ UNCHANGED <<compositorVars, owed, disconnected>>

DispatchFails ==
  /\ ~connected
  /\ disconnected' = TRUE
  /\ UNCHANGED <<compositorVars, wire, owed, displayVars, overlays, pending>>
=============================================================================
