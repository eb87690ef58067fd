------------------------------ MODULE PetHost ------------------------------
(***************************************************************************)
(* core/dragonperch/host.cpp: PetHost::run against a provider that         *)
(* publishes from a thread of its own.                                     *)
(*                                                                         *)
(* Two threads meet here.  The provider's thread makes a new snapshot and  *)
(* calls the installed handler with it, which leaves it in pending_world_. *)
(* The loop's thread reads the world once, installs the handler, and takes *)
(* what is pending before every frame.  The handler is installed and       *)
(* cleared through HandlerSlot, whose steps are the steps of that module.  *)
(*                                                                         *)
(* A snapshot is its version: a provider numbers the worlds it publishes   *)
(* (kwin_geometry.cpp ++version_, win_event_watcher.cpp likewise) and the  *)
(* simulation compares nothing else.  MaxVersion bounds how many there are.*)
(***************************************************************************)
EXTENDS Naturals, FiniteSets

CONSTANTS Loop,        \* the thread inside PetHost::run
          Publisher,   \* the provider's thread
          Host,        \* the handler run installs
          None,        \* the empty std::function
          MaxVersion   \* bound: how many snapshots the provider publishes

ASSUME HostAssumption ==
  /\ Loop # Publisher
  /\ Host # None
  /\ MaxVersion \in Nat \ {0}

VARIABLES
  handler, in_flight, at, copy, ending, retired,  \* the provider's HandlerSlot
  current,      \* version of the provider's snapshot_; 0 before it started
  carried,      \* the snapshot the publisher is calling the handler with, or 0
  pending,      \* pending_world_; 0 is the WorldSnapshot it is made with
  has_pending,  \* has_pending_
  world,        \* the version the simulation was last given
  paused,       \* paused_
  stop,         \* what should_stop is going to answer
  loop,         \* where PetHost::run is
  handed        \* history: the last version the handler was run with

Slot == INSTANCE HandlerSlot WITH
  Setters <- {Loop}, Callers <- {Publisher}, Handlers <- {Host}

slotVars == <<handler, in_flight, at, copy, ending, retired>>
mailVars == <<pending, has_pending, handed>>
hostVars == <<current, carried, pending, has_pending, world, paused, stop,
              loop, handed>>
vars == <<slotVars, hostVars>>

LoopAt == {"starting", "reading", "installing", "checking", "sleeping",
           "waiting", "taking", "updating", "clearing", "leaving", "gone"}

\* The daemons start the provider before they call run, so that by the time run
\* calls start again the publisher may have been at work for a while; a caller
\* that leaves it to run has published nothing yet.
Init ==
  /\ Slot!Init
  /\ current \in {0, 1}
  /\ carried = 0
  /\ pending = 0
  /\ has_pending = FALSE
  /\ world = 0
  /\ paused = FALSE
  /\ stop = FALSE
  /\ loop = "starting"
  /\ handed = 0

GoTo(place) == loop' = place

-----------------------------------------------------------------------------
(* The provider's thread *)

\* A new snapshot, under the provider's own mutex.
Publish ==
  /\ current > 0
  /\ carried = 0
  /\ current < MaxVersion
  /\ current' = current + 1
  /\ carried' = current + 1
  /\ UNCHANGED <<slotVars, mailVars, world, paused, stop, loop>>

\* handler_.call(snapshot) finds no handler.
CallNobody ==
  /\ carried # 0
  /\ Slot!CallNobody(Publisher)
  /\ carried' = 0
  /\ UNCHANGED <<current, mailVars, world, paused, stop, loop>>

BeginCall ==
  /\ carried # 0
  /\ Slot!BeginCall(Publisher)
  /\ UNCHANGED hostVars

\* Mutation of HandOver: a snapshot still pending is not replaced.
HandOver_KeepsFirst ==
  /\ Slot!Invoke(Publisher)
  /\ pending' = IF has_pending THEN pending ELSE carried
  /\ has_pending' = TRUE
  /\ handed' = carried
  /\ UNCHANGED <<current, carried, world, paused, stop, loop>>

\* The lambda run installs: the snapshot is copied under pending_mutex_.
HandOver ==
  /\ Slot!Invoke(Publisher)
  /\ pending' = carried
  /\ has_pending' = TRUE
  /\ handed' = carried
  /\ UNCHANGED <<current, carried, world, paused, stop, loop>>

EndCall ==
  /\ Slot!EndCall(Publisher)
  /\ UNCHANGED hostVars

NotifyAll ==
  /\ Slot!NotifyAll(Publisher)
  /\ carried' = 0
  /\ UNCHANGED <<current, mailVars, world, paused, stop, loop>>

-----------------------------------------------------------------------------
(* PetHost::run *)

\* world_->start(), which does nothing the second time.
Start ==
  /\ loop = "starting"
  /\ current' = IF current = 0 THEN 1 ELSE current
  /\ GoTo("reading")
  /\ UNCHANGED <<slotVars, mailVars, carried, world, paused, stop>>

\* simulation_->set_world(world_->current())
ReadCurrent ==
  /\ loop = "reading"
  /\ world' = current
  /\ GoTo("installing")
  /\ UNCHANGED <<slotVars, mailVars, current, carried, paused, stop>>

Install ==
  /\ loop = "installing"
  /\ Slot!Set(Loop, Host)
  /\ GoTo("checking")
  /\ UNCHANGED <<mailVars, current, carried, world, paused, stop>>

\* while (!should_stop()), and whether the loop is paused.
CheckStop ==
  /\ loop = "checking"
  /\ GoTo(IF stop THEN "clearing" ELSE IF paused THEN "sleeping" ELSE "waiting")
  /\ UNCHANGED <<slotVars, mailVars, current, carried, world, paused, stop>>

WakeFromPause ==
  /\ loop = "sleeping"
  /\ GoTo("checking")
  /\ UNCHANGED <<slotVars, mailVars, current, carried, world, paused, stop>>

\* wait_for_next_frame returns; how long it took is the simulation's business.
FrameArrives ==
  /\ loop = "waiting"
  /\ GoTo("taking")
  /\ UNCHANGED <<slotVars, mailVars, current, carried, world, paused, stop>>

\* Mutation of TakePending: pending_world_ is taken whether or not it is new.
TakePending_Unflagged ==
  /\ loop = "taking"
  /\ world' = pending
  /\ has_pending' = FALSE
  /\ GoTo("updating")
  /\ UNCHANGED <<slotVars, current, carried, pending, handed, paused, stop>>

TakePending ==
  /\ loop = "taking"
  /\ IF has_pending
       THEN world' = pending /\ has_pending' = FALSE
       ELSE UNCHANGED <<world, has_pending>>
  /\ GoTo("updating")
  /\ UNCHANGED <<slotVars, current, carried, pending, handed, paused, stop>>

\* simulation_->update and render.
UpdateAndRender ==
  /\ loop = "updating"
  /\ GoTo("checking")
  /\ UNCHANGED <<slotVars, mailVars, current, carried, world, paused, stop>>

\* should_stop, the frame clock, update and render may each throw (a pack
\* without an animation, a compositor gone); ClearOnTheWayOut still runs.
Throw ==
  /\ loop \in {"checking", "waiting", "updating"}
  /\ GoTo("clearing")
  /\ UNCHANGED <<slotVars, mailVars, current, carried, world, paused, stop>>

\* Mutation of Clear: run is left without clearing the handler.
Clear_Forgotten ==
  /\ loop = "clearing"
  /\ GoTo("gone")
  /\ UNCHANGED <<slotVars, mailVars, current, carried, world, paused, stop>>

\* ~ClearOnTheWayOut: set_changed_handler(nullptr), then run is left and the
\* PetHost may be destroyed.
Clear ==
  /\ loop = "clearing"
  /\ Slot!Set(Loop, None)
  /\ GoTo(IF at'[Loop] = "out" THEN "gone" ELSE "leaving")
  /\ UNCHANGED <<mailVars, current, carried, world, paused, stop>>

Leave ==
  /\ loop = "leaving"
  /\ Slot!Recheck(Loop)
  /\ GoTo(IF at'[Loop] = "out" THEN "gone" ELSE "leaving")
  /\ UNCHANGED <<mailVars, current, carried, world, paused, stop>>

SpuriousWake ==
  /\ Slot!SpuriousWake(Loop)
  /\ UNCHANGED hostVars

-----------------------------------------------------------------------------
(* Anybody: a signal, the bus thread, the tray *)

SetPaused(p) ==
  /\ paused # p
  /\ paused' = p
  /\ UNCHANGED <<slotVars, mailVars, current, carried, world, stop, loop>>

RequestStop ==
  /\ ~stop
  /\ stop' = TRUE
  /\ UNCHANGED <<slotVars, mailVars, current, carried, world, paused, loop>>

-----------------------------------------------------------------------------
InsideHandler == HandOver \/ EndCall \/ NotifyAll
Publishing == CallNobody \/ BeginCall \/ InsideHandler

LoopStep ==
  \/ Start \/ ReadCurrent \/ Install \/ CheckStop \/ WakeFromPause
  \/ FrameArrives \/ TakePending \/ UpdateAndRender \/ Clear \/ Leave

\* The run is over: nothing is left to do once nobody publishes any more.
Finished ==
  /\ loop = "gone"
  /\ carried = 0
  /\ UNCHANGED vars

Next ==
  \/ Publish \/ Publishing
  \/ LoopStep \/ Throw \/ SpuriousWake
  \/ \E p \in BOOLEAN : SetPaused(p)
  \/ RequestStop
  \/ Finished

Spec == Init /\ [][Next]_vars

-----------------------------------------------------------------------------
(* Properties *)

InCall == at[Publisher] \in {"copied", "inside"}

\* The handler captures this: once run is left, by return or by exception, the
\* provider is neither inside it nor about to call it (host.cpp lines 33-40).
NoCallIntoADeadHost == loop = "gone" => ~InCall

\* The simulation's world never goes back to an older one.
WorldNeverGoesBack == [][world' >= world]_vars

\* A start that missed a snapshot is over with the first one handed over: from
\* then on, whenever nothing is on its way, the simulation's world is the
\* provider's.
CaughtUpAfterFirstHandover ==
  (handed # 0 /\ loop \notin {"leaving", "gone"} /\ carried = 0 /\ ~has_pending)
    => world = current

=============================================================================
