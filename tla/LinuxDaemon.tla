----------------------------- MODULE LinuxDaemon -----------------------------
(***************************************************************************)
(* linux/main.cpp: run_pets, which puts the Wayland side and the session   *)
(* bus together.  The main thread connects, publishes, makes the overlays, *)
(* loads the packs and runs PetHost's loop; the bus thread carries out     *)
(* commands by setting flags the loop looks at; a signal sets one too, and *)
(* interrupts the main thread only while it waits.                         *)
(*                                                                         *)
(* What the loop simulates, the world KWin reports, and the settings with  *)
(* the command to reload them are modelled elsewhere (PetHost, Simulation, *)
(* KWinGeometry, Daemon).                                                  *)
(***************************************************************************)
EXTENDS WaylandOverlays, StatusItem

CONSTANT MaxEvents  \* bound: changes of the screens and of the shell, and commands

ASSUME LinuxDaemonAssumption == MaxEvents \in Nat

VARIABLES
  main,         \* where the main thread is
  at,           \* the overlay GlesRenderer::create is at
  g_stop, g_paused,
  events        \* how many of these there were

flags == <<g_stop, g_paused>>
mainVars == <<main, at>>
vars == <<waylandVars, busVars, flags, mainVars, events>>

Starting ==
  {"connecting", "listening", "publishing", "registering", "asking", "sizing",
   "creating", "configuring", "mapping", "loading"}
Looping == {"checking", "sleeping", "waiting", "polling", "drawing"}
Leaving == {"unwinding", "joining"}
Over == {"ended", "crashed"}

TypeOK ==
  /\ WaylandTypeOK
  /\ BusTypeOK
  /\ main \in Starting \cup Looping \cup Leaving \cup Over
  /\ at \in Nat
  /\ {g_stop, g_paused} \subseteq BOOLEAN
  /\ events \in 0 .. MaxEvents

Init ==
  /\ WaylandInit
  /\ BusInit
  /\ main = "connecting"
  /\ at = 0
  /\ g_stop = FALSE /\ g_paused = FALSE
  /\ events = 0

GoTo(place) == main' = place

\* Leaving run_pets by an exception.
Throw == GoTo("unwinding")

-----------------------------------------------------------------------------
(* The main thread before the loop *)

Connect ==
  /\ main = "connecting"
  /\ \/ FirstRoundtrip /\ GoTo("listening")
     \/ ~connected /\ Throw /\ UNCHANGED waylandVars
  /\ UNCHANGED <<busVars, flags, at, events>>

Listen ==
  /\ main = "listening"
  /\ \/ SecondRoundtrip /\ GoTo("publishing")
     \/ ~connected /\ Throw /\ UNCHANGED waylandVars
  /\ UNCHANGED <<busVars, flags, at, events>>

\* The name is taken only if no other DragonPerch has it.
Publish ==
  /\ main = "publishing"
  /\ \/ PublishAndStart /\ GoTo("registering")
     \/ Throw /\ UNCHANGED busVars
  /\ UNCHANGED <<waylandVars, flags, at, events>>

RegisterItem ==
  /\ \/ /\ main = "registering"
        /\ Register("main")
        /\ GoTo("asking")
     \/ /\ main = "asking"
        /\ Registered("main")
        /\ GoTo("sizing")
  /\ UNCHANGED <<published, worker, stopping, inbox, watcher, listed>>
  /\ UNCHANGED <<waylandVars, flags, at, events>>

\* EGL may fail here, and wherever something is drawn.
SizeOverlays ==
  /\ main = "sizing"
  /\ \/ ResizeOverlays /\ at' = 1 /\ GoTo("creating")
     \/ Throw /\ UNCHANGED <<waylandVars, at>>
  /\ UNCHANGED <<busVars, flags, events>>

\* The outputs may be fewer by now than there were when they were counted, or more, and
\* then there is no overlay at that place to write to.
NextOverlay ==
  /\ main = "creating"
  /\ IF at <= Cardinality(outputs)
       THEN /\ CreateSurface(at)
            /\ GoTo(IF at \in DOMAIN overlays THEN "configuring" ELSE "crashed")
       ELSE /\ IF overlays = << >> THEN Throw ELSE GoTo("loading")
            /\ UNCHANGED waylandVars
  /\ UNCHANGED <<busVars, flags, at, events>>

\* create holds a reference into outputs_ across the roundtrip, and logs the name
\* it leads to: should the roundtrip have made outputs_ anew, that may be anything.
AwaitConfigure ==
  /\ main = "configuring"
  /\ \/ /\ ConfigureRoundtrip(at)
        /\ \/ GoTo("mapping")
           \/ About("removed") # {} /\ GoTo("crashed")
     \/ ~connected /\ Throw /\ UNCHANGED waylandVars
  /\ UNCHANGED <<busVars, flags, at, events>>

\* Mutation of MapOverlay: a surface nobody configured is drawn on.
MapOverlay_Unconfigured ==
  /\ main = "mapping"
  /\ \/ /\ connected
        /\ FirstFrame(at)
        /\ at' = at + 1
        /\ GoTo("creating")
     \/ Throw /\ UNCHANGED <<waylandVars, at>>
  /\ UNCHANGED <<busVars, flags, events>>

MapOverlay ==
  /\ main = "mapping"
  /\ \/ /\ overlays[at].configured
        /\ connected
        /\ FirstFrame(at)
        /\ at' = at + 1
        /\ GoTo("creating")
     \/ Throw /\ UNCHANGED <<waylandVars, at>>
  /\ UNCHANGED <<busVars, flags, events>>

\* The shaders and the packs: without a pack there is nothing to do, and a broken one
\* throws.
LoadPacks ==
  /\ main = "loading"
  /\ GoTo("checking") \/ Throw
  /\ UNCHANGED <<waylandVars, busVars, flags, at, events>>

-----------------------------------------------------------------------------
(* PetHost::run and what it is given for should_stop *)

AnyClosed == \E i \in DOMAIN overlays : overlays[i].closed

\* Mutations of ShouldStop: a signal and the quit command are not looked at, or only
\* the overlay whose surface paces the loop is.
ShouldStop_Deaf == disconnected \/ AnyClosed
ShouldStop_FrontOnly == disconnected \/ g_stop \/ overlays[1].closed

ShouldStop == disconnected \/ g_stop \/ AnyClosed

CheckStop ==
  /\ main = "checking"
  /\ GoTo(IF ShouldStop THEN "unwinding" ELSE IF g_paused THEN "sleeping" ELSE "waiting")
  /\ UNCHANGED <<waylandVars, busVars, g_stop, g_paused, at, events>>

Wake ==
  /\ main = "sleeping"
  /\ GoTo("checking")
  /\ UNCHANGED <<waylandVars, busVars, flags, at, events>>

AskForFrame ==
  /\ main = "waiting"
  /\ RequestFrame
  /\ GoTo("polling")
  /\ UNCHANGED <<busVars, flags, at, events>>

\* Wakes with whatever there is, and goes on waiting unless a frame is part of it.
Poll ==
  /\ main = "polling"
  /\ \/ /\ Dispatch
        /\ GoTo(IF FrameArrives THEN "drawing" ELSE "polling")
     \/ /\ DispatchFails
        /\ GoTo("drawing")
  /\ UNCHANGED <<busVars, flags, at, events>>

\* end_frame draws on every overlay that is not closed, and cannot on one that was
\* never made.
CanDraw == \A i \in DOMAIN overlays : overlays[i].closed \/ overlays[i].mapped

Draw ==
  /\ main = "drawing"
  /\ \/ CanDraw /\ GoTo("checking")
     \/ Throw
  /\ UNCHANGED <<waylandVars, busVars, flags, at, events>>

-----------------------------------------------------------------------------
(* The way out *)

\* The clock, the renderer and what it drew go; then the stopper's SessionBus::stop.
Unwind ==
  /\ main = "unwinding"
  /\ pending' = FALSE
  /\ overlays' = << >>
  /\ owed' = 0
  /\ wire' = {}
  /\ stopping' = TRUE
  /\ GoTo("joining")
  /\ UNCHANGED <<compositorVars, displayVars, disconnected>>
  /\ UNCHANGED <<published, worker, inbox, watcher, listed, call>>
  /\ UNCHANGED <<flags, at, events>>

\* Mutation of Join: without the stopper, what the thread calls into goes first.
Join_AtOnce ==
  /\ main = "joining"
  /\ published' = FALSE
  /\ listed' = FALSE
  /\ inbox' = << >>
  /\ GoTo("ended")
  /\ UNCHANGED <<worker, stopping, watcher, call>>
  /\ UNCHANGED <<waylandVars, flags, at, events>>

\* The tray, the control service and the world are destroyed once the thread has
\* been joined.
Join ==
  /\ main = "joining"
  /\ worker = "off"
  /\ published' = FALSE
  /\ listed' = FALSE
  /\ inbox' = << >>
  /\ GoTo("ended")
  /\ UNCHANGED <<worker, stopping, watcher, call>>
  /\ UNCHANGED <<waylandVars, flags, at, events>>

MainThread ==
  \/ Connect \/ Listen \/ Publish \/ RegisterItem \/ SizeOverlays \/ NextOverlay
  \/ AwaitConfigure \/ MapOverlay \/ LoadPacks
  \/ CheckStop \/ Wake \/ AskForFrame \/ Poll \/ Draw \/ Unwind \/ Join

-----------------------------------------------------------------------------
(* The bus thread *)

Toggled(paused, command) ==
  CASE command = "pause" -> TRUE
    [] command = "resume" -> FALSE
    [] command = "toggle" -> ~paused
    [] OTHER -> paused

\* The handler of the control interface and of the menu: flags, and nothing else.
RunCommand(command) ==
  /\ Take(command)
  /\ g_stop' = (g_stop \/ command = "quit")
  /\ g_paused' = Toggled(g_paused, command)
  /\ UNCHANGED <<published, worker, stopping, watcher, listed, call>>
  /\ UNCHANGED <<waylandVars, mainVars, events>>

BusThread ==
  /\ main # "crashed"
  /\ \/ \E message \in Messages \ Notes : RunCommand(message)
     \/ /\ WatcherNoted \/ WatcherTold \/ WorkerStops
        /\ UNCHANGED <<waylandVars, flags, mainVars, events>>

-----------------------------------------------------------------------------
(* Everybody else *)

Happens == events < MaxEvents /\ events' = events + 1

\* --stop, --pause and the like, another program, or a click in the menu.
Send(command) ==
  /\ published
  /\ Happens
  /\ Deliver(command)
  /\ UNCHANGED <<published, worker, stopping, watcher, listed, call>>
  /\ UNCHANGED <<waylandVars, flags, mainVars>>

Click(id) == CanClick(id, g_paused) /\ Send(Clicked(id))

\* SIGINT or SIGTERM, on whichever thread: a poll of the main thread is interrupted
\* if it is there already and the signal lands on it, and a roundtrip that is takes
\* it for the end of the connection.
Signal ==
  /\ ~g_stop
  /\ main \notin Leaving \cup Over
  /\ g_stop' = TRUE
  /\ \/ GoTo(main)
     \/ main = "polling" /\ GoTo("drawing")
     \/ main \in {"connecting", "listening", "configuring"} /\ Throw
  /\ UNCHANGED <<waylandVars, busVars, g_paused>>
  /\ UNCHANGED <<at, events>>

Presents ==
  /\ Present
  /\ UNCHANGED <<busVars, flags, mainVars, events>>

Closes(i) ==
  /\ i \in DOMAIN overlays
  /\ CloseSurface(i)
  /\ UNCHANGED <<busVars, flags, mainVars, events>>

Describes(o) ==
  /\ Describe(o)
  /\ UNCHANGED <<busVars, flags, mainVars, events>>

\* A monitor is plugged in or taken away, or the compositor dies.
ScreensChange ==
  /\ main \notin {"connecting"} \cup Over
  /\ Happens
  /\ (\E o \in Outputs : Plug(o) \/ Unplug(o)) \/ Disconnect
  /\ UNCHANGED <<busVars, flags, mainVars>>

\* The desktop's shell starts, ends, or is replaced.
ShellChanges ==
  /\ main \notin Over
  /\ Happens
  /\ WatcherAppears \/ WatcherLeaves \/ WatcherReplaced
  /\ UNCHANGED <<waylandVars, flags, mainVars>>

Lists(t) ==
  /\ WatcherLists(t)
  /\ UNCHANGED <<waylandVars, flags, mainVars, events>>

Desktop ==
  \/ Presents
  \/ \E i \in DOMAIN overlays : Closes(i)
  \/ \E o \in Outputs : Describes(o)
  \/ \E t \in Threads : Lists(t)
  \/ ScreensChange \/ ShellChanges

\* Only the first overlay's surface paces the loop.  Once its monitor is gone, no
\* frame of it is presented, and only the end of the connection ends the wait.
FrontGone == main \in {"waiting", "polling"} /\ ~Here(overlays[1].on)

\* Where the daemon may stay for good.
Rests == main \in Over \/ FrontGone

Rest == Rests /\ UNCHANGED vars

Next ==
  \/ MainThread \/ BusThread \/ Desktop \/ Signal \/ Rest
  \/ \E command \in Commands : Send(command)
  \/ \E id \in MenuIds : Click(id)

Spec == Init /\ [][Next]_vars

\* Threads run, the compositor presents what is mapped and closes what lost its
\* monitor, and a watcher that stays answers.  There are only so many surfaces to close
\* and calls to answer, so that none can be passed over for ever.
Fairness ==
  /\ WF_vars(MainThread)
  /\ WF_vars(BusThread)
  /\ WF_vars(Presents)
  /\ WF_vars(\E i \in DOMAIN overlays : Closes(i))
  /\ WF_vars(\E t \in Threads : Lists(t))

FairSpec == Spec /\ Fairness

-----------------------------------------------------------------------------
(* Properties *)

\* frame_clock.cpp:34-44: the loop asks for a callback only when it has none to come.
\* However monitors come and go, other events wake it and the loop pauses, there is one
\* callback to come for each one the clock holds, and none it has forgotten.
OneFrameCallback ==
  LET coming == owed + (IF FrameArrives THEN 1 ELSE 0)
  IN  /\ coming <= (IF pending THEN 1 ELSE 0)
      /\ pending /\ connected => coming = 1

\* layer_surface.cpp:140-147: a buffer on a surface nobody configured is a protocol
\* error.  Every overlay that is drawn on was configured, whichever monitors went between
\* the steps of its creation, and the loop has a first one to wait for.
MappedOnlyAsConfigured ==
  /\ \A i \in DOMAIN overlays : overlays[i].mapped => overlays[i].configured
  /\ main \in Looping => overlays # << >> /\ overlays[1].mapped

\* main.cpp:209-211: the bus thread must not "dispatch a call into an object that is
\* already gone", by whichever way and with whatever still on the bus run_pets is left.
NobodyIsCalledTooLate == published \/ worker = "off"

\* A signal or the quit command ends the daemon, paused or drawing, starting or
\* already on its way out, unless it waits for a frame of a monitor that is gone.
StopIsObeyed == g_stop ~> Rests

\* An overlay whose monitor was unplugged, and the compositor's going away, end the
\* daemon (main.cpp:321-325), unless it is paused, when it reads no events, or waits
\* for a frame of the very monitor that is gone.
LostOverlayEnds ==
  (~connected \/ \E i \in DOMAIN overlays : overlays[i].on # Nowhere /\ ~Here(overlays[i].on))
    ~> Rests \/ main = "sleeping"

\* tray.cpp:550-570: whichever watcher there is while the daemon runs comes to know of
\* the icon: the one there was, one that starts later, one that takes over.
ItemIsListed ==
  (watcher /\ main \in Looping) ~> (listed \/ ~watcher \/ main \notin Looping)
=============================================================================
