---------------------------- MODULE KWinGeometry ----------------------------
(***************************************************************************)
(* linux/kwin_geometry.cpp with what feeds it: the script inside KWin      *)
(* (kwin/.../main.js), the session bus and its thread (session_bus.cpp),   *)
(* and the daemon's main thread bringing them up and down (main.cpp).      *)
(*                                                                         *)
(* The windows are one number, how often the desktop has changed, since a  *)
(* report tells of all of them and EdgeBuilder is where ledges come from.  *)
(* What a screen has left for windows is one of Areas, NoArea if that is   *)
(* nothing.  KWin runs a script on one thread, so a report is one step.    *)
(* Mentions of a screen are by name, the same on both sides.  Lines that   *)
(* do not parse are dropped one by one and are not modelled; neither is a  *)
(* KWin without QTimer, which the script gets by on without a heartbeat.   *)
(***************************************************************************)
EXTENDS Sequences, Naturals, Functions

CONSTANTS
  Screens,     \* names of screens
  Areas,       \* work areas of a screen, apart from NoArea
  Bounds,      \* the work area of a screen nobody has told of: all of it
  NoArea,      \* a work area that is empty
  AtFirst,     \* the screens plugged in when the daemon starts
  MaxChanges,  \* bound: changes of the desktop
  MaxQueue,    \* bound: calls the bus holds for the daemon; more are refused
  MaxBeats     \* bound: heartbeats that say what the last report said

ASSUME AreasAssumption ==
  /\ Bounds \in Areas /\ NoArea \notin Areas /\ AtFirst \subseteq Screens
  /\ MaxChanges \in Nat

VARIABLES
  plugged,   \* KWin: its screens
  area,      \* KWin: area[s], what is left of screen s
  changes,   \* KWin: how often its desktop has changed
  script,    \* KWin: "running" or "unloaded"
  beating,   \* KWin: the script's timer is running
  beats,     \* heartbeats that said nothing new
  owned,     \* the daemon has its name on the bus
  calls,     \* calls of Update the bus holds
  said,      \* history: the last report the bus took
  outputs,   \* outputs_: screen |-> work_area
  snapshot,  \* snapshot_: [version, windows, floors]
  version,   \* version_
  heard,     \* reports_ > 0
  holding,   \* holding[t]: the report thread t is applying
  number,    \* number[t]: the version thread t calls the handler with, or 0
  stopping,  \* SessionBus::stopping_
  at         \* where each thread is

kwinVars == <<plugged, area, changes>>
scriptVars == <<script, beating, beats>>
busVars == <<owned, calls, said>>
providerVars == <<outputs, snapshot, version, heard, holding, number>>

vars == <<kwinVars, scriptVars, busVars, providerVars, stopping, at>>

Main == "main"  \* the thread of run_pets
Bus == "bus"    \* SessionBus::worker_

\* Nothing has been said of the windows.
Unreported == MaxChanges + 1

EmptyReport == [areas |-> [s \in {} |-> Bounds], windows |-> Unreported]

Init ==
  /\ plugged = AtFirst
  /\ area \in [Screens -> Areas \cup {NoArea}]
  /\ changes = 0
  /\ script \in {"running", "unloaded"}
  /\ beating = (script = "running")
  /\ beats = 0
  /\ owned = FALSE
  /\ calls = << >>
  /\ said = EmptyReport
  /\ outputs = EmptyReport.areas
  /\ snapshot = [version |-> 0, windows |-> Unreported, floors |-> EmptyReport.areas]
  /\ version = 0
  /\ heard = FALSE
  /\ holding = [t \in {Main, Bus} |-> EmptyReport]
  /\ number = [t \in {Main, Bus} |-> 0]
  /\ stopping = FALSE
  /\ at = [t \in {Main, Bus} |-> IF t = Main THEN "opening" ELSE "unborn"]

Go(t, from, to) == at[t] = from /\ at' = [at EXCEPT ![t] = to]

-----------------------------------------------------------------------------
(* KWin and the script *)

\* report: what KWin has now, and by now is after what the step did.
Report == [areas |-> [s \in plugged' |-> area'[s]], windows |-> changes']

\* callDBus.  Nobody is told whether the call arrives, and it does not if nobody
\* owns the name or the bus holds too many already.
Send ==
  /\ UNCHANGED owned
  /\ IF owned /\ Len(calls) < MaxQueue
       THEN calls' = Append(calls, Report) /\ said' = Report
       ELSE UNCHANGED <<calls, said>>

\* A change of the desktop, which the script may be told of by a signal or not:
\* nothing signals that the stacking order or a strut has changed.
Changes(watched) ==
  /\ changes < MaxChanges
  /\ changes' = changes + 1
  /\ IF watched /\ script = "running" THEN Send ELSE UNCHANGED busVars
  /\ UNCHANGED <<scriptVars, providerVars, stopping, at>>

WindowsChange == UNCHANGED <<plugged, area>> /\ \E watched \in BOOLEAN : Changes(watched)

AreaChanges(s, a) ==
  /\ area[s] # a
  /\ area' = [area EXCEPT ![s] = a]
  /\ UNCHANGED plugged
  /\ \E watched \in BOOLEAN : Changes(watched)

\* screensChanged.
PlugOrUnplug(s) ==
  /\ plugged' = IF s \in plugged THEN plugged \ {s} ELSE plugged \cup {s}
  /\ plugged' # {}
  /\ UNCHANGED area
  /\ Changes(TRUE)

\* Mutation of Heartbeat: the timer fires once.
Heartbeat_SingleShot ==
  /\ beating
  /\ beating' = FALSE
  /\ UNCHANGED <<kwinVars, script, beats>>
  /\ Send
  /\ UNCHANGED <<providerVars, stopping, at>>

\* Every two seconds.  A report with nothing new in it goes the same way.
Heartbeat ==
  /\ beating
  /\ UNCHANGED <<kwinVars, script, beating>>
  /\ IF said = Report THEN beats < MaxBeats /\ beats' = beats + 1 ELSE UNCHANGED beats
  /\ Send
  /\ UNCHANGED <<providerVars, stopping, at>>

-----------------------------------------------------------------------------
(* apply, on the main thread from start and on the bus thread from on_update *)

\* Mutation of Merged: back to the bounds where the report says nothing.
Merged_Afresh(report) ==
  [s \in DOMAIN outputs |-> IF s \in DOMAIN report.areas THEN report.areas[s] ELSE Bounds]

\* Work areas for the screens both sides know.
Merged(report) ==
  [s \in DOMAIN outputs |-> IF s \in DOMAIN report.areas THEN report.areas[s] ELSE outputs[s]]

\* A screen with nothing left has no floor.
Floors(areas) == Restrict(areas, {s \in DOMAIN areas : areas[s] # NoArea})

\* Under mutex_, after the parse.
Merge(t) ==
  /\ Go(t, "parsing", "calling")
  /\ outputs' = Merged(holding[t])
  /\ version' = version + 1
  /\ snapshot' = [version |-> version + 1, windows |-> holding[t].windows,
                  floors |-> Floors(Merged(holding[t]))]
  /\ number' = [number EXCEPT ![t] = version + 1]
  /\ UNCHANGED <<kwinVars, scriptVars, busVars, heard, holding, stopping>>

\* handler_.call has returned.
Called(t) ==
  /\ Go(t, "calling", IF t = Main THEN "primed" ELSE "checking")
  /\ number' = [number EXCEPT ![t] = 0]
  /\ holding' = [holding EXCEPT ![t] = EmptyReport]
  /\ UNCHANGED <<kwinVars, scriptVars, busVars, outputs, snapshot, version, heard, stopping>>

-----------------------------------------------------------------------------
(* The bus thread *)

CheckStopping ==
  /\ Go(Bus, "checking", IF stopping THEN "ended" ELSE "processing")
  /\ UNCHANGED <<kwinVars, scriptVars, busVars, providerVars, stopping>>

\* on_update
Receive ==
  /\ calls # << >>
  /\ Go(Bus, "processing", "parsing")
  /\ heard' = TRUE
  /\ holding' = [holding EXCEPT ![Bus] = Head(calls)]
  /\ calls' = Tail(calls)
  /\ UNCHANGED <<kwinVars, scriptVars, owned, said, outputs, snapshot, version, number, stopping>>

NothingToProcess ==
  /\ calls = << >>
  /\ Go(Bus, "processing", "waiting")
  /\ UNCHANGED <<kwinVars, scriptVars, busVars, providerVars, stopping>>

\* sd_bus_process or sd_bus_wait failed: the thread returns.
ConnectionLost ==
  /\ \E from \in {"processing", "waiting"} : Go(Bus, from, "ended")
  /\ UNCHANGED <<kwinVars, scriptVars, busVars, providerVars, stopping>>

\* Mutation of Wake: the wait has no timeout.
Wake_OnMessage ==
  /\ calls # << >>
  /\ Go(Bus, "waiting", "checking")
  /\ UNCHANGED <<kwinVars, scriptVars, busVars, providerVars, stopping>>

\* A message, or 200 ms.
Wake ==
  /\ Go(Bus, "waiting", "checking")
  /\ UNCHANGED <<kwinVars, scriptVars, busVars, providerVars, stopping>>

BusStep ==
  \/ CheckStopping \/ Receive \/ NothingToProcess \/ Wake
  \/ Merge(Bus) \/ Called(Bus)

-----------------------------------------------------------------------------
(* run_pets *)

\* open, request_name.
OpenBus ==
  /\ Go(Main, "opening", "connected")
  /\ owned' = TRUE
  /\ UNCHANGED <<kwinVars, scriptVars, calls, said, providerVars, stopping>>

\* set_outputs, with the screens WaylandDisplay::connect found; once.
SetOutputs ==
  /\ Go(Main, "connected", "publishing")
  /\ outputs' = [s \in plugged |-> Bounds]
  /\ UNCHANGED <<kwinVars, scriptVars, busVars, snapshot, version, heard, holding, number,
                 stopping>>

\* Mutation of Start: the bus is started first.
Start_AfterTheBus ==
  /\ at[Main] = "publishing"
  /\ at' = [at EXCEPT ![Main] = "parsing", ![Bus] = "checking"]
  /\ UNCHANGED <<kwinVars, scriptVars, busVars, providerVars, stopping>>

\* start: apply("").
Start ==
  /\ Go(Main, "publishing", "parsing")
  /\ UNCHANGED <<kwinVars, scriptVars, busVars, providerVars, stopping>>

StartBus ==
  /\ at[Main] = "primed"
  /\ at' = [at EXCEPT ![Main] = "asking", ![Bus] = IF @ = "unborn" THEN "checking" ELSE @]
  /\ UNCHANGED <<kwinVars, scriptVars, busVars, providerVars, stopping>>

\* ask_kwin_for_a_report finds no script to load.
NothingToLoad ==
  /\ Go(Main, "asking", "running")
  /\ UNCHANGED <<kwinVars, scriptVars, busVars, providerVars, stopping>>

\* reload_kwin_script: unloadScript.
Unload ==
  /\ Go(Main, "asking", "loading")
  /\ script' = "unloaded"
  /\ beating' = FALSE
  /\ UNCHANGED <<kwinVars, beats, busVars, providerVars, stopping>>

\* loadScript and start: the script runs from the top, and reports at the end.
Load ==
  /\ Go(Main, "loading", "running")
  /\ script' = "running"
  /\ beating' = TRUE
  /\ UNCHANGED <<kwinVars, beats>>
  /\ Send
  /\ UNCHANGED <<providerVars, stopping>>

LoadFails ==
  /\ Go(Main, "loading", "running")
  /\ UNCHANGED <<kwinVars, scriptVars, busVars, providerVars, stopping>>

\* SessionBus::stop, whichever way run_pets is left.
Stop ==
  /\ Go(Main, "running", "joining")
  /\ stopping' = TRUE
  /\ UNCHANGED <<kwinVars, scriptVars, busVars, providerVars>>

\* The provider is destroyed, and the name goes with the connection.
Join ==
  /\ at[Bus] = "ended"
  /\ Go(Main, "joining", "gone")
  /\ owned' = FALSE
  /\ UNCHANGED <<kwinVars, scriptVars, calls, said, providerVars, stopping>>

MainStep ==
  \/ OpenBus \/ SetOutputs \/ Start \/ Merge(Main) \/ Called(Main) \/ StartBus
  \/ NothingToLoad \/ Unload \/ Load \/ LoadFails \/ Join

-----------------------------------------------------------------------------
Finished == at[Main] = "gone" /\ UNCHANGED vars

Next ==
  \/ WindowsChange
  \/ \E s \in Screens : PlugOrUnplug(s) \/ \E a \in Areas \cup {NoArea} : AreaChanges(s, a)
  \/ Heartbeat
  \/ MainStep \/ Stop
  \/ BusStep \/ ConnectionLost
  \/ Finished

Spec == Init /\ [][Next]_vars

\* The threads run and the timer fires.  Nobody has to stop the daemon, the
\* connection need not fail, and nothing has to change on the desktop.
Fairness == WF_vars(MainStep) /\ WF_vars(BusStep) /\ WF_vars(Heartbeat)

FairSpec == Spec /\ Fairness

-----------------------------------------------------------------------------
(* Properties *)

\* main.cpp lines 203 to 206: what KWin said is never overwritten by the floor of the
\* start, nor by an older report; and the pets' floor moves only where KWin says so,
\* whatever a report leaves out.  KWin writes one while a screen is away, and the bus
\* delivers it late.
TheWorldFollowsKWin ==
  [][/\ snapshot.windows # Unreported =>
          /\ snapshot'.windows # Unreported
          /\ snapshot'.windows >= snapshot.windows
     /\ \A s \in DOMAIN outputs :
          outputs'[s] # outputs[s] =>
            \E t \in {Main, Bus} :
              s \in DOMAIN holding[t].areas /\ outputs'[s] = holding[t].areas[s]]_vars

Carried(t) == number[t]

Provider == INSTANCE WorldProvider WITH
  current <- snapshot.version,
  carried <- IF Carried(Main) # 0 THEN Carried(Main) ELSE Carried(Bus)

\* Two threads apply reports, but never at once and never under one number.
ImplementsProvider == Provider!Spec

Listening == ~stopping /\ at[Bus] # "ended"

\* Whatever the desktop has become, by a signal, a lost call or no signal at all,
\* the heartbeat brings it to the world, as long as there are a script and a bus.
CatchesUp ==
  \A n \in 0 .. MaxChanges :
    (changes = n /\ script = "running")
      ~> (script = "unloaded" \/ ~Listening
            \/ (snapshot.windows # Unreported /\ snapshot.windows >= n))

\* session_bus.cpp lines 78 and 79: stopping needs nobody to send a last message.
StopReturns == stopping ~> at[Main] = "gone"

=============================================================================
