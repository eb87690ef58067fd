------------------------- MODULE LinuxDaemon_proofs -------------------------
(***************************************************************************)
(* However many monitors and overlays there are, and whatever happens to   *)
(* them, to the shell and to the bus: the frame clock's callback is never  *)
(* asked for twice or forgotten, only configured overlays are drawn on,    *)
(* the bus thread never outlives what it calls into, and no watcher is     *)
(* left without the icon and without a word of it.                         *)
(*                                                                         *)
(* The four rest on different variables and are proved apart.              *)
(***************************************************************************)
EXTENDS LinuxDaemon, FiniteSetTheorems, TLAPS

-----------------------------------------------------------------------------
(* The frame callback *)

\* The clock holds no callback before the loop has asked for one.
ClockStartsClean == main \in Starting => ~pending

ClockInv ==
  /\ owed \in Nat
  /\ pending \in BOOLEAN
  /\ ClockStartsClean
  /\ OneFrameCallback

\* A step into start-up comes from start-up.
NoWayBack == main' \in Starting => main \in Starting

LEMMA ClockLeftAlone ==
  ASSUME ClockInv, NoWayBack,
         UNCHANGED <<connected, owed, pending>>,
         FrameArrives' <=> FrameArrives
  PROVE  ClockInv'
BY DEF ClockInv, NoWayBack, ClockStartsClean, OneFrameCallback

LEMMA NothingToCome ==
  ASSUME owed' = 0, pending' = FALSE, ~FrameArrives'
  PROVE  ClockInv'
<1>1. owed' \in Nat /\ pending' \in BOOLEAN /\ ClockStartsClean'
  BY DEF ClockStartsClean
<1>2. ~pending'
  OBVIOUS
<1>3. OneFrameCallback'
  BY <1>2 DEF OneFrameCallback
<1> QED  BY <1>1, <1>3 DEF ClockInv

\* The dispatch that delivers the frame takes the callback from the clock.
LEMMA DispatchTakesItsFrame ==
  ASSUME ClockInv, NoWayBack, NEW configured, Dispatched(configured),
         UNCHANGED <<connected, owed>>
  PROVE  ClockInv'
<1>1. ~FrameArrives'
  BY DEF Dispatched, FrameArrives
<1>2. pending' = (pending /\ ~FrameArrives)
  BY DEF Dispatched
<1>3. CASE FrameArrives
  <2>1. owed' = 0
    BY <1>3 DEF ClockInv, OneFrameCallback
  <2>2. pending' = FALSE
    BY <1>2, <1>3
  <2> QED  BY <1>1, <2>1, <2>2, NothingToCome
<1>4. CASE ~FrameArrives
  <2>1. pending' = pending
    BY <1>2, <1>4 DEF ClockInv
  <2> QED  BY <1>1, <1>4, <2>1, ClockLeftAlone
<1> QED  BY <1>3, <1>4

LEMMA ClockOfMainThread ==
  ASSUME ClockInv, MainThread
  PROVE  ClockInv'
<1> USE DEF NoWayBack, Starting, GoTo, Throw, waylandVars, FrameArrives
<1>1. CASE Connect
  BY <1>1, ClockLeftAlone DEF Connect, FirstRoundtrip, compositorVars
<1>2. CASE Listen
  <2>1. CASE SecondRoundtrip
    <3>1. ~pending /\ owed = 0
      BY <1>2 DEF Listen, ClockInv, ClockStartsClean, OneFrameCallback
    <3>2. pending' = pending /\ owed' = owed /\ wire' = {}
      BY <2>1 DEF SecondRoundtrip
    <3> QED  BY <3>1, <3>2 DEF ClockInv, ClockStartsClean, OneFrameCallback
  <2>2. CASE UNCHANGED waylandVars
    BY <1>2, <2>2, ClockLeftAlone DEF Listen
  <2> QED  BY <1>2, <2>1, <2>2 DEF Listen
<1>3. CASE Publish \/ RegisterItem \/ LoadPacks \/ CheckStop \/ Wake \/ Draw
  BY <1>3, ClockLeftAlone
  DEF Publish, RegisterItem, LoadPacks, CheckStop, Wake, Draw, Looping
<1>4. CASE SizeOverlays \/ NextOverlay \/ MapOverlay
  BY <1>4, ClockLeftAlone
  DEF SizeOverlays, ResizeOverlays, NextOverlay, CreateSurface, MapOverlay, FirstFrame,
      compositorVars
<1>5. CASE AwaitConfigure
  <2>1. CASE ConfigureRoundtrip(at)
    BY <1>5, <2>1, DispatchTakesItsFrame DEF AwaitConfigure, ConfigureRoundtrip, compositorVars
  <2>2. CASE UNCHANGED waylandVars
    BY <1>5, <2>2, ClockLeftAlone DEF AwaitConfigure
  <2> QED  BY <1>5, <2>1, <2>2 DEF AwaitConfigure
<1>6. CASE AskForFrame
  BY <1>6 DEF AskForFrame, RequestFrame, compositorVars, ClockInv, ClockStartsClean,
              OneFrameCallback
<1>7. CASE Poll
  <2>1. CASE Dispatch
    BY <1>7, <2>1, DispatchTakesItsFrame DEF Poll, Dispatch, compositorVars
  <2>2. CASE DispatchFails
    BY <1>7, <2>2, ClockLeftAlone DEF Poll, DispatchFails, compositorVars
  <2> QED  BY <1>7, <2>1, <2>2 DEF Poll
<1>8. CASE Unwind
  BY <1>8, NothingToCome DEF Unwind
<1>9. CASE Join
  BY <1>9, ClockLeftAlone DEF Join
<1> QED
  BY <1>1, <1>2, <1>3, <1>4, <1>5, <1>6, <1>7, <1>8, <1>9 DEF MainThread

\* What is on the wire but a frame says nothing to the clock.
LEMMA ClockOfDesktop ==
  ASSUME ClockInv, Desktop
  PROVE  ClockInv'
<1> USE DEF mainVars, NoWayBack
<1>1. CASE Presents
  <2>1. owed = 1 /\ pending
    BY <1>1 DEF Presents, Present, ClockInv, OneFrameCallback
  <2>2. owed' = 0 /\ FrameArrives' /\ pending' = pending /\ connected' = connected
    BY <1>1 DEF Presents, Present, FrameArrives, compositorVars
  <2>3. main' = main
    BY <1>1 DEF Presents
  <2> QED  BY <2>1, <2>2, <2>3 DEF ClockInv, ClockStartsClean, OneFrameCallback
<1>2. ASSUME NEW i \in DOMAIN overlays, Closes(i)
      PROVE  ClockInv'
  BY <1>2, ClockLeftAlone DEF Closes, CloseSurface, compositorVars, FrameArrives
<1>3. ASSUME NEW o \in Outputs, Describes(o)
      PROVE  ClockInv'
  BY <1>3, ClockLeftAlone DEF Describes, Describe, compositorVars, FrameArrives
<1>4. ASSUME NEW t \in Threads, Lists(t)
      PROVE  ClockInv'
  BY <1>4, ClockLeftAlone DEF Lists, waylandVars, FrameArrives
<1>5. CASE ScreensChange
  <2>1. main' = main
    BY <1>5 DEF ScreensChange
  <2>2. ASSUME NEW o \in Outputs, Plug(o) \/ Unplug(o)
        PROVE  ClockInv'
    BY <2>1, <2>2, ClockLeftAlone DEF Plug, Unplug, FrameArrives
  <2>3. CASE Disconnect
    BY <2>1, <2>3 DEF Disconnect, ClockInv, ClockStartsClean, OneFrameCallback, FrameArrives
  <2> QED  BY <1>5, <2>2, <2>3 DEF ScreensChange
<1>6. CASE ShellChanges
  BY <1>6, ClockLeftAlone DEF ShellChanges, waylandVars, FrameArrives
<1> QED  BY <1>1, <1>2, <1>3, <1>4, <1>5, <1>6 DEF Desktop

LEMMA ClockOfTheRest ==
  ASSUME ClockInv,
         \/ BusThread \/ Signal \/ Rest \/ UNCHANGED vars
         \/ \E command \in Commands : Send(command)
         \/ \E id \in MenuIds : Click(id)
  PROVE  ClockInv'
<1>1. UNCHANGED <<connected, wire, owed, pending>>
  BY DEF BusThread, RunCommand, Signal, Rest, Send, Click, vars, waylandVars
<1>2. NoWayBack
  BY DEF BusThread, RunCommand, Signal, Rest, Send, Click, vars, mainVars, NoWayBack, Starting,
         GoTo, Throw
<1> QED  BY <1>1, <1>2, ClockLeftAlone DEF FrameArrives

\* However many monitors come and go while the loop waits, draws and pauses, the clock
\* never has two callbacks to come, nor one it does not know of, nor waits for none.
THEOREM OneCallbackAtATime == Spec => []OneFrameCallback
<1>1. Init => ClockInv
  <2> SUFFICES ASSUME Init
               PROVE  ClockInv
    OBVIOUS
  <2>1. owed = 0 /\ pending = FALSE /\ ~FrameArrives
    BY DEF Init, WaylandInit, FrameArrives
  <2>2. owed \in Nat /\ pending \in BOOLEAN /\ ClockStartsClean
    BY <2>1 DEF ClockStartsClean
  <2>3. OneFrameCallback
    BY <2>1 DEF OneFrameCallback
  <2> QED  BY <2>2, <2>3 DEF ClockInv
<1>2. ClockInv /\ [Next]_vars => ClockInv'
  BY ClockOfMainThread, ClockOfDesktop, ClockOfTheRest DEF Next
<1>3. ClockInv => OneFrameCallback
  BY DEF ClockInv
<1> QED  BY <1>1, <1>2, <1>3, PTL DEF Spec

-----------------------------------------------------------------------------
(* The bus thread *)

\* What start published stays, and the thread neither comes nor goes.
LEMMA ServiceLeftAlone ==
  ASSUME NobodyIsCalledTooLate, UNCHANGED <<published, worker>>
  PROVE  NobodyIsCalledTooLate'
BY DEF NobodyIsCalledTooLate

\* run_pets may be left from anywhere, with messages in the socket and a registration under
\* way: what the bus thread calls into is there as long as the thread is.
THEOREM ThreadEndsFirst == Spec => []NobodyIsCalledTooLate
<1>1. Init => NobodyIsCalledTooLate
  BY DEF Init, BusInit, NobodyIsCalledTooLate
<1>2. NobodyIsCalledTooLate /\ [Next]_vars => NobodyIsCalledTooLate'
  <2> SUFFICES ASSUME NobodyIsCalledTooLate, [Next]_vars
               PROVE  NobodyIsCalledTooLate'
    OBVIOUS
  <2>1. CASE MainThread
    <3>1. CASE Publish
      BY <3>1, ServiceLeftAlone DEF Publish, PublishAndStart, busVars, NobodyIsCalledTooLate
    <3>2. CASE Join
      BY <3>2 DEF Join, NobodyIsCalledTooLate
    <3>3. CASE ~Publish /\ ~Join
      <4>1. UNCHANGED <<published, worker>>
        BY <2>1, <3>3
        DEF MainThread, Connect, Listen, RegisterItem, SizeOverlays, NextOverlay, AwaitConfigure,
            MapOverlay, LoadPacks, CheckStop, Wake, AskForFrame, Poll, Draw, Unwind, busVars
      <4> QED  BY <4>1, ServiceLeftAlone
    <3> QED  BY <3>1, <3>2, <3>3
  <2>2. CASE BusThread
    <3>1. published' = published /\ worker' \in {worker, "asking", "idle", "off"}
      BY <2>2 DEF BusThread, RunCommand, WatcherNoted, WatcherTold, WorkerStops
    <3>2. worker' = worker \/ worker # "off"
      BY <2>2 DEF BusThread, RunCommand, WatcherNoted, Take, WatcherTold, WorkerStops
    <3> QED  BY <3>1, <3>2 DEF NobodyIsCalledTooLate
  <2>3. CASE Desktop
    <3>1. UNCHANGED <<published, worker>>
      BY <2>3 DEF Desktop, Presents, Closes, Describes, Lists, WatcherLists, ScreensChange,
                  ShellChanges, WatcherAppears, WatcherLeaves, WatcherReplaced, busVars
    <3> QED  BY <3>1, ServiceLeftAlone
  <2>4. CASE \/ Signal \/ Rest \/ UNCHANGED vars
             \/ \E command \in Commands : Send(command)
             \/ \E id \in MenuIds : Click(id)
    <3>1. UNCHANGED <<published, worker>>
      BY <2>4 DEF Signal, Rest, Send, Click, busVars, vars
    <3> QED  BY <3>1, ServiceLeftAlone
  <2> QED  BY <2>1, <2>2, <2>3, <2>4 DEF Next
<1> QED  BY <1>1, <1>2, PTL DEF Spec

-----------------------------------------------------------------------------
(* The overlays *)

Creating == {"creating", "configuring", "mapping"}
WithOverlays == {"loading"} \cup Looping

KnownMonitors == monitors \subseteq Outputs /\ described \subseteq Outputs /\ outputs \subseteq Outputs

Fields == {"on", "configured", "mapped", "closed"}

\* An overlay is a record of four fields, and overlays a function of numbers to them.
Shaped ==
  /\ DOMAIN overlays \subseteq Nat
  /\ overlays = [i \in DOMAIN overlays |-> overlays[i]]
  /\ \A i \in DOMAIN overlays : DOMAIN overlays[i] = Fields

\* Those before the one being made are mapped; until the first is made there are as many
\* as there are outputs; and nothing is loaded or drawn without a first one.
MadeInOrder ==
  /\ main \in Creating =>
       /\ at >= 1
       /\ at > 1 => 1 \in DOMAIN overlays
       /\ \A i \in DOMAIN overlays : i < at => overlays[i].mapped
  /\ main = "creating" /\ at = 1 => DOMAIN overlays = 1 .. Cardinality(outputs)
  /\ main \in {"configuring", "mapping"} => at \in DOMAIN overlays
  /\ main \in WithOverlays => 1 \in DOMAIN overlays /\ overlays[1].mapped

Configured == \A i \in DOMAIN overlays : overlays[i].mapped => overlays[i].configured

OverlayInv ==
  /\ at \in Nat
  /\ KnownMonitors
  /\ Shaped
  /\ MadeInOrder
  /\ Configured

\* What most steps do to the overlays: none comes, goes or is drawn on, and none is less
\* configured than it was.
Kept ==
  /\ Shaped'
  /\ DOMAIN overlays' = DOMAIN overlays
  /\ \A i \in DOMAIN overlays :
       /\ overlays'[i].mapped = overlays[i].mapped
       /\ overlays[i].configured => overlays'[i].configured

LEMMA SameIsKept ==
  ASSUME Shaped, UNCHANGED overlays
  PROVE  Kept
BY DEF Shaped, Kept

LEMMA ToldIsKept ==
  ASSUME Shaped, NEW configured, overlays' = Told(configured)
  PROVE  Kept
<1> DEFINE told(i) == [on |-> overlays[i].on,
                       configured |-> overlays[i].configured \/ i \in configured,
                       mapped |-> overlays[i].mapped,
                       closed |-> overlays[i].closed \/ <<"closed", i>> \in wire]
<1>1. overlays' = [i \in DOMAIN overlays |-> told(i)]
  BY DEF Told
<1>2. DOMAIN overlays' = DOMAIN overlays /\ \A i \in DOMAIN overlays : overlays'[i] = told(i)
  BY <1>1
<1>3. ASSUME NEW i \in DOMAIN overlays
      PROVE  /\ DOMAIN told(i) = Fields
             /\ told(i).mapped = overlays[i].mapped
             /\ overlays[i].configured => told(i).configured
  BY DEF Fields
<1> HIDE DEF told
<1>4. Shaped'
  BY <1>1, <1>2, <1>3 DEF Shaped
<1> QED  BY <1>2, <1>3, <1>4 DEF Kept

LEMMA DispatchKeeps ==
  ASSUME KnownMonitors, Shaped, NEW configured, Dispatched(configured)
  PROVE  Kept /\ KnownMonitors'
<1>1. registry_global_remove \subseteq Outputs
  BY DEF KnownMonitors, registry_global_remove, registry_global, About
<1>2. output_done \subseteq Outputs
  BY <1>1 DEF output_done
<1>3. \A r \in rebuild_outputs : r \subseteq Outputs
  BY <1>1 DEF rebuild_outputs, KnownMonitors
<1>4. KnownMonitors'
  BY <1>1, <1>2, <1>3 DEF Dispatched, KnownMonitors
<1>5. Kept
  BY ToldIsKept DEF Dispatched
<1> QED  BY <1>4, <1>5

LEMMA OutsideCreation ==
  ASSUME OverlayInv, Kept, KnownMonitors', UNCHANGED at,
         main' \notin Creating,
         main' \in WithOverlays => main \in WithOverlays
  PROVE  OverlayInv'
<1>1. MadeInOrder'
  BY DEF OverlayInv, Kept, MadeInOrder, Creating
<1>2. Configured'
  BY DEF OverlayInv, Kept, Configured
<1> QED  BY <1>1, <1>2 DEF OverlayInv, Kept

LEMMA OverlaysLeftAlone ==
  ASSUME OverlayInv, UNCHANGED <<overlays, displayVars, at, main>>
  PROVE  OverlayInv'
BY DEF OverlayInv, displayVars, KnownMonitors, Shaped, MadeInOrder, Configured

LEMMA OverlaysOfStarting ==
  ASSUME OverlayInv, Connect \/ Listen \/ Publish \/ RegisterItem \/ LoadPacks
  PROVE  OverlayInv'
<1> USE DEF GoTo, Throw, Creating, WithOverlays, Looping
<1>1. Shaped /\ KnownMonitors
  BY DEF OverlayInv
<1>2. UNCHANGED <<overlays, at>>
  BY DEF Connect, FirstRoundtrip, Listen, SecondRoundtrip, Publish, RegisterItem, LoadPacks,
         waylandVars
<1>3. KnownMonitors'
  <2>1. CASE Connect
    BY <1>1, <2>1 DEF Connect, FirstRoundtrip, waylandVars, KnownMonitors
  <2>2. CASE Listen
    BY <1>1, <2>2 DEF Listen, SecondRoundtrip, registry_global_remove, registry_global, About,
                      waylandVars, KnownMonitors
  <2>3. CASE Publish \/ RegisterItem \/ LoadPacks
    BY <1>1, <2>3 DEF Publish, RegisterItem, LoadPacks, waylandVars, KnownMonitors
  <2> QED  BY <2>1, <2>2, <2>3
<1>4. main' \notin Creating
  BY DEF Connect, Listen, Publish, RegisterItem, LoadPacks
<1>5. main' \in WithOverlays => main \in WithOverlays
  BY DEF Connect, Listen, Publish, RegisterItem, LoadPacks
<1> QED  BY <1>1, <1>2, <1>3, <1>4, <1>5, SameIsKept, OutsideCreation

LEMMA OverlaysOfSizing ==
  ASSUME OverlayInv, SizeOverlays
  PROVE  OverlayInv'
<1> USE DEF GoTo, Throw, Creating, WithOverlays, Looping
<1>1. CASE ResizeOverlays /\ at' = 1 /\ GoTo("creating")
  <2>1. Cardinality(outputs) \in Nat
    BY OutputsAssumption, FS_Subset, FS_CardinalityType DEF OverlayInv, KnownMonitors
  <2>2. /\ overlays' = [i \in 1 .. Cardinality(outputs) |-> NoSurface]
        /\ UNCHANGED <<monitors, described, outputs>>
    BY <1>1 DEF ResizeOverlays, displayVars
  <2>3. DOMAIN NoSurface = Fields /\ NoSurface.mapped = FALSE
    BY DEF NoSurface, Fields
  <2> HIDE DEF NoSurface
  <2>4. /\ DOMAIN overlays' = 1 .. Cardinality(outputs)
        /\ \A i \in DOMAIN overlays' : overlays'[i] = NoSurface
    BY <2>2
  <2>5. Shaped'
    BY <2>1, <2>2, <2>3, <2>4 DEF Shaped
  <2>6. MadeInOrder'
    BY <1>1, <2>1, <2>2, <2>4 DEF MadeInOrder
  <2>7. Configured'
    BY <2>3, <2>4 DEF Configured
  <2> QED  BY <1>1, <2>2, <2>5, <2>6, <2>7 DEF OverlayInv, KnownMonitors
<1>2. CASE Throw /\ UNCHANGED <<waylandVars, at>>
  BY <1>2, SameIsKept, OutsideCreation DEF OverlayInv, KnownMonitors, waylandVars
<1> QED  BY <1>1, <1>2 DEF SizeOverlays

LEMMA OverlaysOfNext ==
  ASSUME OverlayInv, NextOverlay
  PROVE  OverlayInv'
<1> USE DEF GoTo, Throw, Creating, WithOverlays, Looping
<1>1. main = "creating" /\ at' = at /\ KnownMonitors'
  BY DEF NextOverlay, CreateSurface, OverlayInv, KnownMonitors, displayVars, waylandVars
<1>2. CASE at <= Cardinality(outputs)
  <2>1. overlays' = [overlays EXCEPT ![at].on = Nth(at)]
    BY <1>2 DEF NextOverlay, CreateSurface
  <2>2. main' = IF at \in DOMAIN overlays THEN "configuring" ELSE "crashed"
    BY <1>2 DEF NextOverlay
  <2>3. /\ DOMAIN overlays' = DOMAIN overlays
        /\ overlays' = [i \in DOMAIN overlays' |-> overlays'[i]]
        /\ \A i \in DOMAIN overlays : DOMAIN overlays'[i] = DOMAIN overlays[i]
        /\ \A i \in DOMAIN overlays : /\ overlays'[i].mapped = overlays[i].mapped
                                      /\ overlays'[i].configured = overlays[i].configured
    BY <2>1 DEF OverlayInv, Shaped, Fields
  <2>4. Shaped'
    BY <2>3 DEF OverlayInv, Shaped
  <2>5. Configured'
    BY <2>3 DEF OverlayInv, Configured
  <2>6. MadeInOrder'
    BY <1>1, <2>2, <2>3 DEF OverlayInv, MadeInOrder
  <2> QED  BY <1>1, <2>4, <2>5, <2>6 DEF OverlayInv
<1>3. CASE ~(at <= Cardinality(outputs))
  <2>1. /\ main' = IF overlays = << >> THEN "unwinding" ELSE "loading"
        /\ UNCHANGED <<overlays, displayVars>>
    BY <1>3 DEF NextOverlay, waylandVars, displayVars
  <2>2. Cardinality(outputs) \in Nat
    BY OutputsAssumption, FS_Subset, FS_CardinalityType DEF OverlayInv, KnownMonitors
  <2>3. at = 1 => overlays = << >>
    <3> SUFFICES ASSUME at = 1
                 PROVE  overlays = << >>
      OBVIOUS
    <3>1. DOMAIN overlays = {}
      BY <1>1, <1>3, <2>2 DEF OverlayInv, MadeInOrder
    <3> QED  BY <3>1 DEF OverlayInv, Shaped
  <2>4. overlays # << >> => 1 \in DOMAIN overlays /\ overlays[1].mapped
    BY <1>1, <2>3 DEF OverlayInv, MadeInOrder
  <2>5. MadeInOrder'
    BY <2>1, <2>4 DEF MadeInOrder
  <2>6. Shaped' /\ Configured'
    BY <2>1 DEF OverlayInv, Shaped, Configured
  <2> QED  BY <1>1, <2>5, <2>6 DEF OverlayInv
<1> QED  BY <1>2, <1>3

LEMMA OverlaysOfConfigure ==
  ASSUME OverlayInv, AwaitConfigure
  PROVE  OverlayInv'
<1> USE DEF GoTo, Throw, Creating, WithOverlays, Looping
<1>1. main = "configuring" /\ at' = at
  BY DEF AwaitConfigure
<1>2. CASE ConfigureRoundtrip(at)
  <2>1. Kept /\ KnownMonitors'
    BY <1>2, DispatchKeeps DEF ConfigureRoundtrip, OverlayInv
  <2>2. main' \in {"mapping", "crashed"}
    <3>1. connected
      BY <1>2 DEF ConfigureRoundtrip
    <3> QED  BY <3>1 DEF AwaitConfigure
  <2>3. MadeInOrder'
    BY <1>1, <2>1, <2>2 DEF OverlayInv, Kept, MadeInOrder
  <2>4. Configured'
    BY <2>1 DEF OverlayInv, Kept, Configured
  <2> QED  BY <1>1, <2>1, <2>3, <2>4 DEF OverlayInv, Kept
<1>3. CASE Throw /\ UNCHANGED waylandVars
  BY <1>1, <1>3, SameIsKept, OutsideCreation DEF OverlayInv, KnownMonitors, waylandVars
<1> QED  BY <1>2, <1>3 DEF AwaitConfigure

LEMMA OverlaysOfMapping ==
  ASSUME OverlayInv, MapOverlay
  PROVE  OverlayInv'
<1> USE DEF GoTo, Throw, Creating, WithOverlays, Looping
<1>1. CASE overlays[at].configured /\ FirstFrame(at) /\ at' = at + 1 /\ GoTo("creating")
  <2>1. main = "mapping" /\ at \in DOMAIN overlays /\ at \in Nat /\ at >= 1
    BY DEF MapOverlay, OverlayInv, MadeInOrder
  <2>2. overlays' = [overlays EXCEPT ![at].mapped = TRUE] /\ KnownMonitors'
    BY <1>1 DEF FirstFrame, OverlayInv, KnownMonitors, displayVars
  <2>3. /\ DOMAIN overlays' = DOMAIN overlays
        /\ overlays' = [i \in DOMAIN overlays' |-> overlays'[i]]
        /\ \A i \in DOMAIN overlays : DOMAIN overlays'[i] = DOMAIN overlays[i]
        /\ \A i \in DOMAIN overlays : overlays'[i].configured = overlays[i].configured
    BY <2>1, <2>2 DEF OverlayInv, Shaped, Fields
  <2>4. /\ overlays'[at].mapped
        /\ \A i \in DOMAIN overlays \ {at} : overlays'[i] = overlays[i]
    BY <2>1, <2>2 DEF OverlayInv, Shaped, Fields
  <2>5. Shaped'
    BY <2>3 DEF OverlayInv, Shaped
  <2>6. Configured'
    BY <1>1, <2>3, <2>4 DEF OverlayInv, Configured
  <2>7. MadeInOrder'
    <3>1. \A i \in DOMAIN overlays' : i < at' => overlays'[i].mapped
      <4> SUFFICES ASSUME NEW i \in DOMAIN overlays, i < at + 1
                   PROVE  overlays'[i].mapped
        BY <1>1, <2>3
      <4>1. CASE i = at
        BY <2>4, <4>1
      <4>2. CASE i # at
        <5>1. i \in Nat /\ i < at
          BY <2>1, <4>2 DEF OverlayInv, Shaped
        <5>2. overlays[i].mapped
          BY <2>1, <5>1 DEF OverlayInv, MadeInOrder
        <5> QED  BY <2>4, <4>2, <5>2
      <4> QED  BY <4>1, <4>2
    <3>2. 1 \in DOMAIN overlays'
      BY <2>1, <2>3 DEF OverlayInv, MadeInOrder
    <3>3. at' > 1
      BY <1>1, <2>1
    <3> QED  BY <1>1, <3>1, <3>2, <3>3 DEF MadeInOrder
  <2> QED  BY <1>1, <2>1, <2>2, <2>5, <2>6, <2>7 DEF OverlayInv
<1>2. CASE Throw /\ UNCHANGED <<waylandVars, at>>
  BY <1>2, SameIsKept, OutsideCreation DEF OverlayInv, KnownMonitors, waylandVars
<1> QED  BY <1>1, <1>2 DEF MapOverlay
LEMMA OverlaysOfLoop ==
  ASSUME OverlayInv, CheckStop \/ Wake \/ AskForFrame \/ Poll \/ Draw
  PROVE  OverlayInv'
<1> USE DEF GoTo, Throw, Creating, WithOverlays, Looping
<1>1. Shaped /\ KnownMonitors /\ main \in WithOverlays
  BY DEF OverlayInv, CheckStop, Wake, AskForFrame, Poll, Draw
<1>2. at' = at /\ main' \notin Creating
  BY DEF CheckStop, Wake, AskForFrame, Poll, Draw
<1>3. Kept /\ KnownMonitors'
  <2>1. CASE CheckStop \/ Wake \/ Draw
    BY <1>1, <2>1, SameIsKept DEF CheckStop, Wake, Draw, waylandVars, KnownMonitors
  <2>2. CASE AskForFrame
    BY <1>1, <2>2, SameIsKept DEF AskForFrame, RequestFrame, displayVars, KnownMonitors
  <2>3. CASE Poll /\ Dispatch
    BY <1>1, <2>3, DispatchKeeps DEF Dispatch
  <2>4. CASE Poll /\ DispatchFails
    BY <1>1, <2>4, SameIsKept DEF DispatchFails, displayVars, KnownMonitors
  <2> QED  BY <2>1, <2>2, <2>3, <2>4 DEF Poll
<1> QED  BY <1>1, <1>2, <1>3, OutsideCreation

LEMMA OverlaysOfLeaving ==
  ASSUME OverlayInv, Unwind \/ Join
  PROVE  OverlayInv'
<1> USE DEF GoTo, Creating, WithOverlays, Looping
<1>1. CASE Unwind
  <2>1. /\ overlays' = << >> /\ at' = at /\ main' = "joining"
        /\ UNCHANGED displayVars
    BY <1>1 DEF Unwind
  <2>2. DOMAIN overlays' = {} /\ overlays' = [i \in {} |-> overlays'[i]]
    BY <2>1
  <2>3. Shaped'
    BY <2>2 DEF Shaped
  <2>4. MadeInOrder' /\ Configured'
    BY <2>1, <2>2 DEF MadeInOrder, Configured
  <2> QED  BY <2>1, <2>3, <2>4 DEF OverlayInv, KnownMonitors, displayVars
<1>2. CASE Join
  BY <1>2, SameIsKept, OutsideCreation DEF Join, OverlayInv, KnownMonitors, waylandVars
<1> QED  BY <1>1, <1>2

LEMMA OverlaysOfDesktop ==
  ASSUME OverlayInv, Desktop
  PROVE  OverlayInv'
<1>1. UNCHANGED <<overlays, displayVars, at, main>>
  BY DEF Desktop, Presents, Present, Closes, CloseSurface, Describes, Describe, Lists,
         ScreensChange, Plug, Unplug, Disconnect, ShellChanges, mainVars, waylandVars, displayVars
<1> QED  BY <1>1, OverlaysLeftAlone

LEMMA OverlaysOfTheRest ==
  ASSUME OverlayInv,
         \/ BusThread \/ Signal \/ Rest \/ UNCHANGED vars
         \/ \E command \in Commands : Send(command)
         \/ \E id \in MenuIds : Click(id)
  PROVE  OverlayInv'
<1>1. CASE Signal
  <2>1. overlays' = overlays /\ at' = at /\ UNCHANGED displayVars
    BY <1>1 DEF Signal, waylandVars, displayVars
  <2>2. CASE main' = main
    BY <2>1, <2>2, OverlaysLeftAlone
  <2>3. CASE main' # main
    <3>1. main' \notin Creating /\ (main' \in WithOverlays => main \in WithOverlays)
      BY <1>1, <2>3 DEF Signal, GoTo, Throw, Creating, WithOverlays, Looping
    <3>2. Kept /\ KnownMonitors'
      BY <2>1, SameIsKept DEF OverlayInv, KnownMonitors, displayVars
    <3> QED  BY <2>1, <3>1, <3>2, OutsideCreation
  <2> QED  BY <2>2, <2>3
<1>2. CASE ~Signal
  <2>1. UNCHANGED <<overlays, displayVars, at, main>>
    BY <1>2 DEF BusThread, RunCommand, Rest, Send, Click, mainVars, waylandVars, displayVars, vars
  <2> QED  BY <2>1, OverlaysLeftAlone
<1> QED  BY <1>1, <1>2

\* Monitors may go while their overlays are being made, and outputs_ be made anew between
\* two of them: each overlay that is drawn on was configured all the same, and the loop
\* never starts without a first one to wait for.
THEOREM DrawnOnlyAsConfigured == Spec => []MappedOnlyAsConfigured
<1>1. Init => OverlayInv
  <2> SUFFICES ASSUME Init
               PROVE  OverlayInv
    OBVIOUS
  <2>1. /\ overlays = << >> /\ main = "connecting" /\ at = 0
        /\ monitors = {} /\ described = {} /\ outputs = {}
    BY DEF Init, WaylandInit
  <2>2. DOMAIN overlays = {} /\ overlays = [i \in {} |-> overlays[i]]
    BY <2>1
  <2>3. Shaped /\ Configured
    BY <2>2 DEF Shaped, Configured
  <2>4. MadeInOrder
    BY <2>1 DEF MadeInOrder, Creating, WithOverlays, Looping
  <2> QED  BY <2>1, <2>3, <2>4 DEF OverlayInv, KnownMonitors
<1>2. OverlayInv /\ [Next]_vars => OverlayInv'
  BY OverlaysOfStarting, OverlaysOfSizing, OverlaysOfNext, OverlaysOfConfigure,
     OverlaysOfMapping, OverlaysOfLoop, OverlaysOfLeaving, OverlaysOfDesktop,
     OverlaysOfTheRest
  DEF Next, MainThread
<1>3. OverlayInv => MappedOnlyAsConfigured
  <2> SUFFICES ASSUME OverlayInv
               PROVE  MappedOnlyAsConfigured
    OBVIOUS
  <2>1. \A i \in DOMAIN overlays : overlays[i].mapped => overlays[i].configured
    BY DEF OverlayInv, Configured
  <2>2. main \in Looping => 1 \in DOMAIN overlays /\ overlays[1].mapped
    BY DEF OverlayInv, MadeInOrder, WithOverlays
  <2>3. 1 \in DOMAIN overlays => overlays # << >>
    OBVIOUS
  <2> QED  BY <2>1, <2>2, <2>3 DEF MappedOnlyAsConfigured
<1> QED  BY <1>1, <1>2, <1>3, PTL DEF Spec

-----------------------------------------------------------------------------
(* The icon *)

\* Where the main thread has asked the watcher, if there was one.
HasAsked == {"asking", "sizing", "creating", "configuring", "mapping", "loading"} \cup Looping

Owners == {"appeared", "replaced"}

\* A new owner of the watcher's name has been reported, and the thread has not seen it.
OwnerIsNoted == \E i \in DOMAIN inbox : inbox[i] \in Owners

\* The watcher there is has been asked, or somebody is about to ask it.
IsToBeListed ==
  \/ OwnerIsNoted
  \/ call["worker"] = "sent"
  \/ main = "asking" /\ call["main"] = "sent"

IconInv ==
  /\ inbox \in Seq(Messages)
  /\ DOMAIN call = Threads
  /\ main \in {"registering"} \cup HasAsked => published
  /\ main \in HasAsked /\ watcher /\ ~listed => IsToBeListed

LEMMA Queued ==
  ASSUME inbox \in Seq(Messages), NEW message \in Messages, inbox' = Append(inbox, message)
  PROVE  /\ inbox' \in Seq(Messages)
         /\ OwnerIsNoted \/ message \in Owners => OwnerIsNoted'
<1>1. /\ DOMAIN inbox' = 1 .. Len(inbox) + 1 /\ Len(inbox) + 1 \in DOMAIN inbox'
      /\ inbox'[Len(inbox) + 1] = message
      /\ \A i \in DOMAIN inbox : i \in DOMAIN inbox' /\ inbox'[i] = inbox[i]
  OBVIOUS
<1>2. inbox' \in Seq(Messages)
  OBVIOUS
<1> QED  BY <1>1, <1>2 DEF OwnerIsNoted

LEMMA TakenOff ==
  ASSUME inbox \in Seq(Messages), NEW message, Take(message)
  PROVE  /\ inbox' \in Seq(Messages)
         /\ OwnerIsNoted /\ message \notin Owners => OwnerIsNoted'
<1>1. inbox # << >> /\ Head(inbox) = message /\ inbox' = Tail(inbox)
  BY DEF Take
<1>2. inbox' \in Seq(Messages) /\ inbox[1] = message
  BY <1>1
<1>3. ASSUME NEW i \in DOMAIN inbox, i # 1
      PROVE  i - 1 \in DOMAIN inbox' /\ inbox'[i - 1] = inbox[i]
  BY <1>1, <1>3
<1> QED  BY <1>2, <1>3 DEF OwnerIsNoted

\* Whoever does nothing on the bus and does not go on to where the icon matters.
LEMMA IconLeftAlone ==
  ASSUME IconInv, UNCHANGED <<published, inbox, watcher, listed, call>>,
         main' \in HasAsked => main \in HasAsked /\ (main = "asking" => main' = "asking"),
         main' # "registering" \/ main = "registering"
  PROVE  IconInv'
BY DEF IconInv, IsToBeListed, OwnerIsNoted, HasAsked

\* The main thread's own call is answered by the watcher it asked, or that one has gone
\* and its successor has been noted.
LEMMA IconOfMainThread ==
  ASSUME IconInv, MainThread
  PROVE  IconInv'
<1> USE DEF GoTo, Throw, HasAsked, Looping
<1>1. CASE Publish
  BY <1>1 DEF Publish, PublishAndStart, busVars, IconInv
<1>2. CASE RegisterItem
  <2>1. CASE main = "registering"
    <3>1. /\ main' = "asking" /\ UNCHANGED <<published, inbox, watcher, listed>>
          /\ call' = [call EXCEPT !["main"] = IF watcher THEN "sent" ELSE "returned"]
      BY <1>2, <2>1 DEF RegisterItem, Register
    <3>2. DOMAIN call' = Threads /\ (watcher => call'["main"] = "sent")
      BY <3>1 DEF IconInv, Threads
    <3> QED  BY <2>1, <3>1, <3>2 DEF IconInv, IsToBeListed
  <2>2. CASE main = "asking"
    <3>1. /\ main' = "sizing" /\ UNCHANGED <<published, inbox, watcher, listed>>
          /\ call["main"] = "returned" /\ call' = [call EXCEPT !["main"] = "none"]
      BY <1>2, <2>2 DEF RegisterItem, Registered
    <3>2. DOMAIN call' = Threads /\ call'["worker"] = call["worker"]
      BY <3>1 DEF IconInv, Threads
    <3> QED  BY <2>2, <3>1, <3>2 DEF IconInv, IsToBeListed, OwnerIsNoted
  <2> QED  BY <1>2, <2>1, <2>2 DEF RegisterItem
<1>3. CASE Join
  <2>1. inbox' = << >> /\ main' = "ended" /\ call' = call
    BY <1>3 DEF Join
  <2>2. inbox' \in Seq(Messages)
    BY <2>1
  <2> QED  BY <2>1, <2>2 DEF IconInv
<1>4. CASE Connect \/ Listen
  BY <1>4, IconLeftAlone DEF Connect, Listen, busVars
<1>5. CASE SizeOverlays \/ NextOverlay
  BY <1>5, IconLeftAlone DEF SizeOverlays, NextOverlay, busVars
<1>6. CASE AwaitConfigure \/ MapOverlay \/ LoadPacks
  BY <1>6, IconLeftAlone DEF AwaitConfigure, MapOverlay, LoadPacks, busVars
<1>7. CASE CheckStop \/ Wake \/ AskForFrame \/ Poll \/ Draw
  BY <1>7, IconLeftAlone DEF CheckStop, Wake, AskForFrame, Poll, Draw, busVars
<1>8. CASE Unwind
  BY <1>8, IconLeftAlone DEF Unwind
<1> QED  BY <1>1, <1>2, <1>3, <1>4, <1>5, <1>6, <1>7, <1>8 DEF MainThread

\* The bus thread asks whoever it is told of, and is told by nothing else.
LEMMA IconOfBusThread ==
  ASSUME IconInv, BusThread
  PROVE  IconInv'
<1>1. main' = main
  BY DEF BusThread, RunCommand, mainVars
<1>2. inbox \in Seq(Messages) /\ DOMAIN call = Threads
  BY DEF IconInv
<1>3. ASSUME NEW message \in Messages \ Notes, RunCommand(message)
      PROVE  IconInv'
  <2>1. Take(message) /\ message \notin Owners
    BY <1>3 DEF RunCommand, Notes, Owners
  <2>2. inbox' \in Seq(Messages) /\ (OwnerIsNoted => OwnerIsNoted')
    BY <1>2, <2>1, TakenOff
  <2> QED  BY <1>1, <1>3, <2>2 DEF RunCommand, IconInv, IsToBeListed
<1>4. CASE WatcherNoted
  <2>1. CASE Take("gone") /\ UNCHANGED call
    <3>1. inbox' \in Seq(Messages) /\ (OwnerIsNoted => OwnerIsNoted')
      BY <1>2, <2>1, TakenOff DEF Owners
    <3> QED  BY <1>1, <1>4, <2>1, <3>1 DEF WatcherNoted, IconInv, IsToBeListed
  <2>2. CASE (Take("appeared") \/ Take("replaced")) /\ Register("worker")
    <3>1. inbox' \in Seq(Messages)
      BY <1>2, <2>2, TakenOff
    <3>2. DOMAIN call' = Threads /\ (watcher => call'["worker"] = "sent")
      BY <1>2, <2>2 DEF Register, Threads
    <3> QED  BY <1>1, <1>4, <3>1, <3>2 DEF WatcherNoted, IconInv, IsToBeListed
  <2> QED  BY <1>4, <2>1, <2>2 DEF WatcherNoted
<1>5. CASE WatcherTold
  <2>1. call["worker"] = "returned" /\ call' = [call EXCEPT !["worker"] = "none"]
    BY <1>5 DEF WatcherTold, Registered
  <2>2. DOMAIN call' = Threads /\ call'["main"] = call["main"]
    BY <1>2, <2>1 DEF Threads
  <2> QED  BY <1>1, <1>5, <2>1, <2>2 DEF WatcherTold, IconInv, IsToBeListed, OwnerIsNoted
<1>6. CASE WorkerStops
  BY <1>1, <1>6 DEF WorkerStops, IconInv, IsToBeListed, OwnerIsNoted
<1> QED  BY <1>3, <1>4, <1>5, <1>6 DEF BusThread

\* A watcher that comes is noted, and one that goes is not asked any more.
LEMMA IconOfTheShell ==
  ASSUME IconInv, ShellChanges \/ \E t \in Threads : Lists(t)
  PROVE  IconInv'
<1>1. main' = main /\ published' = published
  BY DEF ShellChanges, Lists, WatcherLists, WatcherAppears, WatcherLeaves, WatcherReplaced,
         mainVars
<1>2. inbox \in Seq(Messages) /\ DOMAIN call = Threads
  BY DEF IconInv
<1>3. ASSUME NEW note \in Notes, Notify(note)
      PROVE  /\ inbox' \in Seq(Messages)
             /\ published /\ note \in Owners => OwnerIsNoted'
  <2>1. note \in Messages
    BY DEF Messages
  <2> QED  BY <1>2, <1>3, <2>1, Queued DEF Notify, Deliver
<1>4. CASE WatcherAppears
  <2>1. Notify("appeared") /\ UNCHANGED <<listed, call>>
    BY <1>4 DEF WatcherAppears
  <2> QED  BY <1>1, <1>2, <1>3, <2>1 DEF IconInv, IsToBeListed, Notes, Owners
<1>5. CASE WatcherLeaves
  <2>1. Notify("gone") /\ watcher' = FALSE /\ DOMAIN call' = Threads
    BY <1>5 DEF WatcherLeaves, Unanswered
  <2> QED  BY <1>1, <1>3, <2>1 DEF IconInv, Notes
<1>6. CASE WatcherReplaced
  <2>1. Notify("replaced") /\ DOMAIN call' = Threads
    BY <1>6 DEF WatcherReplaced, Unanswered
  <2> QED  BY <1>1, <1>3, <2>1 DEF IconInv, IsToBeListed, Notes, Owners
<1>7. CASE \E t \in Threads : Lists(t)
  <2>1. listed' = TRUE /\ DOMAIN call' = Threads /\ inbox' = inbox
    BY <1>2, <1>7 DEF Lists, WatcherLists
  <2> QED  BY <1>1, <2>1 DEF IconInv
<1> QED  BY <1>4, <1>5, <1>6, <1>7 DEF ShellChanges

LEMMA IconOfTheRest ==
  ASSUME IconInv,
         \/ Presents \/ Signal \/ Rest \/ ScreensChange \/ UNCHANGED vars
         \/ \E i \in DOMAIN overlays : Closes(i)
         \/ \E o \in Outputs : Describes(o)
         \/ \E command \in Commands : Send(command)
         \/ \E id \in MenuIds : Click(id)
  PROVE  IconInv'
<1>1. CASE Signal
  BY <1>1, IconLeftAlone DEF Signal, GoTo, Throw, busVars, HasAsked, Looping
<1>2. ASSUME NEW message \in Messages, Send(message)
      PROVE  IconInv'
  <2>1. /\ inbox' = Append(inbox, message)
        /\ UNCHANGED <<published, watcher, listed, call, main>>
    BY <1>2 DEF Send, Deliver, mainVars
  <2>2. inbox' \in Seq(Messages) /\ (OwnerIsNoted => OwnerIsNoted')
    BY <2>1, Queued DEF IconInv
  <2> QED  BY <2>1, <2>2 DEF IconInv, IsToBeListed
<1>3. CASE \E command \in Commands : Send(command)
  BY <1>2, <1>3 DEF Messages
<1>4. ASSUME NEW id \in MenuIds, Click(id)
      PROVE  IconInv'
  <2>1. Clicked(id) \in Messages
    BY DEF Clicked, Messages, Commands
  <2> QED  BY <1>2, <1>4, <2>1 DEF Click
<1>5. CASE \/ Presents \/ Rest \/ ScreensChange \/ UNCHANGED vars
           \/ \E i \in DOMAIN overlays : Closes(i)
           \/ \E o \in Outputs : Describes(o)
  <2>1. UNCHANGED <<busVars, main>>
    BY <1>5 DEF Presents, Rest, ScreensChange, Closes, Describes, vars, mainVars
  <2> QED  BY <2>1, IconLeftAlone DEF busVars
<1> QED  BY <1>1, <1>3, <1>4, <1>5

\* Whichever watcher there is while the loop runs, and however the shell starts, ends and
\* is replaced while the icon is being registered: if that watcher does not know the icon,
\* it has been asked to list it, or the bus thread has yet to read that it is there.
THEOREM IconIsNeverForgotten ==
  Spec => [](main \in Looping /\ watcher /\ ~listed => OwnerIsNoted \/ call["worker"] = "sent")
<1>1. Init => IconInv
  <2> SUFFICES ASSUME Init
               PROVE  IconInv
    OBVIOUS
  <2>1. inbox = << >> /\ main = "connecting" /\ DOMAIN call = Threads
    BY DEF Init, BusInit
  <2>2. inbox \in Seq(Messages)
    BY <2>1
  <2> QED  BY <2>1, <2>2 DEF IconInv, HasAsked, Looping
<1>2. IconInv /\ [Next]_vars => IconInv'
  BY IconOfMainThread, IconOfBusThread, IconOfTheShell, IconOfTheRest DEF Next, Desktop
<1>3. IconInv => (main \in Looping /\ watcher /\ ~listed
                    => OwnerIsNoted \/ call["worker"] = "sent")
  BY DEF IconInv, IsToBeListed, HasAsked, Looping
<1> QED  BY <1>1, <1>2, <1>3, PTL DEF Spec
=============================================================================
