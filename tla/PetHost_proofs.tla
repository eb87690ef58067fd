--------------------------- MODULE PetHost_proofs ---------------------------
(***************************************************************************)
(* What PetHost promises, for any number of snapshots.                     *)
(***************************************************************************)
EXTENDS PetHost, TLAPS

Before == {"starting", "reading", "installing"}
Running == {"checking", "sleeping", "waiting", "taking", "updating", "clearing"}
After == {"leaving", "gone"}

\* Where the two threads are, and how many snapshots there were.
PlacesOK ==
  /\ loop \in Before \cup Running \cup After
  /\ at \in [{Loop, Publisher} -> Slot!SetterAt \cup Slot!CallerAt]
  /\ at[Loop] \in Slot!SetterAt
  /\ at[Publisher] \in Slot!CallerAt

VersionsOK ==
  /\ {current, carried, pending, world, handed} \subseteq Nat
  /\ has_pending \in BOOLEAN

\* One caller: the count is 1 while it is in a call, and nothing else.
Counts == in_flight = IF InCall THEN 1 ELSE 0

\* The handler is there from the installation to the clearing, and the loop waits
\* for the caller only while it leaves.
Installed ==
  /\ handler = IF loop \in Running THEN Host ELSE None
  /\ at[Loop] = "out" <=> loop # "leaving"

\* Before the installation nobody was called, and after the end nobody is.
QuietOutside ==
  /\ loop \in Before => at[Publisher] = "out" /\ handed = 0
  /\ loop = "gone" => ~InCall

\* A call carries the newest snapshot, since there is none newer before it returns.
Carrying ==
  /\ carried \in {0, current}
  /\ carried = 0 => at[Publisher] = "out"

\* What is pending is what was handed over last, and nothing is newer than what the
\* provider has or older than what the simulation has.
Ordered ==
  /\ pending = handed
  /\ ~has_pending \/ handed # 0
  /\ world <= current
  /\ handed # 0 => world <= handed
  /\ handed <= current

\* What the simulation has or is about to be given.
Newest == IF has_pending THEN pending ELSE world

CaughtUp ==
  handed # 0 /\ loop \notin After /\ (carried = 0 \/ at[Publisher] \in {"inside", "notifying"})
    => Newest = current

IInv ==
  /\ PlacesOK /\ VersionsOK /\ Counts /\ Installed /\ QuietOutside
  /\ Carrying /\ Ordered /\ CaughtUp

-----------------------------------------------------------------------------
LEMMA InitIInv == Init => IInv
<1> SUFFICES ASSUME Init PROVE IInv
  OBVIOUS
<1> USE HostAssumption DEF Init, Slot!Init
<1>1. at = [t \in {Loop, Publisher} |-> "out"]
  OBVIOUS
<1>2. PlacesOK /\ VersionsOK
  <2>1. loop \in Before /\ \A t \in {Loop, Publisher} : at[t] \in Slot!SetterAt \cap Slot!CallerAt
    BY <1>1 DEF Before, Slot!SetterAt, Slot!CallerAt
  <2>2. PlacesOK
    BY <1>1, <2>1 DEF PlacesOK
  <2>3. VersionsOK
    <3>1. current \in Nat /\ carried = 0 /\ pending = 0 /\ world = 0 /\ handed = 0
      OBVIOUS
    <3>2. has_pending \in BOOLEAN
      OBVIOUS
    <3> QED
      BY <3>1, <3>2 DEF VersionsOK
  <2> QED
    BY <2>2, <2>3
<1>3. Counts /\ Installed /\ QuietOutside
  BY <1>1 DEF Counts, Installed, QuietOutside, InCall, Before, Running
<1>4. Carrying /\ Ordered /\ CaughtUp
  BY <1>1 DEF Carrying, Ordered, CaughtUp
<1> QED
  BY <1>2, <1>3, <1>4 DEF IInv

\* The steps of the provider's thread.
LEMMA PublishIInv == IInv /\ Publish => IInv'
<1> SUFFICES ASSUME IInv, Publish PROVE IInv'
  OBVIOUS
<1>1. PlacesOK' /\ VersionsOK' /\ Counts' /\ Installed' /\ QuietOutside'
  BY DEF Publish, IInv, PlacesOK, VersionsOK, Counts, Installed, QuietOutside, InCall,
         slotVars, mailVars
<1>2. Carrying' /\ Ordered' /\ CaughtUp'
  BY DEF Publish, IInv, VersionsOK, Carrying, Ordered, CaughtUp, slotVars, mailVars
<1> QED
  BY <1>1, <1>2 DEF IInv

LEMMA CallNobodyIInv == IInv /\ CallNobody => IInv'
<1> SUFFICES ASSUME IInv, CallNobody PROVE IInv'
  OBVIOUS
<1> USE DEF CallNobody, Slot!CallNobody, Slot!slotVars, mailVars
<1>1. PlacesOK' /\ VersionsOK' /\ Counts' /\ Installed' /\ QuietOutside'
  BY DEF IInv, PlacesOK, VersionsOK, Counts, Installed, QuietOutside, InCall
<1>2. Carrying' /\ Ordered'
  BY DEF IInv, Carrying, Ordered
<1>3. handed # 0 => loop \in After
  BY HostAssumption DEF IInv, PlacesOK, Installed, QuietOutside
<1>4. CaughtUp'
  BY <1>3 DEF CaughtUp
<1> QED
  BY <1>1, <1>2, <1>4 DEF IInv

LEMMA BeginCallIInv == IInv /\ BeginCall => IInv'
<1> SUFFICES ASSUME IInv, BeginCall PROVE IInv'
  OBVIOUS
<1> USE HostAssumption
        DEF BeginCall, Slot!BeginCall, Slot!Go, hostVars, IInv, PlacesOK
<1>1. loop \in Running
  BY DEF Installed
<1>2. at'[Publisher] = "copied" /\ at'[Loop] = at[Loop] /\ PlacesOK'
  BY DEF Slot!SetterAt, Slot!CallerAt
<1>3. VersionsOK' /\ Carrying' /\ Ordered' /\ CaughtUp'
  BY <1>2 DEF VersionsOK, Carrying, Ordered, CaughtUp, Newest
<1>4. Counts' /\ Installed' /\ QuietOutside'
  BY <1>1, <1>2 DEF Counts, Installed, QuietOutside, InCall, Before, Running, After
<1> QED
  BY <1>2, <1>3, <1>4

LEMMA HandOverIInv == IInv /\ HandOver => IInv'
<1> SUFFICES ASSUME IInv, HandOver PROVE IInv'
  OBVIOUS
<1> USE HostAssumption DEF HandOver, Slot!Invoke, Slot!Go, IInv, PlacesOK
<1>1. at'[Publisher] = "inside" /\ at'[Loop] = at[Loop] /\ PlacesOK'
  BY DEF Slot!SetterAt, Slot!CallerAt
<1>2. carried = current /\ carried # 0
  BY DEF Carrying
<1>3. VersionsOK' /\ Carrying' /\ Ordered' /\ CaughtUp'
  BY <1>1, <1>2 DEF VersionsOK, Carrying, Ordered, CaughtUp, Newest
<1>4. Counts' /\ Installed' /\ QuietOutside'
  BY <1>1 DEF Counts, Installed, QuietOutside, InCall, Before, Running, After
<1> QED
  BY <1>1, <1>3, <1>4

LEMMA EndCallIInv == IInv /\ EndCall => IInv'
<1> SUFFICES ASSUME IInv, EndCall PROVE IInv'
  OBVIOUS
<1> USE HostAssumption DEF EndCall, Slot!EndCall, Slot!Go, hostVars, IInv, PlacesOK
<1>1. at'[Publisher] = "notifying" /\ at'[Loop] = at[Loop] /\ PlacesOK'
  BY DEF Slot!SetterAt, Slot!CallerAt
<1>2. carried # 0
  BY DEF Carrying
<1>3. VersionsOK' /\ Carrying' /\ Ordered' /\ CaughtUp'
  BY <1>1, <1>2 DEF VersionsOK, Carrying, Ordered, CaughtUp, Newest
<1>4. Counts' /\ Installed' /\ QuietOutside'
  BY <1>1 DEF Counts, Installed, QuietOutside, InCall, Before, Running, After
<1> QED
  BY <1>1, <1>3, <1>4

LEMMA NotifyAllIInv == IInv /\ NotifyAll => IInv'
<1> SUFFICES ASSUME IInv, NotifyAll PROVE IInv'
  OBVIOUS
<1> USE HostAssumption DEF NotifyAll, Slot!NotifyAll, mailVars, IInv, PlacesOK
<1>1. /\ at[Publisher] = "notifying"
      /\ at'[Publisher] = "out"
      /\ at'[Loop] = "out" <=> at[Loop] = "out"
      /\ PlacesOK'
  BY DEF Slot!SetterAt, Slot!CallerAt
<1>2. VersionsOK' /\ Carrying' /\ Ordered' /\ CaughtUp'
  BY <1>1 DEF VersionsOK, Carrying, Ordered, CaughtUp, Newest
<1>3. Counts' /\ Installed' /\ QuietOutside'
  BY <1>1 DEF Counts, Installed, QuietOutside, InCall, Before, Running, After
<1> QED
  BY <1>1, <1>2, <1>3

-----------------------------------------------------------------------------
\* The steps of the loop's thread.
LEMMA StartIInv == IInv /\ Start => IInv'
<1> SUFFICES ASSUME IInv, Start PROVE IInv'
  OBVIOUS
<1> USE DEF Start, GoTo, slotVars, mailVars, IInv, PlacesOK
<1>1. PlacesOK' /\ VersionsOK' /\ Counts' /\ Installed' /\ QuietOutside'
  BY DEF VersionsOK, Counts, Installed, QuietOutside, InCall, Before, Running, After
<1>2. Carrying' /\ Ordered' /\ CaughtUp'
  BY DEF VersionsOK, Carrying, Ordered, CaughtUp, QuietOutside, Before
<1> QED
  BY <1>1, <1>2

LEMMA ReadCurrentIInv == IInv /\ ReadCurrent => IInv'
<1> SUFFICES ASSUME IInv, ReadCurrent PROVE IInv'
  OBVIOUS
<1> USE DEF ReadCurrent, GoTo, slotVars, mailVars, IInv, PlacesOK
<1>1. PlacesOK' /\ VersionsOK' /\ Counts' /\ Installed' /\ QuietOutside'
  BY DEF VersionsOK, Counts, Installed, QuietOutside, InCall, Before, Running, After
<1>2. Carrying' /\ Ordered' /\ CaughtUp'
  BY DEF VersionsOK, Carrying, Ordered, CaughtUp, QuietOutside, Before
<1> QED
  BY <1>1, <1>2

\* Nothing is in flight, so that the installation does not wait.
LEMMA InstallIInv == IInv /\ Install => IInv'
<1> SUFFICES ASSUME IInv, Install PROVE IInv'
  OBVIOUS
<1> USE HostAssumption DEF Install, Slot!Set, GoTo, mailVars, IInv, PlacesOK
<1>1. at[Publisher] = "out" /\ handed = 0
  BY DEF QuietOutside, Before
<1>2. handler' = Host /\ at' = at /\ UNCHANGED in_flight
  BY <1>1 DEF Counts, InCall
<1>3. PlacesOK' /\ VersionsOK' /\ Counts' /\ Installed' /\ QuietOutside'
  BY <1>1, <1>2 DEF VersionsOK, Counts, Installed, QuietOutside, InCall, Before, Running, After
<1>4. Carrying' /\ Ordered' /\ CaughtUp'
  BY <1>1, <1>2 DEF VersionsOK, Carrying, Ordered, CaughtUp
<1> QED
  BY <1>3, <1>4

LEMMA TakePendingIInv == IInv /\ TakePending => IInv'
<1> SUFFICES ASSUME IInv, TakePending PROVE IInv'
  OBVIOUS
<1> USE DEF TakePending, GoTo, slotVars, IInv, PlacesOK
<1>1. PlacesOK' /\ VersionsOK' /\ Counts' /\ Installed' /\ QuietOutside'
  BY DEF VersionsOK, Counts, Installed, QuietOutside, InCall, Before, Running, After
<1>2. Newest' = Newest
  BY DEF Newest
<1>3. Carrying' /\ Ordered' /\ CaughtUp'
  BY <1>2 DEF VersionsOK, Carrying, Ordered, CaughtUp, Running, After
<1> QED
  BY <1>1, <1>3

\* Clearing waits for a caller that is in a call.
LEMMA ClearIInv == IInv /\ Clear => IInv'
<1> SUFFICES ASSUME IInv, Clear PROVE IInv'
  OBVIOUS
<1> USE HostAssumption DEF Clear, Slot!Set, Slot!Go, GoTo, mailVars, IInv, PlacesOK
<1>1. at'[Publisher] = at[Publisher] /\ handler' = None /\ UNCHANGED in_flight
  OBVIOUS
<1>2. /\ at'[Loop] = "out" <=> loop' # "leaving"
      /\ loop' \in After
      /\ loop' = "gone" => ~InCall
      /\ PlacesOK'
  BY DEF Counts, InCall, After, Slot!SetterAt, Slot!CallerAt, Installed
<1>3. Counts' /\ Installed' /\ QuietOutside'
  BY <1>1, <1>2 DEF Counts, Installed, QuietOutside, InCall, Before, Running, After
<1>4. VersionsOK' /\ Carrying' /\ Ordered' /\ CaughtUp'
  BY <1>1, <1>2 DEF VersionsOK, Carrying, Ordered, CaughtUp
<1> QED
  BY <1>2, <1>3, <1>4

LEMMA LeaveIInv == IInv /\ Leave => IInv'
<1> SUFFICES ASSUME IInv, Leave PROVE IInv'
  OBVIOUS
<1> USE HostAssumption DEF Leave, Slot!Recheck, Slot!Go, GoTo, mailVars, IInv, PlacesOK
<1>1. at'[Publisher] = at[Publisher] /\ UNCHANGED <<handler, in_flight>>
  OBVIOUS
<1>2. /\ at'[Loop] = "out" <=> loop' # "leaving"
      /\ loop' \in After
      /\ loop' = "gone" => ~InCall
      /\ PlacesOK'
  BY DEF Counts, InCall, After, Slot!SetterAt, Slot!CallerAt
<1>3. Counts' /\ Installed' /\ QuietOutside'
  BY <1>1, <1>2 DEF Counts, Installed, QuietOutside, InCall, Before, Running, After
<1>4. VersionsOK' /\ Carrying' /\ Ordered' /\ CaughtUp'
  BY <1>1, <1>2 DEF VersionsOK, Carrying, Ordered, CaughtUp
<1> QED
  BY <1>2, <1>3, <1>4

LEMMA SpuriousWakeIInv == IInv /\ SpuriousWake => IInv'
<1> SUFFICES ASSUME IInv, SpuriousWake PROVE IInv'
  OBVIOUS
<1> USE HostAssumption DEF SpuriousWake, Slot!SpuriousWake, Slot!Go, hostVars, IInv, PlacesOK
<1>1. /\ at'[Publisher] = at[Publisher]
      /\ at'[Loop] = "woken" /\ at[Loop] = "waiting"
      /\ PlacesOK'
  BY DEF Slot!SetterAt, Slot!CallerAt
<1>2. VersionsOK' /\ Counts' /\ Installed' /\ QuietOutside'
  BY <1>1 DEF VersionsOK, Counts, Installed, QuietOutside, InCall
<1>3. Carrying' /\ Ordered' /\ CaughtUp'
  BY <1>1 DEF Carrying, Ordered, CaughtUp, Newest
<1> QED
  BY <1>1, <1>2, <1>3

\* A step inside the loop that touches neither the slot nor a snapshot.
LEMMA TurnIInv ==
  ASSUME IInv, loop \in Running, loop' \in Running,
         UNCHANGED <<slotVars, mailVars, current, carried, world>>
  PROVE  IInv'
<1> USE DEF slotVars, mailVars, IInv
<1>1. PlacesOK' /\ VersionsOK' /\ Counts' /\ Installed' /\ QuietOutside'
  BY DEF PlacesOK, VersionsOK, Counts, Installed, QuietOutside, InCall, Before, Running, After
<1>2. Carrying' /\ Ordered' /\ CaughtUp'
  BY DEF Carrying, Ordered, CaughtUp, Newest, Running, After
<1> QED
  BY <1>1, <1>2

\* Pausing, asking for a stop and standing still.
LEMMA OutsideIInv ==
  ASSUME IInv, UNCHANGED <<slotVars, mailVars, current, carried, world, loop>>
  PROVE  IInv'
BY DEF slotVars, mailVars, IInv, PlacesOK, VersionsOK, Counts, Installed, QuietOutside,
       InCall, Carrying, Ordered, CaughtUp, Newest

\* IInv holds at the start and every step of either thread keeps it.
THEOREM InductiveInvariant == Spec => []IInv
<1>1. Init => IInv
  BY InitIInv
<1>2. IInv /\ [Next]_vars => IInv'
  <2> SUFFICES ASSUME IInv, [Next]_vars PROVE IInv'
    OBVIOUS
  <2>1. CASE Publish \/ Publishing
    BY <2>1, PublishIInv, CallNobodyIInv, BeginCallIInv, HandOverIInv, EndCallIInv,
       NotifyAllIInv DEF Publishing, InsideHandler
  <2>2. CASE LoopStep
    <3>1. CASE CheckStop \/ WakeFromPause \/ FrameArrives \/ UpdateAndRender
      BY <3>1, TurnIInv DEF CheckStop, WakeFromPause, FrameArrives, UpdateAndRender, GoTo, Running
    <3> QED
      BY <2>2, <3>1, StartIInv, ReadCurrentIInv, InstallIInv, TakePendingIInv, ClearIInv,
         LeaveIInv DEF LoopStep
  <2>3. CASE Throw
    BY <2>3, TurnIInv DEF Throw, GoTo, Running
  <2>4. CASE SpuriousWake
    BY <2>4, SpuriousWakeIInv
  <2>5. CASE (\E p \in BOOLEAN : SetPaused(p)) \/ RequestStop \/ Finished \/ UNCHANGED vars
    BY <2>5, OutsideIInv DEF SetPaused, RequestStop, Finished, vars, hostVars, mailVars
  <2> QED
    BY <2>1, <2>2, <2>3, <2>4, <2>5 DEF Next
<1> QED
  BY <1>1, <1>2, PTL DEF Spec

\* Once run is left, by return or by exception, the provider's thread is neither inside
\* the handler nor about to call it (host.cpp:33-40).
THEOREM DeadHostIsQuiet == Spec => []NoCallIntoADeadHost
<1>1. IInv => NoCallIntoADeadHost
  BY DEF IInv, QuietOutside, NoCallIntoADeadHost
<1> QED
  BY <1>1, InductiveInvariant, PTL

\* What the start missed is made up for by the first snapshot that is handed over
\* (host.cpp:22-31): from then on the simulation has the provider's world, whenever nothing
\* is on its way.
THEOREM FirstHandoverCatchesUp == Spec => []CaughtUpAfterFirstHandover
<1>1. IInv => CaughtUpAfterFirstHandover
  BY DEF IInv, CaughtUp, Newest, After, CaughtUpAfterFirstHandover
<1> QED
  BY <1>1, InductiveInvariant, PTL

\* No step gives the simulation an older world than it has (host.cpp:22, 57-63): neither
\* the read at the start nor what was pending from before.
THEOREM NeverAnOlderWorld == Spec => WorldNeverGoesBack
<1>1. IInv /\ [Next]_vars => [world' >= world]_vars
  <2> SUFFICES ASSUME IInv, Next PROVE world' >= world
    BY DEF vars
  <2>1. CASE ReadCurrent
    BY <2>1 DEF ReadCurrent, IInv, VersionsOK, Ordered
  <2>2. CASE TakePending
    BY <2>2 DEF TakePending, IInv, VersionsOK, Ordered
  <2>3. CASE UNCHANGED world
    BY <2>3 DEF IInv, VersionsOK
  <2>4. ReadCurrent \/ TakePending \/ UNCHANGED world
    BY DEF Next, Publish, Publishing, InsideHandler, CallNobody, BeginCall, HandOver, EndCall,
           NotifyAll, LoopStep, Start, Install, CheckStop, WakeFromPause, FrameArrives,
           UpdateAndRender, Clear, Leave, Throw, SpuriousWake, SetPaused, RequestStop,
           Finished, vars, hostVars
  <2> QED
    BY <2>1, <2>2, <2>3, <2>4
<1> QED
  BY <1>1, InductiveInvariant, PTL DEF Spec, WorldNeverGoesBack
=============================================================================
