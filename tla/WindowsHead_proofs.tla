------------------------- MODULE WindowsHead_proofs -------------------------
(***************************************************************************)
(* The two ends of the Windows daemon: where its worlds come from, and     *)
(* what of the pets is on the screen.                                      *)
(*                                                                         *)
(* WinEventWatcher, whatever the windows do and however many there are:    *)
(* it drops no notification, makes up for what was never notified with the *)
(* first one, publishes the way WorldProvider says, and its publish thread *)
(* does not sleep through the end.                                         *)
(*                                                                         *)
(* SpriteRenderer, whatever the monitors, the pets and the places their    *)
(* sprites may be: no pet is left behind on the screen.  The argument is   *)
(* the one the renderer's comments make: what may be on a surface lies     *)
(* within the last damage, unless the surface is owed a full draw; so      *)
(* clearing the last damage and this one, or all, clears all there was.    *)
(***************************************************************************)
EXTENDS WinEventWatcher, SpriteRenderer, TLAPS

-----------------------------------------------------------------------------
(* WinEventWatcher *)

Threads == {Owner, Pump, Publisher}

WatcherType ==
  /\ desktop \in [Windows -> Nat]
  /\ noticed \in [Windows -> Nat]
  /\ queued \in Nat
  /\ hooked \in BOOLEAN
  /\ dirty \in BOOLEAN
  /\ stopping \in BOOLEAN
  /\ version \in Nat
  /\ current.version \in Nat
  /\ number \in [{Owner, Publisher} -> Nat]
  /\ reading = [t \in {Owner, Publisher} |-> reading[t]]
  /\ at = [t \in Threads |-> at[t]]

\* Where start has not made the threads yet.
Starting == {"made", "scanning", "storing", "calling", "spawning"}

\* The first snapshot has been stored.
Primed == at[Owner] \notin {"made", "scanning", "storing"}

\* Who is where: the threads are made after the first snapshot, the hook is
\* installed after that, and the publish thread ends only when it is told to.
Order ==
  /\ at[Owner] \in Starting => /\ at[Pump] = "unborn"
                               /\ at[Publisher] = "unborn"
                               /\ ~stopping
  /\ at[Owner] = "running" => ~stopping
  /\ at[Pump] \in {"unborn", "born", "hooking"} =>
       ~hooked /\ \A w \in Windows : noticed[w] = 0
  /\ \A w \in Windows : noticed[w] <= desktop[w]
  /\ Primed => version > 0 /\ current.version > 0

\* What is being published: the version goes up a step before the snapshot does.
Numbers ==
  /\ at[Owner] \in {"made", "scanning"} => version = 0
  /\ at[Owner] = "storing" => version = 1
  /\ \A t \in {Owner, Publisher} :
       /\ at[t] = "storing" => number[t] = version /\ version = current.version + 1
       /\ at[t] = "calling" => number[t] = version
       /\ at[t] \notin {"storing", "calling"} => number[t] = 0
  /\ (at[Owner] # "storing" /\ at[Publisher] # "storing") => current.version = version

\* A thread publishes what it has read of every window.
Readings ==
  \A t \in {Owner, Publisher} :
    /\ DOMAIN reading[t] \subseteq Windows
    /\ reading[t] \in [DOMAIN reading[t] -> Nat]
    /\ at[t] = "storing" => DOMAIN reading[t] = Windows
    /\ at[t] \notin {"scanning", "storing", "calling"} => DOMAIN reading[t] = {}

\* A scan is yet to come, or one is under way that has not come to w.
ToBeRead(w) ==
  \/ queued > 0 \/ at[Pump] = "marking" \/ dirty
  \/ at[Publisher] \in {"woken", "sleeping"}
  \/ at[Publisher] = "scanning" /\ w \notin DOMAIN reading[Publisher]

HasRead(w) ==
  /\ at[Publisher] \in {"scanning", "storing"}
  /\ w \in DOMAIN reading[Publisher]

\* No notification is lost on its way from the queue to the snapshot.
NoticeNotLost ==
  ~stopping =>
    \A w \in Windows : noticed[w] > 0 =>
      \/ ToBeRead(w)
      \/ HasRead(w) /\ reading[Publisher][w] >= noticed[w]
      \/ w \in DOMAIN current.windows /\ current.windows[w] >= noticed[w]

\* Once anything was noticed, all of the desktop is in the snapshot or on its way.
AllOnTheirWay ==
  (~stopping /\ hooked /\ \E v \in Windows : noticed[v] > 0) =>
    \A w \in Windows :
      \/ ToBeRead(w)
      \/ HasRead(w) /\ reading[Publisher][w] = desktop[w]
      \/ w \in DOMAIN current.windows /\ current.windows[w] = desktop[w]

Whole == Primed => current.windows \in [Windows -> Nat]

\* A later reading of a window is never the older one.
Fresh ==
  /\ \A t \in {Owner, Publisher} : \A w \in DOMAIN reading[t] : reading[t][w] <= desktop[w]
  /\ Primed => \A w \in Windows : current.windows[w] <= desktop[w]
  /\ Primed => \A w \in DOMAIN reading[Publisher] :
                 current.windows[w] <= reading[Publisher][w]

WatcherInv == WatcherType /\ Order /\ Numbers /\ Readings /\ NoticeNotLost /\ AllOnTheirWay
        /\ Whole /\ Fresh

LEMMA NextWatcherInv == WatcherInv /\ [Next]_vars => WatcherInv'
<1> SUFFICES ASSUME WatcherInv, [Next]_vars PROVE WatcherInv'
  OBVIOUS
<1> USE DEF WatcherInv, Go, Owner, Pump, Publisher, Threads, deskVars, pumpVars, flagVars, snapVars, Primed
<1>1. CASE \E w \in Windows : Change(w)
  <2>1. WatcherType'
    BY <1>1 DEF WatcherType, Change
  <2>2. Order' /\ Numbers'
    BY <1>1 DEF WatcherType, Order, Starting, Numbers, Change
  <2>3. Readings' /\ Whole' /\ Fresh'
    BY <1>1 DEF WatcherType, Order, Starting, Numbers, Readings, Whole, Fresh, Nothing, Change
  <2>4. NoticeNotLost'
    BY <1>1 DEF WatcherType, Order, Starting, Readings, NoticeNotLost, ToBeRead, HasRead, Nothing, Change
  <2>5. AllOnTheirWay'
    BY <1>1 DEF WatcherType, Order, Starting, Readings, AllOnTheirWay, ToBeRead, HasRead, Nothing, Change
  <2> QED
    BY <2>1, <2>2, <2>3, <2>4, <2>5
<1>2. CASE \E t \in {Owner, Publisher}, w \in Windows : ScanWindow(t, w)
  <2>1. WatcherType'
    BY <1>2 DEF WatcherType, ScanWindow
  <2>2. Order' /\ Numbers'
    BY <1>2 DEF WatcherType, Order, Starting, Numbers, ScanWindow
  <2>3. Readings' /\ Whole' /\ Fresh'
    <3>1. Readings'
      BY <1>2 DEF WatcherType, Readings, Nothing, ScanWindow
    <3>2. Whole'
      BY <1>2 DEF Whole, ScanWindow
    <3>3. Fresh'
      BY <1>2 DEF WatcherType, Order, Starting, Readings, Whole, Fresh, Nothing, ScanWindow
    <3> QED
      BY <3>1, <3>2, <3>3
  <2>4. NoticeNotLost'
    BY <1>2 DEF WatcherType, Order, Starting, Readings, NoticeNotLost, ToBeRead, HasRead, Nothing, ScanWindow
  <2>5. AllOnTheirWay'
    BY <1>2 DEF WatcherType, Order, Starting, Readings, AllOnTheirWay, ToBeRead, HasRead, Nothing, ScanWindow
  <2> QED
    BY <2>1, <2>2, <2>3, <2>4, <2>5
<1>3. CASE \E t \in {Owner, Publisher} : Number(t)
  <2> PICK t \in {Owner, Publisher} : Number(t)
    BY <1>3
  <2>1. WatcherType'
    <3>1. at' = [u \in Threads |-> at'[u]]
      BY DEF WatcherType, Number
    <3> QED
      BY <3>1 DEF WatcherType, Number
  <2>2. Order' /\ Numbers'
    BY DEF WatcherType, Order, Starting, Numbers, Number
  <2>3. Readings' /\ Whole' /\ Fresh'
    BY DEF WatcherType, Order, Starting, Numbers, Readings, Whole, Fresh, Nothing, Number
  <2>4. NoticeNotLost'
    BY DEF WatcherType, Order, Starting, Readings, NoticeNotLost, ToBeRead, HasRead, Nothing, Number
  <2>5. AllOnTheirWay'
    BY DEF WatcherType, Order, Starting, Readings, AllOnTheirWay, ToBeRead, HasRead, Nothing, Number
  <2> QED
    BY <2>1, <2>2, <2>3, <2>4, <2>5
<1>4. CASE \E t \in {Owner, Publisher} : Store(t)
  <2> PICK t \in {Owner, Publisher} : Store(t)
    BY <1>4
  <2>1. WatcherType'
    <3>1. at' = [u \in Threads |-> at'[u]]
      BY DEF WatcherType, Store
    <3> QED
      BY <3>1 DEF WatcherType, Store
  <2>2. Order' /\ Numbers'
    BY DEF WatcherType, Order, Starting, Numbers, Store
  <2>3. Readings' /\ Whole' /\ Fresh'
    BY DEF WatcherType, Order, Starting, Numbers, Readings, Whole, Fresh, Nothing, Store
  <2>4. NoticeNotLost'
    <3>1. CASE t = Owner
      <4>1. at[Pump] = "unborn"
        BY <3>1 DEF Store, Order, Starting
      <4> QED
        BY <3>1, <4>1 DEF WatcherType, Order, NoticeNotLost, Store
    <3>2. CASE t = Publisher
      <4>1. ASSUME ~stopping, NEW w \in Windows, noticed[w] > 0, ~ToBeRead(w)
            PROVE  reading[Publisher][w] >= noticed[w]
        BY <3>2, <4>1 DEF WatcherType, Order, Starting, Readings, Whole, Fresh, NoticeNotLost,
                          HasRead, Store
      <4> QED
        BY <3>2, <4>1 DEF WatcherType, Readings, NoticeNotLost, ToBeRead, Store
    <3> QED
      BY <3>1, <3>2
  <2>5. AllOnTheirWay'
    <3>1. CASE t = Owner
      <4>1. at[Pump] = "unborn"
        BY <3>1 DEF Store, Order, Starting
      <4> QED
        BY <3>1, <4>1 DEF WatcherType, Order, AllOnTheirWay, Store
    <3>2. CASE t = Publisher
      <4>1. ASSUME ~stopping, hooked, \E v \in Windows : noticed[v] > 0,
                   NEW w \in Windows, ~ToBeRead(w)
            PROVE  reading[Publisher][w] = desktop[w]
        BY <3>2, <4>1 DEF WatcherType, Order, Starting, Readings, Whole, Fresh, AllOnTheirWay,
                          HasRead, Store
      <4> QED
        BY <3>2, <4>1 DEF WatcherType, Readings, AllOnTheirWay, ToBeRead, Store
    <3> QED
      BY <3>1, <3>2
  <2> QED
    BY <2>1, <2>2, <2>3, <2>4, <2>5
<1>5. CASE \E t \in {Owner, Publisher} : Called(t)
  <2> PICK t \in {Owner, Publisher} : Called(t)
    BY <1>5
  <2>1. WatcherType'
    <3>1. at' = [u \in Threads |-> at'[u]]
      BY DEF WatcherType, Called
    <3> QED
      BY <3>1 DEF WatcherType, Called
  <2>2. Order' /\ Numbers'
    BY DEF WatcherType, Order, Starting, Numbers, Called
  <2>3. Readings' /\ Whole' /\ Fresh'
    BY DEF WatcherType, Order, Starting, Numbers, Readings, Whole, Fresh, Nothing, Called
  <2>4. NoticeNotLost'
    BY DEF WatcherType, Order, Starting, Readings, NoticeNotLost, ToBeRead, HasRead, Nothing, Called
  <2>5. AllOnTheirWay'
    BY DEF WatcherType, Order, Starting, Readings, AllOnTheirWay, ToBeRead, HasRead, Nothing, Called
  <2> QED
    BY <2>1, <2>2, <2>3, <2>4, <2>5
<1>6. CASE Deliver
  <2>1. WatcherType'
    <3>1. at' = [u \in Threads |-> at'[u]]
      BY <1>6 DEF WatcherType, Deliver
    <3> QED
      BY <1>6, <3>1 DEF WatcherType, Deliver
  <2>2. Order' /\ Numbers'
    BY <1>6 DEF WatcherType, Order, Starting, Numbers, Deliver
  <2>3. Readings' /\ Whole' /\ Fresh'
    BY <1>6 DEF WatcherType, Order, Starting, Numbers, Readings, Whole, Fresh, Nothing, Deliver
  <2>4. NoticeNotLost'
    BY <1>6 DEF WatcherType, Order, Starting, Readings, NoticeNotLost, ToBeRead, HasRead, Nothing, Deliver
  <2>5. AllOnTheirWay'
    BY <1>6 DEF WatcherType, Order, Starting, Readings, AllOnTheirWay, ToBeRead, HasRead, Nothing, Deliver
  <2> QED
    BY <2>1, <2>2, <2>3, <2>4, <2>5
<1>7. CASE CheckStopping("sleeping", "scanning")
  <2>1. WatcherType'
    BY <1>7 DEF WatcherType, CheckStopping
  <2>2. Order' /\ Numbers'
    BY <1>7 DEF WatcherType, Order, Starting, Numbers, CheckStopping
  <2>3. Readings' /\ Whole' /\ Fresh'
    BY <1>7 DEF WatcherType, Order, Starting, Numbers, Readings, Whole, Fresh, Nothing, CheckStopping
  <2>4. NoticeNotLost'
    BY <1>7 DEF WatcherType, Order, Starting, Readings, NoticeNotLost, ToBeRead, HasRead,
                 CheckStopping
  <2>5. AllOnTheirWay'
    BY <1>7 DEF WatcherType, Order, Starting, Readings, AllOnTheirWay, ToBeRead, HasRead,
                 CheckStopping
  <2> QED
    BY <2>1, <2>2, <2>3, <2>4, <2>5
<1>8. CASE InstallHooks
  <2>1. WatcherType'
    BY <1>8 DEF WatcherType, InstallHooks
  <2>2. Order' /\ Numbers'
    BY <1>8 DEF WatcherType, Order, Starting, Numbers, InstallHooks
  <2>3. Readings' /\ Whole' /\ Fresh'
    BY <1>8 DEF WatcherType, Order, Starting, Numbers, Readings, Whole, Fresh, Nothing, InstallHooks
  <2>4. NoticeNotLost'
    BY <1>8 DEF WatcherType, Order, Starting, Readings, NoticeNotLost, ToBeRead, HasRead,
                 InstallHooks
  <2>5. AllOnTheirWay'
    BY <1>8 DEF WatcherType, Order, Starting, Readings, AllOnTheirWay, ToBeRead, HasRead,
                 InstallHooks
  <2> QED
    BY <2>1, <2>2, <2>3, <2>4, <2>5
<1>9. CASE \/ Start \/ Destroy \/ Spawn \/ PostQuit \/ FlagDirty
             \/ Notify(Owner, "notifying", "notifying all done") \/ JoinPublisher
             \/ JoinPump \/ StoreId \/ MarkDirty \/ Notify(Pump, "notifying", "pumping")
             \/ Quit \/ Unhook \/ CheckStopping("checking", "looking") \/ Look \/ Block
             \/ CheckStopping("woken", "sleeping") \/ SpuriousWake \/ UNCHANGED vars
  <2> USE DEF WatcherType, Order, Starting, Numbers, Readings, NoticeNotLost, ToBeRead, HasRead,
              AllOnTheirWay, Whole, Fresh
  <2>1. CASE Start
    BY <2>1 DEF Start
  <2>2. CASE Destroy
    BY <2>2 DEF Destroy
  <2>3. CASE Spawn
    BY <2>3 DEF Spawn
  <2>4. CASE PostQuit
    BY <2>4, ZenonT(60) DEF PostQuit
  <2>5. CASE FlagDirty
    BY <2>5 DEF FlagDirty
  <2>6. CASE Notify(Owner, "notifying", "notifying all done")
    BY <2>6, ZenonT(60) DEF Notify
  <2>7. CASE JoinPublisher
    BY <2>7 DEF JoinPublisher
  <2>8. CASE JoinPump
    BY <2>8 DEF JoinPump
  <2>9. CASE StoreId
    BY <2>9 DEF StoreId
  <2>10. CASE MarkDirty
    BY <2>10 DEF MarkDirty
  <2>11. CASE Notify(Pump, "notifying", "pumping")
    BY <2>11, ZenonT(60) DEF Notify
  <2>12. CASE Quit
    BY <2>12 DEF Quit
  <2>13. CASE Unhook
    BY <2>13 DEF Unhook
  <2>14. CASE CheckStopping("checking", "looking")
    BY <2>14 DEF CheckStopping
  <2>15. CASE Look
    BY <2>15, ZenonT(60) DEF Look
  <2>16. CASE Block
    BY <2>16 DEF Block
  <2>17. CASE CheckStopping("woken", "sleeping")
    BY <2>17 DEF CheckStopping
  <2>18. CASE SpuriousWake
    BY <2>18 DEF SpuriousWake
  <2>19. CASE UNCHANGED vars
    BY <2>19 DEF vars
  <2> QED
    BY <1>9, <2>1, <2>2, <2>3, <2>4, <2>5, <2>6, <2>7, <2>8, <2>9, <2>10,
       <2>11, <2>12, <2>13, <2>14, <2>15, <2>16, <2>17, <2>18, <2>19
<1> QED
  BY <1>1, <1>2, <1>3, <1>4, <1>5, <1>6, <1>7, <1>8, <1>9
     DEF Next, OwnerStep, PumpStep, PublisherStep, PublishStep, Finished

LEMMA InitWatcherInv == Init => WatcherInv
<1> SUFFICES ASSUME Init PROVE WatcherInv
  OBVIOUS
<1> USE DEF Init, Primed, Starting, Nothing, Threads, Owner, Pump, Publisher
<1>1. WatcherType /\ Order
  <2>1. at = [t \in Threads |-> at[t]] /\ reading = [t \in {Owner, Publisher} |-> reading[t]]
    OBVIOUS
  <2>2. WatcherType
    BY <2>1 DEF WatcherType
  <2>3. Order
    BY DEF Order
  <2> QED
    BY <2>2, <2>3
<1>2. Numbers /\ Readings
  BY DEF Numbers, Readings
<1>3. NoticeNotLost /\ AllOnTheirWay /\ Whole /\ Fresh
  BY DEF NoticeNotLost, AllOnTheirWay, Whole, Fresh
<1> QED
  BY <1>1, <1>2, <1>3 DEF WatcherInv

\* Every state the watcher reaches satisfies the inductive invariant.
THEOREM WatcherInvariant == Spec => []WatcherInv
  BY InitWatcherInv, NextWatcherInv, PTL DEF Spec

\* One notification makes up for every change that was never notified.
THEOREM OneNoticeIsEnough == Spec => []OneNoticeMendsAll
<1>1. WatcherInv => OneNoticeMendsAll
  <2> SUFFICES ASSUME WatcherInv, Quiet, hooked, \E w \in Windows : noticed[w] > 0
               PROVE  current.windows = desktop
    BY DEF OneNoticeMendsAll
  <2>1. \A w \in Windows : current.windows[w] = desktop[w]
    BY DEF WatcherInv, WatcherType, Order, AllOnTheirWay, ToBeRead, HasRead, Quiet, Owner, Pump, Publisher
  <2>2. current.windows \in [Windows -> Nat] /\ desktop \in [Windows -> Nat]
    BY DEF WatcherInv, WatcherType, Whole, Primed, Quiet, Owner
  <2> QED
    BY <2>1, <2>2
<1> QED
  BY <1>1, WatcherInvariant, PTL

\* The destructor sets stopping_ without dirty_mutex_, which is what a lost wake-up
\* is made of.  It takes the mutex before it notifies, and so nobody is between
\* looking at the flags and going to sleep by then.
Asleep == at[Publisher] \in {"blocking", "blocked"}

Stopped == {"posting", "flagging", "notifying", "notifying all done", "joining", "gone"}

Wakeful ==
  /\ DOMAIN at = Threads
  /\ at[Publisher] = "blocking" <=> mutex = Publisher
  /\ mutex \in {"free", Publisher}
  /\ at[Owner] \in Starting => at[Publisher] = "unborn"
  /\ at[Owner] \in Stopped => stopping
  /\ at[Owner] \in Stopped \ {"posting", "flagging"} => at[Publisher] # "blocking"
  /\ at[Owner] \in {"notifying all done", "joining", "gone"} => ~Asleep

LEMMA WakefulKept == Wakeful /\ [Next]_vars => Wakeful'
<1> SUFFICES ASSUME Wakeful, [Next]_vars PROVE Wakeful'
  OBVIOUS
<1> USE DEF Wakeful, Asleep, Stopped, Starting, Threads, Owner, Pump, Publisher, Go,
            deskVars, pumpVars, flagVars, snapVars
<1>1. CASE (\E w \in Windows : Change(w)) \/ UNCHANGED vars
  BY <1>1 DEF Change, vars
<1>2. CASE \E t \in {Owner, Publisher} : PublishStep(t)
  <2> PICK t \in {Owner, Publisher} : PublishStep(t)
    BY <1>2
  <2>1. UNCHANGED <<mutex, stopping>>
    BY DEF PublishStep, ScanWindow, Number, Store, Called
  <2>2. /\ at[t] \in {"scanning", "storing", "calling"}
        /\ \/ at' = at
           \/ \E p \in {"storing", "calling", "spawning", "checking"} :
                at' = [at EXCEPT ![t] = p]
    <3>1. CASE \E w \in Windows : ScanWindow(t, w)
      BY <3>1 DEF ScanWindow
    <3>2. CASE Number(t) \/ Store(t) \/ Called(t)
      BY <3>2 DEF Number, Store, Called
    <3> QED
      BY <3>1, <3>2 DEF PublishStep
  <2> QED
    BY <2>1, <2>2
<1>3. CASE Start \/ Destroy \/ Spawn \/ PostQuit \/ JoinPublisher \/ JoinPump
  <2>1. CASE Start
    BY <2>1 DEF Start
  <2>2. CASE Destroy
    BY <2>2 DEF Destroy
  <2>3. CASE Spawn
    BY <2>3 DEF Spawn
  <2>4. CASE PostQuit
    BY <2>4 DEF PostQuit
  <2>5. CASE JoinPublisher
    BY <2>5 DEF JoinPublisher
  <2>6. CASE JoinPump
    BY <2>6 DEF JoinPump
  <2> QED
    BY <1>3, <2>1, <2>2, <2>3, <2>4, <2>5, <2>6
<1>4. CASE FlagDirty
  BY <1>4 DEF FlagDirty
<1>5. CASE Notify(Owner, "notifying", "notifying all done")
  BY <1>5 DEF Notify
<1>6. CASE PumpStep
  <2>1. CASE Notify(Pump, "notifying", "pumping")
    BY <2>1 DEF Notify
  <2>2. CASE StoreId \/ InstallHooks \/ Deliver \/ MarkDirty \/ Quit \/ Unhook
    BY <2>2 DEF StoreId, InstallHooks, Deliver, MarkDirty, Quit, Unhook
  <2> QED
    BY <1>6, <2>1, <2>2 DEF PumpStep
<1>7. CASE \/ CheckStopping("checking", "looking") \/ CheckStopping("woken", "sleeping")
           \/ CheckStopping("sleeping", "scanning") \/ SpuriousWake
  BY <1>7 DEF CheckStopping, SpuriousWake
<1>8. CASE Look
  BY <1>8 DEF Look
<1>9. CASE Block
  BY <1>9 DEF Block
<1> QED
  BY <1>1, <1>2, <1>3, <1>4, <1>5, <1>6, <1>7, <1>8, <1>9
     DEF Next, OwnerStep, PublisherStep, Finished

\* Once the destructor has notified, the publish thread is awake, or it is over:
\* nothing it still waits for could fail to come.
THEOREM NobodySleepsThroughTheStop ==
  Spec => [](at[Owner] \in {"notifying all done", "joining", "gone"} => ~Asleep)
<1>1. Init => Wakeful
  BY DEF Init, Wakeful, Asleep, Stopped, Starting, Threads, Owner, Pump, Publisher
<1>2. Wakeful => (at[Owner] \in {"notifying all done", "joining", "gone"} => ~Asleep)
  BY DEF Wakeful
<1> QED
  BY <1>1, <1>2, WakefulKept, PTL DEF Spec

\* The watcher publishes the way a provider must: once before there are any
\* threads, then one snapshot after another, each with a number of its own, and
\* the handler is called with the one that is current.
THEOREM Refinement == Spec => ImplementsProvider
<1> DEFINE Carrying == IF Carried(Owner) # 0 THEN Carried(Owner) ELSE Carried(Publisher)
<1> USE DEF Owner, Pump, Publisher, Carried
<1>1. Init => Provider!Init
  BY DEF Init, Provider!Init
<1>2. WatcherInv /\ [Next]_vars => [Provider!Next]_<<current.version, Carrying>>
  <2> SUFFICES ASSUME WatcherInv, [Next]_vars
               PROVE  [Provider!Next]_<<current.version, Carrying>>
    OBVIOUS
  <2> USE DEF WatcherInv, WatcherType, Threads, Go
  <2>1. CASE Store(Owner)
    <3>1. /\ at[Owner] = "storing" /\ at[Publisher] = "unborn"
          /\ number[Owner] = 1 /\ number[Publisher] = 0 /\ current.version = 0
      BY <2>1 DEF Store, Numbers, Order, Starting
    <3>2. /\ current' = [version |-> number[Owner], windows |-> reading[Owner]]
          /\ at'[Owner] = "calling" /\ number' = number
      BY <2>1 DEF Store
    <3>3. Provider!Prime
      BY <3>1, <3>2 DEF Provider!Prime
    <3> QED
      BY <3>3 DEF Provider!Next
  <2>2. CASE Store(Publisher)
    <3>1. /\ at[Publisher] = "storing" /\ at[Owner] \notin Starting
          /\ number[Publisher] = current.version + 1 /\ current.version > 0
      BY <2>2 DEF Store, Numbers, Order, Primed, Starting
    <3>2. /\ current' = [version |-> number[Publisher], windows |-> reading[Publisher]]
          /\ at'[Publisher] = "calling" /\ at'[Owner] = at[Owner] /\ number' = number
      BY <2>2 DEF Store
    <3>3. Provider!Publish
      BY <3>1, <3>2 DEF Provider!Publish, Starting
    <3> QED
      BY <3>3 DEF Provider!Next
  <2>3. CASE \E t \in {Owner, Publisher} : Called(t)
    <3> PICK t \in {Owner, Publisher} : Called(t)
      BY <2>3
    <3>1. \A u \in {Owner, Publisher} : Carried(u) # 0 <=> u = t
      BY DEF Called, Numbers, Order, Primed, Starting
    <3>2. \A u \in {Owner, Publisher} : Carried(u)' = 0
      BY <3>1 DEF Called
    <3>3. Provider!Delivered
      BY <3>1, <3>2 DEF Called, Provider!Delivered
    <3> QED
      BY <3>3 DEF Provider!Next
  <2>4. CASE \E t \in {Owner, Publisher} : Number(t) \/ \E w \in Windows : ScanWindow(t, w)
    BY <2>4 DEF Number, ScanWindow
  <2>5. CASE (\E w \in Windows : Change(w)) \/ SpuriousWake \/ UNCHANGED vars
    BY <2>5 DEF Change, SpuriousWake, vars, snapVars
  <2>6. CASE PumpStep
    <3>1. /\ UNCHANGED <<current, number>> /\ at'[Owner] = at[Owner]
          /\ at'[Publisher] = "calling" <=> at[Publisher] = "calling"
      BY <2>6 DEF PumpStep, StoreId, InstallHooks, Deliver, MarkDirty, Notify, Quit, Unhook,
                  snapVars
    <3> QED
      BY <3>1
  <2>7. CASE \/ Start \/ Destroy \/ PostQuit \/ FlagDirty
             \/ Notify(Owner, "notifying", "notifying all done") \/ JoinPublisher \/ JoinPump
    <3>1. /\ UNCHANGED <<current, number>> /\ at[Owner] # "calling" /\ at'[Owner] # "calling"
          /\ at'[Publisher] = "calling" <=> at[Publisher] = "calling"
      BY <2>7 DEF Start, Destroy, PostQuit, FlagDirty, Notify, JoinPublisher, JoinPump, snapVars
    <3> QED
      BY <3>1
  <2>8. CASE Spawn
    <3>1. /\ UNCHANGED <<current, number>> /\ at[Publisher] = "unborn"
          /\ \A t \in {Owner, Publisher} : at[t] # "calling" /\ at'[t] # "calling"
      BY <2>8 DEF Spawn, Order, Starting, snapVars
    <3> QED
      BY <3>1
  <2>9. CASE \/ CheckStopping("checking", "looking") \/ Look \/ Block
             \/ CheckStopping("woken", "sleeping") \/ CheckStopping("sleeping", "scanning")
    <3>1. /\ at[Publisher] # "calling" /\ at'[Publisher] # "calling" /\ at'[Owner] = at[Owner]
          /\ UNCHANGED <<current, number>>
      BY <2>9 DEF CheckStopping, Look, Block, snapVars
    <3> QED
      BY <3>1
  <2> QED
    BY <2>1, <2>2, <2>3, <2>4, <2>5, <2>6, <2>7, <2>8, <2>9
       DEF Next, OwnerStep, PublisherStep, PublishStep, Finished
<1> QED
  BY <1>1, <1>2, WatcherInvariant, PTL DEF Spec, ImplementsProvider, Provider!Spec

-----------------------------------------------------------------------------
(* SpriteRenderer *)

\* What is united is within the union.
LEMMA UnitedCovers ==
  ASSUME NEW S \in SUBSET Columns
  PROVE  S \subseteq United(S)
BY BoundsAssumption DEF United

\* Inflating a rectangle takes nothing away from it.
LEMMA InflatedCovers ==
  ASSUME NEW R \in SUBSET Columns
  PROVE  R \subseteq Inflated(R)
<1>1. SUFFICES ASSUME NEW x \in R PROVE x \in Inflated(R)
  OBVIOUS
<1>2. x \in Columns /\ x + 0 \in R
  BY BoundsAssumption
<1> QED
  BY <1>2 DEF Inflated

\* Sprites are on the desktop's columns.
LEMMA PendingType ==
  ASSUME NEW placed \in [Pets -> Pictures \cup {{}}]
  PROVE  Pending(placed) \subseteq Columns
<1>1. Pictures \cup {{}} \subseteq SUBSET Columns
  BY BoundsAssumption
<1>2. \A p \in Pets : placed[p] \in SUBSET Columns
  BY <1>1
<1> QED
  BY <1>2 DEF Pending

\* The damage of a frame is all there was and all there will be.
LEMMA DamageCovers ==
  ASSUME NEW placed \in [Pets -> Pictures \cup {{}}], previous_damage \subseteq Columns
  PROVE  previous_damage \cup Pending(placed) \subseteq Damage(placed)
<1>1. previous_damage \cup Pending(placed) \in SUBSET Columns
  BY PendingType
<1>2. United(previous_damage \cup Pending(placed)) \in SUBSET Columns
  BY DEF United
<1> QED
  BY <1>1, <1>2, UnitedCovers, InflatedCovers DEF Damage

\* What a frame leaves on an overlay that shows is what belongs there.
LEMMA FrameClears ==
  ASSUME TypeOK, DamageSuffices,
         NEW placed \in [Pets -> Pictures \cup {{}}], NEW o \in Outputs, cover # o
  PROVE  Painted(placed, o) = Pending(placed) \cap Bounds[o]
<1>1. pixels[o] \subseteq Bounds[o] /\ Bounds[o] \subseteq Columns
  BY BoundsAssumption DEF TypeOK
<1>2. previous_damage \cup Pending(placed) \subseteq Damage(placed)
  BY DamageCovers DEF TypeOK
<1>3. CASE needs_full_draw[o]
  <2>1. Dirty(placed, o) = Bounds[o]
    BY <1>3 DEF Dirty
  <2> QED
    BY <1>1, <2>1 DEF Painted, Drawn
<1>4. CASE ~needs_full_draw[o]
  <2>1. Dirty(placed, o) = Damage(placed) \cap Bounds[o]
    BY <1>4 DEF Dirty
  <2>2. pixels[o] \subseteq previous_damage
    BY <1>4 DEF DamageSuffices
  <2>3. pixels[o] \subseteq Dirty(placed, o)
    BY <1>1, <1>2, <2>1, <2>2
  <2>4. Pending(placed) \cap Bounds[o] \subseteq Dirty(placed, o)
    BY <1>2, <2>1
  <2>5. Dirty(placed, o) \subseteq Bounds[o]
    BY <2>1
  <2> QED
    BY <2>3, <2>4, <2>5 DEF Painted, Drawn
<1> QED
  BY <1>3, <1>4

\* The types of the state, what the next damage rests on, and what is on the
\* screen, together: none of the first two is inductive without the other.
RendererInv == TypeOK /\ DamageSuffices /\ NoGhosts

LEMMA InitRendererInv == RendererInit => RendererInv
<1> SUFFICES ASSUME RendererInit PROVE RendererInv
  OBVIOUS
<1>1. TypeOK
  BY DEF RendererInit, TypeOK
<1>2. DamageSuffices /\ NoGhosts
  BY DEF RendererInit, DamageSuffices, NoGhosts
<1> QED
  BY <1>1, <1>2 DEF RendererInv

\* A frame keeps the invariant.
LEMMA FrameKeeps ==
  ASSUME RendererInv, NEW placed \in [Pets -> Pictures \cup {{}}], Frame(placed)
  PROVE  RendererInv'
<1> USE DEF RendererInv
<1>1. Pending(placed) \subseteq Columns
  BY PendingType
<1>2. \A o \in Outputs :
        pixels'[o] = Painted(placed, o) /\ visible'[o] = (cover # o)
          /\ needs_full_draw'[o] = NeedsFullDraw(placed, o)
  BY DEF Frame
<1>3. \A o \in Outputs : cover # o => pixels'[o] = Pending(placed) \cap Bounds[o]
  BY <1>2, FrameClears
<1>4. \A o \in Outputs : cover = o => pixels'[o] = pixels[o]
  BY <1>2 DEF Painted, Drawn
<1>5. TypeOK'
  <2>1. drawn' \in [Pets -> SUBSET Columns]
    <3>1. Pictures \cup {{}} \subseteq SUBSET Columns
      BY BoundsAssumption
    <3> QED
      BY <3>1 DEF Frame
  <2>2. previous_damage' \subseteq Columns
    BY DEF Frame, United
  <2>3. visible' \in [Outputs -> BOOLEAN]
    BY DEF Frame
  <2>4. needs_full_draw' \in [Outputs -> BOOLEAN]
    <3>1. \A o \in Outputs : NeedsFullDraw(placed, o) \in BOOLEAN
      BY DEF NeedsFullDraw
    <3> QED
      BY <3>1 DEF Frame
  <2>5. \A o \in Outputs : pixels'[o] \subseteq Bounds[o]
    BY <1>3, <1>4 DEF TypeOK
  <2>6. pixels' \in [Outputs -> SUBSET Columns]
    <3>1. \A o \in Outputs : Painted(placed, o) \in SUBSET Columns
      BY <1>2, <2>5, BoundsAssumption
    <3> QED
      BY <3>1 DEF Frame
  <2> QED
    BY <2>1, <2>2, <2>3, <2>4, <2>5, <2>6 DEF TypeOK, Frame
<1>6. DamageSuffices'
  <2>1. SUFFICES ASSUME NEW o \in Outputs, ~needs_full_draw'[o]
                 PROVE  visible'[o] /\ ~fresh' /\ pixels'[o] \subseteq previous_damage'
    BY DEF DamageSuffices
  <2>2. cover # o
    BY <1>2, <2>1 DEF NeedsFullDraw
  <2>3. visible'[o] /\ ~fresh'
    BY <1>2, <2>2 DEF Frame
  <2>4. pixels'[o] \subseteq United(Pending(placed))
    BY <1>1, <1>3, <2>2, UnitedCovers
  <2> QED
    BY <2>3, <2>4 DEF Frame
<1>7. NoGhosts'
  <2>1. SUFFICES ASSUME NEW o \in Outputs, visible'[o]
                 PROVE  pixels'[o] = Pending(drawn)' \cap Bounds[o]
    BY DEF NoGhosts
  <2>2. cover # o
    BY <1>2, <2>1
  <2> QED
    BY <1>3, <2>2 DEF Frame, Pending
<1> QED
  BY <1>5, <1>6, <1>7

LEMMA NextRendererInv == RendererInv /\ [RendererNext]_rendererVars => RendererInv'
<1> SUFFICES ASSUME RendererInv, [RendererNext]_rendererVars PROVE RendererInv'
  OBVIOUS
<1>1. CASE AnyFrame
  BY <1>1, FrameKeeps DEF AnyFrame
<1>2. CASE \E o \in Outputs \cup {Nobody} : Foreground(o)
  BY <1>2 DEF Foreground, surfaceVars, RendererInv, TypeOK, DamageSuffices, NoGhosts
<1>3. CASE \E on \in BOOLEAN : SetPaused(on)
  BY <1>3 DEF SetPaused, surfaceVars, RendererInv, TypeOK, DamageSuffices, NoGhosts
<1>4. CASE UNCHANGED rendererVars
  BY <1>4 DEF rendererVars, surfaceVars, RendererInv, TypeOK, DamageSuffices, NoGhosts
<1> QED
  BY <1>1, <1>2, <1>3, <1>4 DEF RendererNext

\* The invariant of the renderer, for any monitors, pets and sprites.
THEOREM RendererInvariant == RendererSpec => []RendererInv
BY InitRendererInv, NextRendererInv, PTL DEF RendererSpec

\* A surface stays within its types, and nothing is painted outside it.
THEOREM TypeCorrect == RendererSpec => []TypeOK
<1>1. RendererInv => TypeOK
  BY DEF RendererInv
<1> QED
  BY <1>1, RendererInvariant, PTL

\* The last damage, or a full draw that is owed, covers whatever is on a surface.
THEOREM DamageIsEnough == RendererSpec => []DamageSuffices
<1>1. RendererInv => DamageSuffices
  BY DEF RendererInv
<1> QED
  BY <1>1, RendererInvariant, PTL

\* Every overlay that shows holds this frame's sprites and nothing else.
THEOREM NobodyIsLeftBehind == RendererSpec => []NoGhosts
<1>1. RendererInv => NoGhosts
  BY DEF RendererInv
<1> QED
  BY <1>1, RendererInvariant, PTL
=============================================================================
