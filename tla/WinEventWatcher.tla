-------------------------- MODULE WinEventWatcher --------------------------
(***************************************************************************)
(* win/win_event_watcher.cpp: the provider of the Windows build, with the  *)
(* thread that owns it, its message pump and its publish thread.           *)
(*                                                                         *)
(* Windows change; a change made while the hook is installed posts a       *)
(* notification to the pump, which sets a flag; the publish thread waits   *)
(* for the flag, lets the burst finish, reads the windows one after        *)
(* another and publishes what it read.  A window's state is the number of  *)
(* times it has changed, at most MaxChanges.  Notifications on_win_event   *)
(* filters out only count themselves, and are left out, and so is a second *)
(* start, which returns at once.                                           *)
(*                                                                         *)
(* dirty_mutex_ is explicit, since the destructor sets stopping_ without   *)
(* it and since a thread evaluating the predicate of wait holds it until   *)
(* it blocks.  snapshot_mutex_ protects single steps.                      *)
(***************************************************************************)
EXTENDS Naturals, FiniteSets

CONSTANTS
  Windows,
  MaxChanges,       \* bound: changes of one window
  EarlyDestruction  \* may the watcher be destroyed before its pump is ready?

VARIABLES
  desktop,      \* desktop[w]: how often w has changed
  noticed,      \* history: desktop[w] at the last change the hook was told of
  queued,       \* notifications in the pump's queue
  hooked,       \* the hooks are installed
  quit_posted,  \* WM_QUIT is in the pump's queue
  pump_id,      \* pump_thread_id_ is not 0
  dirty,        \* dirty_
  mutex,        \* who holds dirty_mutex_, or "free"
  stopping,     \* stopping_
  version,      \* version_
  current,      \* current_: [version, windows]
  reading,      \* reading[t]: what thread t's scan has read so far
  number,       \* number[t]: the version of the snapshot t is publishing, or 0
  at            \* where each thread is

vars == <<desktop, noticed, queued, hooked, quit_posted, pump_id, dirty, mutex,
          stopping, version, current, reading, number, at>>

\* Grouped by who changes them.
deskVars == <<desktop, noticed>>
pumpVars == <<queued, hooked, pump_id>>
flagVars == <<dirty, mutex>>
snapVars == <<version, current, reading, number>>

Owner == "owner"      \* the thread that starts and destroys the watcher
Pump == "pump"        \* pump_thread_
Publisher == "publisher"  \* publish_thread_

Nothing == [w \in {} |-> 0]

Init ==
  /\ desktop = [w \in Windows |-> 0]
  /\ noticed = [w \in Windows |-> 0]
  /\ queued = 0
  /\ hooked = FALSE
  /\ quit_posted = FALSE
  /\ pump_id = FALSE
  /\ dirty = FALSE
  /\ mutex = "free"
  /\ stopping = FALSE
  /\ version = 0
  /\ current = [version |-> 0, windows |-> Nothing]
  /\ reading = [t \in {Owner, Publisher} |-> Nothing]
  /\ number = [t \in {Owner, Publisher} |-> 0]
  /\ at = [t \in {Owner, Pump, Publisher} |-> IF t = Owner THEN "made" ELSE "unborn"]

Go(t, from, to) == at[t] = from /\ at' = [at EXCEPT ![t] = to]

-----------------------------------------------------------------------------
(* The desktop *)

Change(w) ==
  /\ desktop[w] < MaxChanges
  /\ desktop' = [desktop EXCEPT ![w] = @ + 1]
  /\ IF hooked
       THEN queued' = queued + 1 /\ noticed' = [noticed EXCEPT ![w] = desktop[w] + 1]
       ELSE UNCHANGED <<queued, noticed>>
  /\ UNCHANGED <<hooked, quit_posted, pump_id, flagVars, stopping, snapVars, at>>

-----------------------------------------------------------------------------
(* publish, on the owner's thread from start and then on the publish thread *)

\* The scan asks for one window after another, in any order.
ScanWindow(t, w) ==
  /\ at[t] = "scanning"
  /\ w \notin DOMAIN reading[t]
  /\ reading' = [reading EXCEPT ![t] =
                   [v \in DOMAIN reading[t] \cup {w} |->
                      IF v = w THEN desktop[w] ELSE reading[t][v]]]
  /\ UNCHANGED <<deskVars, pumpVars, quit_posted, flagVars, stopping, version, current, number, at>>

\* ++version_
Number(t) ==
  /\ DOMAIN reading[t] = Windows
  /\ Go(t, "scanning", "storing")
  /\ version' = version + 1
  /\ number' = [number EXCEPT ![t] = version + 1]
  /\ UNCHANGED <<deskVars, pumpVars, quit_posted, flagVars, stopping, current, reading>>

\* Mutation of Store: the flag is taken back once there is a snapshot.
Store_ClearsDirty(t) ==
  /\ Go(t, "storing", "calling")
  /\ current' = [version |-> number[t], windows |-> reading[t]]
  /\ dirty' = FALSE
  /\ UNCHANGED <<deskVars, pumpVars, quit_posted, mutex, stopping, version, reading, number>>

Store(t) ==
  /\ Go(t, "storing", "calling")
  /\ current' = [version |-> number[t], windows |-> reading[t]]
  /\ UNCHANGED <<deskVars, pumpVars, quit_posted, flagVars, stopping, version, reading, number>>

\* changed_.call has returned.
Called(t) ==
  /\ Go(t, "calling", IF t = Owner THEN "spawning" ELSE "checking")
  /\ number' = [number EXCEPT ![t] = 0]
  /\ reading' = [reading EXCEPT ![t] = Nothing]
  /\ UNCHANGED <<deskVars, pumpVars, quit_posted, flagVars, stopping, version, current>>

PublishStep(t) ==
  (\E w \in Windows : ScanWindow(t, w)) \/ Number(t) \/ Store(t) \/ Called(t)

-----------------------------------------------------------------------------
(* start and the destructor *)

\* Mutation of Start: the threads are made before the first snapshot is.
Start_SpawnsFirst ==
  /\ at[Owner] = "made"
  /\ at' = [at EXCEPT ![Owner] = "scanning", ![Pump] = "born", ![Publisher] = "checking"]
  /\ UNCHANGED <<deskVars, pumpVars, quit_posted, flagVars, stopping, snapVars>>

Start ==
  /\ Go(Owner, "made", "scanning")
  /\ UNCHANGED <<deskVars, pumpVars, quit_posted, flagVars, stopping, snapVars>>

Spawn ==
  /\ at[Owner] = "spawning"
  /\ at' = [at EXCEPT ![Owner] = "running", ![Pump] = "born", ![Publisher] = "checking"]
  /\ UNCHANGED <<deskVars, pumpVars, quit_posted, flagVars, stopping, snapVars>>

\* The destructor begins.  It is a matter of timing whether the pump is ready by
\* then.
Destroy ==
  /\ EarlyDestruction \/ at[Pump] \notin {"born", "hooking"}
  /\ Go(Owner, "running", "posting")
  /\ stopping' = TRUE
  /\ UNCHANGED <<deskVars, pumpVars, quit_posted, flagVars, snapVars>>

\* PostThreadMessageW, if the id is known.  A thread may have no message queue
\* yet while it is installing its hooks, and then the message is refused.
PostQuit ==
  /\ Go(Owner, "posting", "flagging")
  /\ quit_posted' \in {posted \in BOOLEAN : /\ posted => pump_id
                                            /\ pump_id /\ ~posted => at[Pump] = "hooking"}
  /\ UNCHANGED <<deskVars, pumpVars, flagVars, stopping, snapVars>>

\* Mutation of FlagDirty: stopping_ is thought to be flag enough.
FlagDirty_NoFlag ==
  /\ Go(Owner, "flagging", "notifying")
  /\ UNCHANGED <<deskVars, pumpVars, quit_posted, flagVars, stopping, snapVars>>

FlagDirty ==
  /\ mutex = "free"
  /\ Go(Owner, "flagging", "notifying")
  /\ dirty' = TRUE
  /\ UNCHANGED <<deskVars, pumpVars, quit_posted, mutex, stopping, snapVars>>

\* Whoever is blocked goes back to the predicate: there is only one who waits.
Notify(t, from, to) ==
  /\ at[t] = from
  /\ at' = [at EXCEPT ![t] = to,
              ![Publisher] = IF @ = "blocked" THEN "looking" ELSE @]
  /\ UNCHANGED <<deskVars, pumpVars, quit_posted, flagVars, stopping, snapVars>>

JoinPublisher ==
  /\ at[Publisher] = "ended"
  /\ Go(Owner, "notifying all done", "joining")
  /\ UNCHANGED <<deskVars, pumpVars, quit_posted, flagVars, stopping, snapVars>>

JoinPump ==
  /\ at[Pump] = "ended"
  /\ Go(Owner, "joining", "gone")
  /\ UNCHANGED <<deskVars, pumpVars, quit_posted, flagVars, stopping, snapVars>>

OwnerStep ==
  \/ PublishStep(Owner) \/ Spawn
  \/ PostQuit \/ FlagDirty \/ Notify(Owner, "notifying", "notifying all done")
  \/ JoinPublisher \/ JoinPump

-----------------------------------------------------------------------------
(* pump_messages and on_win_event *)

StoreId ==
  /\ Go(Pump, "born", "hooking")
  /\ pump_id' = TRUE
  /\ UNCHANGED <<deskVars, queued, hooked, quit_posted, flagVars, stopping, snapVars>>

\* SetWinEventHook may fail; then nothing will ever be delivered.
InstallHooks ==
  /\ Go(Pump, "hooking", "pumping")
  /\ hooked' \in BOOLEAN
  /\ UNCHANGED <<deskVars, queued, quit_posted, pump_id, flagVars, stopping, snapVars>>

Deliver ==
  /\ queued > 0
  /\ Go(Pump, "pumping", "marking")
  /\ queued' = queued - 1
  /\ UNCHANGED <<deskVars, hooked, quit_posted, pump_id, flagVars, stopping, snapVars>>

\* mark_dirty
MarkDirty ==
  /\ mutex = "free"
  /\ Go(Pump, "marking", "notifying")
  /\ dirty' = TRUE
  /\ UNCHANGED <<deskVars, pumpVars, quit_posted, mutex, stopping, snapVars>>

\* GetMessageW returns 0 for WM_QUIT.
Quit ==
  /\ quit_posted
  /\ Go(Pump, "pumping", "unhooking")
  /\ quit_posted' = FALSE
  /\ UNCHANGED <<deskVars, pumpVars, flagVars, stopping, snapVars>>

Unhook ==
  /\ Go(Pump, "unhooking", "ended")
  /\ hooked' = FALSE
  /\ UNCHANGED <<deskVars, queued, quit_posted, pump_id, flagVars, stopping, snapVars>>

PumpStep ==
  \/ StoreId \/ InstallHooks \/ Deliver \/ MarkDirty
  \/ Notify(Pump, "notifying", "pumping") \/ Quit \/ Unhook

-----------------------------------------------------------------------------
(* publish_loop *)

CheckStopping(from, to) ==
  /\ Go(Publisher, from, IF stopping THEN "ended" ELSE to)
  /\ UNCHANGED <<deskVars, pumpVars, quit_posted, flagVars, stopping, snapVars>>

\* Mutation of Look: the mutex is not kept until the thread blocks.
Look_LetsGo ==
  /\ mutex = "free"
  /\ Go(Publisher, "looking", IF dirty \/ stopping THEN "woken" ELSE "blocking")
  /\ dirty' = FALSE
  /\ UNCHANGED <<deskVars, pumpVars, mutex, quit_posted, stopping, snapVars>>

\* With the lock: take the flag, or be about to block.
Look ==
  /\ mutex = "free"
  /\ IF dirty \/ stopping
       THEN /\ Go(Publisher, "looking", "woken")
            /\ dirty' = FALSE
            /\ UNCHANGED mutex
       ELSE /\ Go(Publisher, "looking", "blocking")
            /\ mutex' = Publisher
            /\ UNCHANGED dirty
  /\ UNCHANGED <<deskVars, pumpVars, quit_posted, stopping, snapVars>>

Block ==
  /\ Go(Publisher, "blocking", "blocked")
  /\ mutex' = "free"
  /\ UNCHANGED <<deskVars, pumpVars, quit_posted, dirty, stopping, snapVars>>

SpuriousWake ==
  /\ Go(Publisher, "blocked", "looking")
  /\ UNCHANGED <<deskVars, pumpVars, quit_posted, flagVars, stopping, snapVars>>

PublisherStep ==
  \/ CheckStopping("checking", "looking")
  \/ Look \/ Block
  \/ CheckStopping("woken", "sleeping")
  \/ CheckStopping("sleeping", "scanning")
  \/ PublishStep(Publisher)

-----------------------------------------------------------------------------
Finished == at[Owner] = "gone" /\ UNCHANGED vars

Next ==
  \/ \E w \in Windows : Change(w)
  \/ Start \/ Destroy \/ OwnerStep
  \/ PumpStep
  \/ PublisherStep \/ SpuriousWake
  \/ Finished

Spec == Init /\ [][Next]_vars

\* Each thread goes on, and one that asks for dirty_mutex_ again and again gets
\* it.  Nobody has to start or destroy the watcher, and no window has to change.
Fairness ==
  /\ WF_vars(OwnerStep) /\ SF_vars(FlagDirty)
  /\ WF_vars(PumpStep) /\ SF_vars(MarkDirty)
  /\ WF_vars(PublisherStep)

FairSpec == Spec /\ Fairness

-----------------------------------------------------------------------------
(* Properties *)

\* Nothing that was noticed is on its way any more.
Quiet ==
  /\ at[Owner] = "running"
  /\ queued = 0
  /\ at[Pump] = "pumping"
  /\ ~dirty
  /\ at[Publisher] \in {"checking", "looking", "blocking", "blocked"}

\* With the hook at work one notification is enough to make up for a scan the
\* desktop changed under: then the quiet snapshot is the desktop, all of it.
OneNoticeMendsAll ==
  (Quiet /\ hooked /\ \E w \in Windows : noticed[w] > 0) => current.windows = desktop

\* No change is swallowed by the coalescing, and no wake-up is lost between the
\* publish thread's look at the flag and its wait: whatever the hook was told of,
\* also during a scan or while one was being published, is in a snapshot in the end,
\* without another change having to come, unless the watcher is destroyed.
NoticedIsSeen ==
  \A w \in Windows : \A n \in 1 .. MaxChanges :
    noticed[w] >= n ~> \/ w \in DOMAIN current.windows /\ current.windows[w] >= n
                       \/ stopping

Carried(t) == IF at[t] = "calling" THEN number[t] ELSE 0

Provider == INSTANCE WorldProvider WITH
  current <- current.version,
  carried <- IF Carried(Owner) # 0 THEN Carried(Owner) ELSE Carried(Publisher)

\* Two threads publish, but never at once and never under the same number.
ImplementsProvider == Provider!Spec

\* win_event_watcher.cpp line 37: the destructor wakes the pump "so it can unhook
\* and leave", wakes the publish thread, and joins both: it returns.
DestructorReturns == stopping ~> at[Owner] = "gone"
=============================================================================
