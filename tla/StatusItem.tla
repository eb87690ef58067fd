----------------------------- MODULE StatusItem -----------------------------
(***************************************************************************)
(* linux/session_bus.cpp, tray.cpp and control.cpp: what reaches the       *)
(* daemon over the session bus, on the thread that processes it, and the   *)
(* icon that has to be registered with whichever watcher there is.         *)
(*                                                                         *)
(* The bus delivers in order: what is not processed yet is the inbox.      *)
(* Registering is a call over a connection of its own, so that the caller  *)
(* blocks and nothing else does.  The watcher is external: it is part of   *)
(* the desktop's shell, comes and goes with it, and forgets who was there. *)
(***************************************************************************)
EXTENDS Naturals, Sequences

CONSTANTS MaxInbox,          \* bound: messages on their way to the daemon
          SettingsAvailable  \* is there a kcmshell6

ASSUME StatusItemAssumption ==
  /\ MaxInbox \in Nat \ {0}
  /\ SettingsAvailable \in BOOLEAN

VARIABLES
  published,  \* the objects and the match are on the bus
  worker,     \* the bus thread: off, idle, or asking the watcher
  stopping,   \* stopping_
  inbox,      \* messages the bus has for us, oldest first
  watcher,    \* somebody owns org.kde.StatusNotifierWatcher
  listed,     \* that watcher knows of our item
  call        \* call[t]: thread t's RegisterStatusNotifierItem

busVars == <<published, worker, stopping, inbox, watcher, listed, call>>

Commands == {"quit", "pause", "resume", "toggle"}
Notes == {"appeared", "replaced", "gone"}
Messages == Commands \cup Notes \cup {"nothing", "settings"}

Threads == {"main", "worker"}

BusTypeOK ==
  /\ published \in BOOLEAN
  /\ worker \in {"off", "idle", "asking"}
  /\ stopping \in BOOLEAN
  /\ inbox \in Seq(Messages)
  /\ Len(inbox) <= MaxInbox
  /\ watcher \in BOOLEAN
  /\ listed \in BOOLEAN
  /\ call \in [Threads -> {"none", "sent", "returned"}]

BusInit ==
  /\ published = FALSE
  /\ worker = "off"
  /\ stopping = FALSE
  /\ inbox = << >>
  /\ watcher \in BOOLEAN
  /\ listed = FALSE
  /\ call = [t \in Threads |-> "none"]

-----------------------------------------------------------------------------
(* The menu a host is given, and what a click in it asks for *)

MenuIds == {"pause", "separator_a", "settings", "separator_b", "quit"}

\* append_item_properties.
ItemProperties(id, paused) ==
  [separator |-> id \in {"separator_a", "separator_b"},
   enabled |-> id = "settings" => SettingsAvailable,
   toggled |-> id = "pause" /\ paused]

\* on_menu_layout for the root, on_menu_group_properties: every item, whichever
\* were asked for, as they are now.
Layout(paused) == [id \in MenuIds |-> ItemProperties(id, paused)]

CanClick(id, paused) ==
  ~Layout(paused)[id].separator /\ Layout(paused)[id].enabled

\* on_menu_event.
Clicked(id) ==
  CASE id = "pause" -> "toggle"
    [] id = "settings" -> "settings"
    [] id = "quit" -> "quit"
    [] OTHER -> "nothing"

-----------------------------------------------------------------------------
(* What arrives *)

Deliver(message) ==
  /\ Len(inbox) < MaxInbox
  /\ inbox' = Append(inbox, message)

\* NameOwnerChanged reaches whoever has the match.
Notify(note) == IF published THEN Deliver(note) ELSE UNCHANGED inbox

\* A call that the old owner has not answered comes back as an error.
Unanswered == [t \in Threads |-> IF call[t] = "sent" THEN "returned" ELSE call[t]]

WatcherAppears ==
  /\ ~watcher
  /\ watcher' = TRUE
  /\ Notify("appeared")
  /\ UNCHANGED <<published, worker, stopping, listed, call>>

WatcherLeaves ==
  /\ watcher
  /\ watcher' = FALSE
  /\ listed' = FALSE
  /\ call' = Unanswered
  /\ Notify("gone")
  /\ UNCHANGED <<published, worker, stopping>>

\* The name passes straight from one owner to the next.
WatcherReplaced ==
  /\ watcher
  /\ listed' = FALSE
  /\ call' = Unanswered
  /\ Notify("replaced")
  /\ UNCHANGED <<published, worker, stopping, watcher>>

WatcherLists(t) ==
  /\ watcher
  /\ call[t] = "sent"
  /\ listed' = TRUE
  /\ call' = [call EXCEPT ![t] = "returned"]
  /\ UNCHANGED <<published, worker, stopping, inbox, watcher>>

-----------------------------------------------------------------------------
(* What the daemon does on the bus *)

\* register_with_watcher: the bus routes the call to the owner there is, or
\* answers that there is none.
Register(t) == call' = [call EXCEPT ![t] = IF watcher THEN "sent" ELSE "returned"]

Registered(t) ==
  /\ call[t] = "returned"
  /\ call' = [call EXCEPT ![t] = "none"]

\* ControlService::publish, TrayIcon::publish, then SessionBus::start.
PublishAndStart ==
  /\ published' = TRUE
  /\ worker' = "idle"
  /\ UNCHANGED <<stopping, inbox, watcher, listed, call>>

Take(message) ==
  /\ worker = "idle"
  /\ ~stopping
  /\ inbox # << >>
  /\ Head(inbox) = message
  /\ inbox' = Tail(inbox)

\* Mutation of WatcherNoted: only an owner where there was none is told.
WatcherNoted_OnlyFirst ==
  /\ \/ /\ Take("appeared")
        /\ worker' = "asking"
        /\ Register("worker")
     \/ /\ Take("gone") \/ Take("replaced")
        /\ UNCHANGED <<worker, call>>
  /\ UNCHANGED <<published, stopping, watcher, listed>>

\* on_watcher_appeared: whoever owns the name now is told of the item.
WatcherNoted ==
  /\ \/ /\ Take("appeared") \/ Take("replaced")
        /\ worker' = "asking"
        /\ Register("worker")
     \/ /\ Take("gone")
        /\ UNCHANGED <<worker, call>>
  /\ UNCHANGED <<published, stopping, watcher, listed>>

WatcherTold ==
  /\ worker = "asking"
  /\ Registered("worker")
  /\ worker' = "idle"
  /\ UNCHANGED <<published, stopping, inbox, watcher, listed>>

\* SessionBus::run leaves its loop.
WorkerStops ==
  /\ worker = "idle"
  /\ stopping
  /\ worker' = "off"
  /\ UNCHANGED <<published, stopping, inbox, watcher, listed, call>>
=============================================================================
