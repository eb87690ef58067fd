---------------------------- MODULE ShellProcess ----------------------------
(***************************************************************************)
(* shell/windows: DragonPerch.Shell, the process that draws the Windows    *)
(* tray's menu and the settings window (App.xaml.cs, ShellServer.cs,       *)
(* TrayMenu.cs, Daemon.cs and SendCopyData of Native.cs).                  *)
(*                                                                         *)
(* Programs ask each other by SendMessageTimeout.  What was sent waits at  *)
(* the receiver until its thread looks, which it also does while it waits  *)
(* for an answer itself; the sender waits for the answer, for the end of   *)
(* the receiver, or for its time to run out, after which the request may   *)
(* still be carried out.                                                   *)
(*                                                                         *)
(* A menu is what it says of the daemon, "paused" or "running".  Where it  *)
(* is, and what the settings window does once it is open, are left out.    *)
(* Of a process that has ended nothing is kept.                            *)
(***************************************************************************)
EXTENDS Naturals, FiniteSets, Sequences

CONSTANT Shells  \* the shell processes there may ever be, in the order they start

ASSUME ShellProcessAssumption == Shells \subseteq Nat

VARIABLES
  shell,      \* shell[s]: where process s is
  arguments,  \* arguments[s]: its command line, until it has been looked at
  exited,     \* exited[s]: what has become of _daemon.Exited
  sent,       \* sent[s]: requests its window has not handled
  answer,     \* what has become of the request the daemon waits for
  queue,      \* queue[s]: its dispatcher queue
  menu,       \* menu[s]: its TrayMenu
  lost        \* history: a shell was killed, or could not make its window

shellVars == <<shell, arguments, exited, sent, answer, queue, menu, lost>>

Says == {"paused", "running"}
Alive(s) == shell[s] \notin {"none", "gone"}
Serving == {s \in Shells : shell[s] \in {"listening", "sending"}}

MenuType ==
  [host : {"none", "unloaded", "loaded"},  \* _host, and its anchor's XamlRoot
   visible : BOOLEAN,                      \* the host window
   loading : Nat,                          \* times OnAnchorLoaded is registered
   pending : Says,                         \* _pending
   flyout : Says \cup {"none"},            \* the menu on the screen
   said : Says,                            \* history: what ShowAt was told last
   older : BOOLEAN,                        \* the Closed of a flyout before it is to come
   settings : BOOLEAN]                     \* _settings

NoMenu ==
  [host |-> "none", visible |-> FALSE, loading |-> 0, pending |-> "running",
   flyout |-> "none", said |-> "running", older |-> FALSE, settings |-> FALSE]

Requests == [awaited : BOOLEAN, what : Says \cup {"settings"}]
Callbacks == Says \cup {"settings", "exit"}

ShellTypeOK ==
  /\ shell \in [Shells -> {"none", "launched", "watching", "starting", "listening",
                           "sending", "gone"}]
  /\ arguments \in [Shells -> {"", "--menu", "--settings"}]
  /\ exited \in [Shells -> {"unwatched", "watched", "missed", "told"}]
  /\ sent \in [Shells -> Seq(Requests)]
  /\ answer \in {"none", "waiting", "taken", "failed"}
  /\ queue \in [Shells -> Seq(Callbacks)]
  /\ menu \in [Shells -> MenuType]
  /\ lost \in BOOLEAN

ShellInit ==
  /\ shell = [s \in Shells |-> "none"]
  /\ arguments = [s \in Shells |-> ""]
  /\ exited = [s \in Shells |-> "unwatched"]
  /\ sent = [s \in Shells |-> << >>]
  /\ answer = "none"
  /\ queue = [s \in Shells |-> << >>]
  /\ menu = [s \in Shells |-> NoMenu]
  /\ lost = FALSE

-----------------------------------------------------------------------------
(* Asking *)

\* WM_COPYDATA to the window of shell t; awaited if it is from the daemon.
Request(t, what, awaited) ==
  sent' = [sent EXCEPT ![t] = Append(@, [what |-> what, awaited |-> awaited])]

\* ask, of shell.cpp, to where it waits.
Ask(t, what) == Request(t, what, TRUE) /\ answer' = "waiting"

\* The daemon waits no longer, whether or not its request is still there.
StopAsking ==
  /\ answer' = "none"
  /\ sent' = [s \in Shells |-> [i \in DOMAIN sent[s] |-> [sent[s][i] EXCEPT !.awaited = FALSE]]]

-----------------------------------------------------------------------------
(* The process, from OnLaunched to its end *)

GoOn(s, place) == shell' = [shell EXCEPT ![s] = place]

Run(s, line) ==
  /\ shell[s] = "none"
  /\ GoOn(s, "launched")
  /\ arguments' = [arguments EXCEPT ![s] = line]

\* Exit, or the process being killed; requests waiting for its window fail.
End(s) ==
  /\ GoOn(s, "gone")
  /\ arguments' = [arguments EXCEPT ![s] = ""]
  /\ exited' = [exited EXCEPT ![s] = "unwatched"]
  /\ answer' = IF \E i \in DOMAIN sent[s] : sent[s][i].awaited THEN "failed" ELSE answer
  /\ queue' = [queue EXCEPT ![s] = << >>]
  /\ menu' = [menu EXCEPT ![s] = NoMenu]

EndAll(s) == End(s) /\ sent' = [sent EXCEPT ![s] = << >>]

\* Mutation of AlreadyRunning: a request on the command line is not passed on.
AlreadyRunning_Leaves(s) ==
  /\ shell[s] = "launched"
  /\ \/ /\ Serving = {}
        /\ GoOn(s, "watching")
        /\ UNCHANGED <<arguments, exited, sent, answer, queue, menu>>
     \/ Serving # {} /\ EndAll(s)
  /\ UNCHANGED lost

\* One shell is enough; --settings is passed on to the one there is, and whatever
\* becomes of it, this one leaves.
AlreadyRunning(s) ==
  /\ shell[s] = "launched"
  /\ \/ /\ Serving = {}
        /\ GoOn(s, "watching")
        /\ UNCHANGED <<arguments, exited, sent, answer, queue, menu>>
     \/ /\ Serving # {}
        /\ End(s)
        /\ IF arguments[s] = "--settings" THEN \E t \in Serving : Request(t, "settings", FALSE)
                                         ELSE UNCHANGED sent
  /\ UNCHANGED lost

\* WatchTheDaemon finds the daemon's window and opens its process, if there is one.
WatchTheDaemon(s, there) ==
  /\ shell[s] = "watching"
  /\ \/ /\ there
        /\ GoOn(s, "starting")
        /\ UNCHANGED <<arguments, exited, sent, answer, queue, menu>>
     \/ ~there /\ EndAll(s)
  /\ UNCHANGED lost

Exited(s, there) ==
  /\ exited[s] = "watched"
  /\ ~there
  /\ exited' = [exited EXCEPT ![s] = "told"]
  /\ queue' = [queue EXCEPT ![s] = Append(@, "exit")]
  /\ UNCHANGED <<shell, arguments, sent, answer, menu, lost>>

Killed(s) ==
  /\ Alive(s)
  /\ EndAll(s)
  /\ lost' = TRUE

-----------------------------------------------------------------------------
(* TrayMenu *)

\* Show: an older flyout is hidden first; its Closed is raised later.  What was
\* pending is not looked at again.
Show(m, says) ==
  [m EXCEPT !.flyout = says, !.older = @ \/ m.flyout # "none", !.pending = "running"]

\* Mutation of ShowAt: what is to be shown once the host is loaded is kept.
ShowAt_KeepsPending(m, says) ==
  IF m.host = "loaded" THEN Show([m EXCEPT !.visible = TRUE, !.said = says], says)
  ELSE [m EXCEPT !.host = "unloaded", !.visible = TRUE, !.said = says, !.loading = @ + 1,
                 !.pending = IF m.loading = 0 THEN says ELSE @]

\* The first showing waits for the host to be loaded.
ShowAt(m, says) ==
  IF m.host = "loaded" THEN Show([m EXCEPT !.visible = TRUE, !.said = says], says)
  ELSE [m EXCEPT !.host = "unloaded", !.visible = TRUE, !.said = says, !.loading = @ + 1,
                 !.pending = says]

ShowSettings(m) == [m EXCEPT !.settings = TRUE]

\* What is pending is shown, as many times as the handler was registered.
Loaded(m) ==
  [Show(m, m.pending) EXCEPT !.host = "loaded", !.loading = 0, !.older = @ \/ m.loading > 1]

OnAnchorLoaded(s) ==
  /\ menu[s].loading > 0
  /\ menu' = [menu EXCEPT ![s] = Loaded(@)]
  /\ UNCHANGED <<shell, arguments, exited, sent, answer, queue, lost>>

\* Mutation of OlderClosed: whichever flyout closes, the host is hidden.
OlderClosed_Hides(s) ==
  /\ menu[s].older
  /\ menu' = [menu EXCEPT ![s].older = FALSE, ![s].visible = FALSE]
  /\ UNCHANGED <<shell, arguments, exited, sent, answer, queue, lost>>

\* Closed of a flyout that is not _flyout any more leaves the host alone.
OlderClosed(s) ==
  /\ menu[s].older
  /\ menu' = [menu EXCEPT ![s].older = FALSE]
  /\ UNCHANGED <<shell, arguments, exited, sent, answer, queue, lost>>

\* Closed of the menu on the screen.
Closed(m) == [m EXCEPT !.flyout = "none", !.visible = FALSE, !.said = "running"]

\* Escape, a click elsewhere, or another window in the foreground.
Dismiss(s) ==
  /\ menu[s].flyout # "none"
  /\ menu' = [menu EXCEPT ![s] = Closed(@)]
  /\ UNCHANGED <<shell, arguments, exited, sent, answer, queue, lost>>

ChooseSettings(s) ==
  /\ shell[s] = "listening"
  /\ menu[s].flyout # "none"
  /\ menu' = [menu EXCEPT ![s] = ShowSettings(Closed(@))]
  /\ UNCHANGED <<shell, arguments, exited, sent, answer, queue, lost>>

\* Pause and Quit go to the daemon, if it has a window; the caller delivers them.
ChooseCommand(s, there) ==
  /\ shell[s] = "listening"
  /\ menu[s].flyout # "none"
  /\ menu' = [menu EXCEPT ![s] = Closed(@)]
  /\ IF there THEN GoOn(s, "sending") ELSE UNCHANGED shell
  /\ UNCHANGED <<arguments, exited, sent, answer, queue, lost>>

CloseSettings(s) ==
  /\ menu[s].settings
  /\ menu' = [menu EXCEPT ![s].settings = FALSE]
  /\ UNCHANGED <<shell, arguments, exited, sent, answer, queue, lost>>

-----------------------------------------------------------------------------
(* ShellServer *)

\* Whether the end of the daemon will be heard of.  Events are raised from the line
\* before the handler is added: if it ended in between, it may have been reported to
\* nobody.
Subscribed(there) == {"watched"} \cup (IF there THEN {} ELSE {"missed"})

Began(m, line) ==
  CASE line = "--menu" -> ShowAt(m, "running")
    [] line = "--settings" -> ShowSettings(m)
    [] OTHER -> m

\* Mutation of StartServer: nobody listens for the end of the daemon.
StartServer_Unwatched(s, there) ==
  /\ shell[s] = "starting"
  /\ GoOn(s, "listening")
  /\ menu' = [menu EXCEPT ![s] = Began(@, arguments[s])]
  /\ arguments' = [arguments EXCEPT ![s] = ""]
  /\ UNCHANGED <<exited, sent, answer, queue, lost>>

\* The rest of OnLaunched: the server, and what the command line asks for.  Without
\* its window the process is no use.
StartServer(s, there) ==
  /\ shell[s] = "starting"
  /\ \/ /\ GoOn(s, "listening")
        /\ \E outcome \in Subscribed(there) : exited' = [exited EXCEPT ![s] = outcome]
        /\ menu' = [menu EXCEPT ![s] = Began(@, arguments[s])]
        /\ arguments' = [arguments EXCEPT ![s] = ""]
        /\ UNCHANGED <<sent, answer, queue, lost>>
     \/ /\ EndAll(s)
        /\ lost' = TRUE

\* Dispatch: a request is answered now and carried out when the queue comes to it.
Dispatch(s) ==
  /\ s \in Serving
  /\ sent[s] # << >>
  /\ LET request == Head(sent[s])
     IN  /\ sent' = [sent EXCEPT ![s] = Tail(@)]
         /\ queue' = [queue EXCEPT ![s] = Append(@, request.what)]
         /\ answer' = IF request.awaited THEN "taken" ELSE answer
  /\ UNCHANGED <<shell, arguments, exited, menu, lost>>

\* The dispatcher's next callback; none runs while a click waits for the daemon.
RunNext(s) ==
  /\ shell[s] = "listening"
  /\ queue[s] # << >>
  /\ LET next == Head(queue[s])
     IN  IF next = "exit" THEN EndAll(s)
         ELSE /\ queue' = [queue EXCEPT ![s] = Tail(@)]
              /\ menu' = [menu EXCEPT ![s] =
                   IF next = "settings" THEN ShowSettings(@) ELSE ShowAt(@, next)]
              /\ UNCHANGED <<shell, arguments, exited, sent, answer>>
  /\ UNCHANGED lost

\* Daemon.Send returns, with an answer or without.
Sent(s) ==
  /\ shell[s] = "sending"
  /\ GoOn(s, "listening")
  /\ UNCHANGED <<arguments, exited, sent, answer, queue, menu, lost>>
=============================================================================
