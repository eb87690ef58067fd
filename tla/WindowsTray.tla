----------------------------- MODULE WindowsTray -----------------------------
(***************************************************************************)
(* The daemon's side of the Windows tray: shell.cpp, tray.cpp, control.cpp *)
(* and the commands of run_pets (win/main.cpp), on the one thread that     *)
(* also draws the pets, together with the shell processes it starts, asks  *)
(* and is told by, and with whoever uses them.                             *)
(*                                                                         *)
(* That thread is in its loop, whose should_stop pumps its messages, waits *)
(* for an answer of a shell, or is inside the Win32 menu, which pumps them *)
(* too.  Requests to the control window are handled in all three.  Of the  *)
(* commands, reload is Daemon's.  The windows of all three are message     *)
(* windows (children of HWND_MESSAGE), which no broadcast reaches.         *)
(***************************************************************************)
EXTENDS ShellProcess

CONSTANTS MaxClicks,   \* bound: clicks on the icon
          MaxOutside   \* bound: commands, kills and starts by hand and the like

ASSUME WindowsTrayAssumption == {MaxClicks, MaxOutside} \subseteq Nat

VARIABLES
  daemon,     \* where its thread is
  control,    \* requests the control window has not handled
  paused,     \* PetHost's paused_
  g_stop,
  missing,    \* prewarm's missing
  recent,     \* prewarm's last_attempt is less than five seconds ago
  installed,  \* there is a DragonPerch.Shell.exe beside the daemon
  icon,       \* the icon is in the notification area
  clicks,     \* clicks so far
  outside,    \* what came from outside so far
  owed,       \* history: the last click has not led to a menu yet
  wanted,     \* history: the settings were asked for and have not been shown yet
  late        \* history: the daemon has given up waiting for a shell

daemonVars == <<daemon, control, paused, g_stop, missing, recent>>
worldVars == <<installed, icon, clicks, outside>>
history == <<owed, wanted, late>>
vars == <<shellVars, daemonVars, worldVars, history>>

Commands == {"quit", "pause", "resume", "toggle"}

TypeOK ==
  /\ ShellTypeOK
  /\ daemon \in {"looping", "asking", "refused", "menu", "opening", "gone"}
  /\ control \in Seq(Commands)
  /\ {paused, g_stop, missing, recent, installed, icon} \subseteq BOOLEAN
  /\ clicks \in 0 .. MaxClicks
  /\ outside \in 0 .. MaxOutside
  /\ {owed, wanted, late} \subseteq BOOLEAN

Init ==
  /\ ShellInit
  /\ daemon = "looping"
  /\ control = << >>
  /\ installed \in BOOLEAN
  /\ icon = TRUE
  /\ clicks = 0
  /\ outside = 0
  /\ paused = FALSE /\ g_stop = FALSE
  /\ missing = FALSE /\ recent = FALSE
  /\ owed = FALSE /\ wanted = FALSE /\ late = FALSE

There == daemon # "gone"
Label == IF paused THEN "paused" ELSE "running"

-----------------------------------------------------------------------------
(* shell.cpp *)

Free == {s \in Shells : shell[s] = "none"}
FirstFree == CHOOSE s \in Free : \A t \in Free : s <= t

\* start: nothing to start, or a process.
start(line) ==
  IF installed /\ Free # {}
    THEN /\ Run(FirstFree, line)
         /\ UNCHANGED <<exited, sent, answer, queue, menu, lost>>
    ELSE UNCHANGED shellVars

\* Mutation of prewarm: the shell is asked for a menu as it starts.
prewarm_WithMenu ==
  IF missing \/ Serving # {} \/ recent
    THEN UNCHANGED <<shellVars, missing, recent>>
    ELSE /\ start("--menu")
         /\ recent' = TRUE
         /\ missing' = ~(installed /\ Free # {})

\* A start that fails, for whatever reason, is the last.
prewarm ==
  IF missing \/ Serving # {} \/ recent
    THEN UNCHANGED <<shellVars, missing, recent>>
    ELSE /\ start("")
         /\ recent' = TRUE
         /\ missing' = ~(installed /\ Free # {})

-----------------------------------------------------------------------------
(* tray.cpp *)

\* The pointer is over the icon.
Hover ==
  /\ daemon \in {"looping", "menu"}
  /\ icon
  /\ prewarm
  /\ UNCHANGED <<daemon, control, paused, g_stop, worldVars, history>>

\* A click is the shell's, if there is one to ask, and otherwise the Win32 menu's.
Click ==
  /\ daemon = "looping"
  /\ icon
  /\ clicks < MaxClicks
  /\ clicks' = clicks + 1
  /\ \/ /\ \E t \in Serving : Ask(t, Label)
        /\ daemon' = "asking"
        /\ owed' = TRUE
        /\ UNCHANGED <<shell, arguments, exited, queue, menu, lost, missing, recent>>
     \/ /\ Serving = {}
        /\ prewarm
        /\ daemon' = "menu"
        /\ UNCHANGED owed
  /\ UNCHANGED <<control, paused, g_stop, installed, icon, outside, wanted, late>>

\* Mutation of Answered: the click is left at that.
Answered_NoFallBack ==
  /\ daemon \in {"asking", "opening"}
  /\ StopAsking
  /\ daemon' = "looping"
  /\ wanted' = (wanted /\ daemon = "asking")
  /\ late' = (late \/ answer = "waiting")
  /\ UNCHANGED <<shell, arguments, exited, queue, menu, lost>>
  /\ UNCHANGED <<control, paused, g_stop, missing, recent, worldVars, owed>>

\* The shell answers, or has gone, or a second has passed.
Answered ==
  /\ daemon \in {"asking", "opening"}
  /\ StopAsking
  /\ \/ answer = "taken" /\ daemon' = "looping" /\ UNCHANGED <<wanted, late>>
     \/ /\ answer # "taken"
        /\ daemon' = IF daemon = "asking" THEN "refused" ELSE "looping"
        /\ wanted' = (wanted /\ daemon = "asking")
        /\ late' = (late \/ answer = "waiting")
  /\ UNCHANGED <<shell, arguments, exited, queue, menu, lost>>
  /\ UNCHANGED <<control, paused, g_stop, missing, recent, worldVars, owed>>

FallBack ==
  /\ daemon = "refused"
  /\ prewarm
  /\ daemon' = "menu"
  /\ owed' = FALSE
  /\ UNCHANGED <<control, paused, g_stop, worldVars, wanted, late>>

\* The command handler.
Obey(command) ==
  /\ g_stop' = (g_stop \/ command = "quit")
  /\ paused' = CASE command = "pause" -> TRUE
                 [] command = "resume" -> FALSE
                 [] command = "toggle" -> ~paused
                 [] OTHER -> paused

\* The Win32 menu is left with nothing chosen, or with a command.
LeaveMenu ==
  /\ daemon = "menu"
  /\ daemon' = "looping"
  /\ \/ UNCHANGED <<paused, g_stop>>
     \/ \E command \in {"toggle", "quit"} : Obey(command)
  /\ UNCHANGED <<shellVars, control, missing, recent, worldVars, history>>

\* A running shell is asked, and only if there is none is one started.
open_settings ==
  \/ /\ \E t \in Serving : Ask(t, "settings")
     /\ daemon' = "opening"
     /\ wanted' = TRUE
     /\ UNCHANGED <<shell, arguments, exited, queue, menu, lost>>
  \/ /\ Serving = {}
     /\ start("--settings")
     /\ daemon' = "looping"
     /\ wanted' = (installed /\ Free # {})

\* Greyed unless there is a shell beside the daemon.
SettingsInMenu ==
  /\ daemon = "menu"
  /\ installed
  /\ open_settings
  /\ UNCHANGED <<control, paused, g_stop, missing, recent, worldVars, owed, late>>

-----------------------------------------------------------------------------
(* control.cpp, the loop, and the end *)

\* A request to the control window, wherever the thread handles messages.
Command ==
  /\ daemon \notin {"refused", "gone"}
  /\ control # << >>
  /\ control' = Tail(control)
  /\ Obey(Head(control))
  /\ UNCHANGED <<shellVars, daemon, missing, recent, worldVars, history>>

\* The process ends: what was asked of it fails, and the icon goes.
Gone ==
  /\ daemon' = "gone"
  /\ control' = << >>
  /\ icon' = FALSE
  /\ paused' = FALSE /\ g_stop' = FALSE
  /\ missing' = FALSE /\ recent' = FALSE
  /\ StopAsking

\* should_stop.
Stop ==
  /\ daemon = "looping"
  /\ g_stop
  /\ Gone
  /\ UNCHANGED <<shell, arguments, exited, queue, menu, lost>>
  /\ UNCHANGED <<installed, clicks, outside, history>>

DaemonThread ==
  \/ Answered \/ FallBack \/ Command \/ Stop

-----------------------------------------------------------------------------
(* The shell processes, beside the daemon *)

\* A menu was asked for and is not on the screen yet.
MenuOnItsWay ==
  \E s \in Shells :
    \/ \E i \in DOMAIN sent[s] : sent[s][i].what \in Says
    \/ \E i \in DOMAIN queue[s] : queue[s][i] \in Says
    \/ menu[s].loading > 0

\* The last of those is: it is the click's, unless that is about to be the Win32 menu's.
MenuIsUp ==
  /\ MenuOnItsWay /\ ~MenuOnItsWay'
  /\ answer # "failed" /\ daemon # "refused"

ShellStep(s) ==
  /\ \/ AlreadyRunning(s) \/ WatchTheDaemon(s, There) \/ StartServer(s, There)
     \/ Exited(s, There)
     \/ OnAnchorLoaded(s) \/ OlderClosed(s)
     \/ Dispatch(s) \/ RunNext(s) \/ Sent(s)
  /\ owed' = (owed /\ ~MenuIsUp)
  /\ UNCHANGED <<daemonVars, worldVars, wanted, late>>

\* What somebody does with the menu and the settings window of a shell.
UseShell(s) ==
  \/ /\ Dismiss(s) \/ ChooseSettings(s)
     /\ UNCHANGED <<daemonVars, worldVars, history>>
  \/ /\ ChooseCommand(s, There)
     /\ \E command \in {"toggle", "quit"} :
          control' = IF There THEN Append(control, command) ELSE control
     /\ UNCHANGED <<daemon, paused, g_stop, missing, recent, worldVars, history>>
  \/ /\ CloseSettings(s)
     /\ wanted' = FALSE
     /\ UNCHANGED <<daemonVars, worldVars, owed, late>>

-----------------------------------------------------------------------------
(* From outside *)

Happens == outside < MaxOutside /\ outside' = outside + 1

\* dragonperch --pause, --resume or --stop.
Tell(command) ==
  /\ There
  /\ Happens
  /\ control' = Append(control, command)
  /\ UNCHANGED <<shellVars, daemon, paused, g_stop, missing, recent, installed, icon, clicks, history>>

\* Somebody starts a shell for its settings window.
StartByHand ==
  /\ Happens
  /\ installed /\ Free # {}
  /\ start("--settings")
  /\ UNCHANGED <<daemonVars, installed, icon, clicks, history>>

\* The menu it was to show goes with it, unless it has not taken the request yet.
KillShell(s) ==
  /\ Happens
  /\ Killed(s)
  /\ owed' = (owed /\ answer \in {"waiting", "failed"})
  /\ UNCHANGED <<daemonVars, installed, icon, clicks, wanted, late>>

\* A crash, or the session's end.
KillDaemon ==
  /\ There
  /\ Happens
  /\ Gone
  /\ UNCHANGED <<shell, arguments, exited, queue, menu, lost>>
  /\ UNCHANGED <<installed, clicks, history>>

Install ==
  /\ ~installed
  /\ Happens
  /\ installed' = TRUE
  /\ UNCHANGED <<shellVars, daemonVars, icon, clicks, history>>

FiveSeconds ==
  /\ recent
  /\ Happens
  /\ recent' = FALSE
  /\ UNCHANGED <<shellVars, daemon, control, paused, g_stop, missing, installed, icon, clicks>>
  /\ UNCHANGED history

\* The tray's window is a child of HWND_MESSAGE.
TrayParent == "HWND_MESSAGE"

\* A broadcast reaches the windows of the desktop, and a message window is not one.
HearsBroadcasts(parent) == parent # "HWND_MESSAGE"

\* Every icon goes, and TaskbarCreated is broadcast; window_proc adds ours again if it
\* hears of it.
ExplorerRestarts ==
  /\ icon
  /\ Happens
  /\ icon' = HearsBroadcasts(TrayParent)
  /\ UNCHANGED <<shellVars, daemonVars, installed, clicks, history>>

Outside ==
  \/ \E command \in {"pause", "resume", "quit"} : Tell(command)
  \/ \E s \in Shells : KillShell(s)
  \/ StartByHand \/ KillDaemon \/ Install \/ FiveSeconds \/ ExplorerRestarts

Next ==
  \/ Hover \/ Click \/ LeaveMenu \/ SettingsInMenu
  \/ DaemonThread
  \/ \E s \in Shells : ShellStep(s) \/ UseShell(s)
  \/ Outside

Spec == Init /\ [][Next]_vars

\* Threads run; nobody has to do anything.
Fairness ==
  /\ WF_vars(DaemonThread)
  /\ \A s \in Shells : WF_vars(ShellStep(s))

FairSpec == Spec /\ Fairness

-----------------------------------------------------------------------------
(* Properties *)

\* shell.cpp:199-202: "a shell that opened a menu as it started would put a second one
\* on the screen next to the Win32 menu the daemon shows for that same click".  While
\* the Win32 menu is open no shell is about to show one, unless the daemon has given
\* up waiting for a shell that was merely slow, or a shell came to an end.
OneMenuPerClick ==
  daemon = "menu" /\ ~late /\ ~lost =>
    \A s \in Shells :
      /\ \A i \in DOMAIN queue[s] : queue[s][i] \notin Says
      /\ menu[s].loading = 0

\* TrayMenu.cs:81-86, 142-149, 316-330: however many menus are asked for before the host
\* is loaded, and in whatever order flyouts close, the menu on the screen says what the
\* last request said and hangs off a host window that is there.
MenuIsRight ==
  \A s \in Shells :
    menu[s].flyout # "none" => menu[s].visible /\ menu[s].flyout = menu[s].said

\* tray.cpp:157-173: every click leads to a menu of its own, the shell's or the Win32
\* one, although the shell may be slow, or be killed before it has taken the request,
\* and although an older menu is open or about to be.
ClickOpensAMenu == owed ~> ~owed \/ ~There

\* shell.cpp:162-166, App.xaml.cs:44-46: Settings chosen in the Win32 menu is not lost
\* between the shell that is starting, the one that is started for it and the one that
\* listens: there is a settings window in the end, or the log says why not.
SettingsAreShown ==
  wanted ~> ~wanted \/ (\E s \in Shells : menu[s].settings) \/ lost \/ ~There

\* App.xaml.cs:117-124: no shell outlives the daemon, whenever and however that ends,
\* but for one that looked away between opening the process and adding the handler.
ShellsEnd == ~There ~> \A s \in Shells : Alive(s) => exited[s] = "missed"

\* tray.cpp:32-34: when Explorer restarts "every tray icon in the session has to be added
\* again".
IconComesBack == ~icon /\ There ~> icon \/ ~There
=============================================================================
