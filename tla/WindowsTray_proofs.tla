--------------------------- MODULE WindowsTray_proofs ---------------------------
(***************************************************************************)
(* However many shell processes there are, and whoever is killed, late or  *)
(* clicked at when: the menu a shell has on the screen is the one it was   *)
(* asked for last, a click that led to the Win32 menu leads to no other,   *)
(* and no shell misses the end of its daemon but one that looked away as   *)
(* it came.                                                                *)
(***************************************************************************)
EXTENDS WindowsTray, WellFoundedInduction, TLAPS

-----------------------------------------------------------------------------
(* Types *)

\* One element of a function or of a sequence is replaced by one of its kind.
LEMMA OneReplaced ==
  ASSUME NEW S, NEW T, NEW f \in [S -> T], NEW s \in S, NEW v \in T
  PROVE  [f EXCEPT ![s] = v] \in [S -> T]
OBVIOUS

LEMMA MenusStayMenus ==
  ASSUME NEW m \in MenuType, NEW says \in Says
  PROVE  /\ NoMenu \in MenuType
         /\ Show(m, says) \in MenuType
         /\ ShowAt(m, says) \in MenuType
         /\ ShowSettings(m) \in MenuType
         /\ Closed(m) \in MenuType
         /\ \A line : Began(m, line) \in MenuType
<1>1. NoMenu \in MenuType
  BY DEF NoMenu, MenuType, Says
<1>2. \A n \in MenuType, word \in Says : Show(n, word) \in MenuType
  <2> SUFFICES ASSUME NEW n \in MenuType, NEW word \in Says
               PROVE  Show(n, word) \in MenuType
    OBVIOUS
  <2>1. (n.older \/ n.flyout # "none") \in BOOLEAN /\ "running" \in Says
    BY DEF Says
  <2>2. word \in Says \cup {"none"}
    OBVIOUS
  <2>3. \A flyout \in Says \cup {"none"}, older \in BOOLEAN, pending \in Says :
          [n EXCEPT !.flyout = flyout, !.older = older, !.pending = pending] \in MenuType
    BY DEF MenuType
  <2> QED  BY <2>1, <2>2, <2>3 DEF Show
<1>3. \A word \in Says : ShowAt(m, word) \in MenuType
  <2> SUFFICES ASSUME NEW word \in Says
               PROVE  ShowAt(m, word) \in MenuType
    OBVIOUS
  <2>1. [m EXCEPT !.visible = TRUE, !.said = word] \in MenuType
    BY DEF MenuType, Says
  <2>2. Show([m EXCEPT !.visible = TRUE, !.said = word], word) \in MenuType
    BY <1>2, <2>1
  <2>3. [m EXCEPT !.host = "unloaded", !.visible = TRUE, !.said = word, !.loading = @ + 1,
                  !.pending = word] \in MenuType
    <3>1. m.loading + 1 \in Nat
      BY DEF MenuType
    <3>2. [m EXCEPT !.loading = @ + 1] \in MenuType
      BY <3>1 DEF MenuType
    <3>3. \A n \in MenuType :
            [n EXCEPT !.host = "unloaded", !.visible = TRUE, !.said = word, !.pending = word]
              \in MenuType
      BY DEF MenuType, Says
    <3>4. [m EXCEPT !.host = "unloaded", !.visible = TRUE, !.said = word, !.loading = @ + 1,
                    !.pending = word]
          = [[m EXCEPT !.loading = @ + 1]
               EXCEPT !.host = "unloaded", !.visible = TRUE, !.said = word, !.pending = word]
      BY DEF MenuType
    <3> QED  BY <3>2, <3>3, <3>4
  <2> QED  BY <2>2, <2>3 DEF ShowAt
<1>4. ShowSettings(m) \in MenuType
  BY DEF ShowSettings, MenuType
<1>5. Closed(m) \in MenuType
  BY DEF Closed, MenuType, Says
<1>6. \A line : Began(m, line) \in MenuType
  BY <1>3, <1>4 DEF Began, Says
<1> QED  BY <1>1, <1>2, <1>3, <1>4, <1>5, <1>6

\* The requests that may be sent.
Words == Says \cup {"settings"}

LEMMA RequestsStayRequests ==
  ASSUME NEW q \in Seq(Requests)
  PROVE  /\ [i \in DOMAIN q |-> [q[i] EXCEPT !.awaited = FALSE]] \in Seq(Requests)
         /\ \A what \in Words, awaited \in BOOLEAN :
              Append(q, [what |-> what, awaited |-> awaited]) \in Seq(Requests)
<1>1. \A r \in Requests : [r EXCEPT !.awaited = FALSE] \in Requests
  BY DEF Requests
<1>2. \A what \in Words, awaited \in BOOLEAN :
        [what |-> what, awaited |-> awaited] \in Requests
  BY DEF Requests, Words
<1> HIDE DEF Requests
<1>3. /\ DOMAIN q = 1 .. Len(q) /\ Len(q) \in Nat
      /\ \A i \in DOMAIN q : q[i] \in Requests
  OBVIOUS
<1>4. [i \in 1 .. Len(q) |-> [q[i] EXCEPT !.awaited = FALSE]] \in [1 .. Len(q) -> Requests]
  BY <1>1, <1>3
<1> QED  BY <1>2, <1>3, <1>4

LEMMA TypesOfAsking ==
  ASSUME ShellTypeOK,
         UNCHANGED <<shell, arguments, exited, queue, menu, lost>>,
         \/ \E t \in Shells, what \in Words : Ask(t, what)
         \/ StopAsking
  PROVE  ShellTypeOK'
<1>1. \A s \in Shells : sent[s] \in Seq(Requests)
  BY DEF ShellTypeOK
<1>2. sent' \in [Shells -> Seq(Requests)]
  <2>1. CASE StopAsking
    BY <1>1, <2>1, RequestsStayRequests DEF StopAsking
  <2>2. ASSUME NEW t \in Shells, NEW what \in Words, Ask(t, what)
        PROVE  sent' \in [Shells -> Seq(Requests)]
    <3>1. Append(sent[t], [what |-> what, awaited |-> TRUE]) \in Seq(Requests)
      BY <1>1, RequestsStayRequests
    <3> QED  BY <2>2, <3>1, OneReplaced DEF Ask, Request, ShellTypeOK
  <2> QED  BY <2>1, <2>2
<1>3. answer' \in {"none", "waiting"}
  BY DEF StopAsking, Ask
<1> QED  BY <1>2, <1>3 DEF ShellTypeOK

LEMMA TypesOfRunning ==
  ASSUME ShellTypeOK, NEW s \in Shells, NEW line \in {"", "--menu", "--settings"}, Run(s, line),
         UNCHANGED <<exited, sent, answer, queue, menu, lost>>
  PROVE  ShellTypeOK'
BY DEF ShellTypeOK, Run, GoOn

LEMMA TypesOfEnding ==
  ASSUME ShellTypeOK, NEW s \in Shells, End(s), sent' \in [Shells -> Seq(Requests)],
         lost' \in BOOLEAN
  PROVE  ShellTypeOK'
<1>1. NoMenu \in MenuType /\ << >> \in Seq(Callbacks)
  BY DEF NoMenu, MenuType, Says
<1>2. menu' \in [Shells -> MenuType] /\ queue' \in [Shells -> Seq(Callbacks)]
  BY <1>1, OneReplaced DEF End, ShellTypeOK
<1>3. /\ shell' = [shell EXCEPT ![s] = "gone"]
      /\ arguments' = [arguments EXCEPT ![s] = ""]
      /\ exited' = [exited EXCEPT ![s] = "unwatched"]
      /\ answer' \in {"failed", answer}
  BY DEF End, GoOn
<1> QED  BY <1>2, <1>3 DEF ShellTypeOK

LEMMA TypesOfEndingAll ==
  ASSUME ShellTypeOK, NEW s \in Shells, EndAll(s), lost' \in BOOLEAN
  PROVE  ShellTypeOK'
<1>1. sent' \in [Shells -> Seq(Requests)]
  <2>1. << >> \in Seq(Requests)
    OBVIOUS
  <2> QED  BY <2>1, OneReplaced DEF EndAll, ShellTypeOK
<1> QED  BY <1>1, TypesOfEnding DEF EndAll

LEMMA TypesOfServing ==
  ASSUME ShellTypeOK, NEW s \in Shells,
         \/ AlreadyRunning(s) \/ WatchTheDaemon(s, There) \/ StartServer(s, There)
         \/ Exited(s, There) \/ Killed(s)
  PROVE  ShellTypeOK'
<1>1. lost' \in BOOLEAN
  BY DEF AlreadyRunning, WatchTheDaemon, StartServer, Exited, Killed, ShellTypeOK
<1>2. CASE EndAll(s)
  BY <1>1, <1>2, TypesOfEndingAll
<1>3. CASE AlreadyRunning(s) /\ ~EndAll(s)
  <2>1. CASE End(s)
    <3>1. sent' \in [Shells -> Seq(Requests)]
      <4>1. ASSUME NEW t \in Serving, Request(t, "settings", FALSE)
            PROVE  sent' \in [Shells -> Seq(Requests)]
        <5>1. t \in Shells /\ sent[t] \in Seq(Requests) /\ "settings" \in Words
          BY DEF Serving, ShellTypeOK, Words
        <5>2. Append(sent[t], [what |-> "settings", awaited |-> FALSE]) \in Seq(Requests)
          BY <5>1, RequestsStayRequests
        <5> QED  BY <4>1, <5>1, <5>2, OneReplaced DEF Request, ShellTypeOK
      <4>2. CASE UNCHANGED sent
        BY <4>2 DEF ShellTypeOK
      <4>3. CASE UNCHANGED shell
        <5>1. FALSE
          BY <1>3, <2>1, <4>3 DEF AlreadyRunning, End, GoOn, ShellTypeOK
        <5> QED  BY <5>1
      <4> QED  BY <1>3, <2>1, <4>1, <4>2, <4>3 DEF AlreadyRunning
    <3> QED  BY <1>1, <2>1, <3>1, TypesOfEnding
  <2>2. CASE ~End(s)
    <3>1. /\ shell' = [shell EXCEPT ![s] = "watching"]
          /\ UNCHANGED <<arguments, exited, sent, answer, queue, menu>>
      BY <1>3, <2>2 DEF AlreadyRunning, GoOn
    <3> QED  BY <1>1, <3>1 DEF ShellTypeOK
  <2> QED  BY <2>1, <2>2
<1>4. CASE WatchTheDaemon(s, There) /\ ~EndAll(s)
  <2>1. /\ shell' = [shell EXCEPT ![s] = "starting"]
        /\ UNCHANGED <<arguments, exited, sent, answer, queue, menu>>
    BY <1>4 DEF WatchTheDaemon, GoOn
  <2> QED  BY <1>1, <2>1 DEF ShellTypeOK
<1>5. CASE StartServer(s, There) /\ ~EndAll(s)
  <2>1. Began(menu[s], arguments[s]) \in MenuType
    <3>1. "running" \in Says /\ menu[s] \in MenuType
      BY DEF ShellTypeOK, Says
    <3> QED  BY <3>1, MenusStayMenus
  <2>2. menu' \in [Shells -> MenuType]
    BY <1>5, <2>1, OneReplaced DEF StartServer, ShellTypeOK
  <2>3. /\ shell' = [shell EXCEPT ![s] = "listening"]
        /\ \E outcome \in {"watched", "missed"} : exited' = [exited EXCEPT ![s] = outcome]
        /\ arguments' = [arguments EXCEPT ![s] = ""]
        /\ UNCHANGED <<sent, answer, queue>>
    BY <1>5 DEF StartServer, GoOn, Subscribed
  <2>4. exited' \in [Shells -> {"unwatched", "watched", "missed", "told"}]
    BY <2>3 DEF ShellTypeOK
  <2>5. /\ shell' \in [Shells -> {"none", "launched", "watching", "starting", "listening",
                                  "sending", "gone"}]
        /\ arguments' \in [Shells -> {"", "--menu", "--settings"}]
    BY <2>3 DEF ShellTypeOK
  <2> QED  BY <1>1, <2>2, <2>3, <2>4, <2>5 DEF ShellTypeOK
<1>6. CASE Exited(s, There)
  <2>1. Append(queue[s], "exit") \in Seq(Callbacks)
    <3>1. queue[s] \in Seq(Callbacks) /\ "exit" \in Callbacks
      BY DEF ShellTypeOK, Callbacks
    <3> QED  BY <3>1
  <2>2. queue' \in [Shells -> Seq(Callbacks)]
    BY <1>6, <2>1, OneReplaced DEF Exited, ShellTypeOK
  <2> QED  BY <1>6, <2>2 DEF Exited, ShellTypeOK
<1> QED  BY <1>2, <1>3, <1>4, <1>5, <1>6 DEF Killed

LEMMA TypesOfTheMenu ==
  ASSUME ShellTypeOK, NEW s \in Shells,
         \/ OnAnchorLoaded(s) \/ OlderClosed(s) \/ Dismiss(s) \/ ChooseSettings(s)
         \/ ChooseCommand(s, There) \/ CloseSettings(s)
  PROVE  ShellTypeOK'
<1> DEFINE m == menu[s]
<1>1. m \in MenuType /\ Closed(m) \in MenuType
  BY MenusStayMenus DEF ShellTypeOK, Says
<1>2. /\ shell' = [shell EXCEPT ![s] = "sending"] \/ shell' = shell
      /\ UNCHANGED <<arguments, exited, sent, answer, queue, lost>>
  BY DEF OnAnchorLoaded, OlderClosed, Dismiss, ChooseSettings, ChooseCommand, CloseSettings, GoOn
<1>3. \E n \in MenuType : menu' = [menu EXCEPT ![s] = n]
  <2>1. CASE OnAnchorLoaded(s)
    <3>1. Show(m, m.pending) \in MenuType
      <4>1. m.pending \in Says
        BY <1>1 DEF MenuType
      <4> QED  BY <1>1, <4>1, MenusStayMenus
    <3>2. Loaded(m) \in MenuType
      BY <1>1, <3>1 DEF Loaded, MenuType
    <3> QED  BY <2>1, <3>2 DEF OnAnchorLoaded
  <2>2. CASE OlderClosed(s)
    <3>1. [m EXCEPT !.older = FALSE] \in MenuType
      BY <1>1 DEF MenuType
    <3>2. menu' = [menu EXCEPT ![s] = [m EXCEPT !.older = FALSE]]
      BY <2>2 DEF OlderClosed
    <3> QED  BY <3>1, <3>2
  <2>3. CASE Dismiss(s) \/ ChooseCommand(s, There)
    BY <1>1, <2>3 DEF Dismiss, ChooseCommand
  <2>4. CASE ChooseSettings(s)
    <3>1. ShowSettings(Closed(m)) \in MenuType
      BY <1>1 DEF ShowSettings, MenuType
    <3> QED  BY <2>4, <3>1 DEF ChooseSettings
  <2>5. CASE CloseSettings(s)
    <3>1. [m EXCEPT !.settings = FALSE] \in MenuType
      BY <1>1 DEF MenuType
    <3>2. menu' = [menu EXCEPT ![s] = [m EXCEPT !.settings = FALSE]]
      BY <2>5 DEF CloseSettings
    <3> QED  BY <3>1, <3>2
  <2> QED  BY <2>1, <2>2, <2>3, <2>4, <2>5
<1> QED  BY <1>2, <1>3 DEF ShellTypeOK

LEMMA TypesOfDispatching ==
  ASSUME ShellTypeOK, NEW s \in Shells, Dispatch(s) \/ RunNext(s) \/ Sent(s)
  PROVE  ShellTypeOK'
<1>1. sent[s] \in Seq(Requests) /\ queue[s] \in Seq(Callbacks) /\ menu[s] \in MenuType
  BY DEF ShellTypeOK
<1>2. CASE Dispatch(s)
  <2>1. Head(sent[s]) \in Requests /\ Tail(sent[s]) \in Seq(Requests)
    BY <1>1, <1>2 DEF Dispatch
  <2>2. Head(sent[s]).what \in Callbacks
    BY <2>1 DEF Requests, Callbacks
  <2>3. Append(queue[s], Head(sent[s]).what) \in Seq(Callbacks)
    BY <1>1, <2>2
  <2>4. sent' \in [Shells -> Seq(Requests)] /\ queue' \in [Shells -> Seq(Callbacks)]
    BY <1>2, <2>1, <2>3, OneReplaced DEF Dispatch, ShellTypeOK
  <2> QED  BY <1>2, <2>4 DEF Dispatch, ShellTypeOK
<1>3. CASE RunNext(s)
  <2>1. Head(queue[s]) \in Callbacks /\ Tail(queue[s]) \in Seq(Callbacks)
    BY <1>1, <1>3 DEF RunNext
  <2>2. CASE Head(queue[s]) = "exit"
    BY <1>3, <2>2, TypesOfEndingAll DEF RunNext, ShellTypeOK
  <2>3. CASE Head(queue[s]) # "exit"
    <3>1. (IF Head(queue[s]) = "settings" THEN ShowSettings(menu[s])
           ELSE ShowAt(menu[s], Head(queue[s]))) \in MenuType
      BY <1>1, <2>1, <2>3, MenusStayMenus DEF Callbacks, Says
    <3>2. menu' \in [Shells -> MenuType]
      BY <1>3, <2>3, <3>1, OneReplaced DEF RunNext, ShellTypeOK
    <3>3. queue' \in [Shells -> Seq(Callbacks)]
      BY <1>3, <2>1, <2>3, OneReplaced DEF RunNext, ShellTypeOK
    <3> QED  BY <1>3, <2>3, <3>2, <3>3 DEF RunNext, ShellTypeOK
  <2> QED  BY <2>2, <2>3
<1>4. CASE Sent(s)
  BY <1>4 DEF Sent, GoOn, ShellTypeOK
<1> QED  BY <1>2, <1>3, <1>4

\* There is a next shell to start as long as there is one.
LEMMA FirstFreeIsFree ==
  ASSUME Free # {}
  PROVE  FirstFree \in Free
<1>1. Free \subseteq Nat
  BY ShellProcessAssumption DEF Free
<1>2. \E s \in Free : \A t \in Free : <<t, s>> \notin OpToRel(<, Nat)
  BY <1>1, WFMin, NatLessThanWellFounded
<1>3. \A s, t \in Nat : t < s => <<t, s>> \in OpToRel(<, Nat)
  BY DEF OpToRel
<1>4. \E s \in Free : \A t \in Free : s <= t
  <2>1. \A s, t \in Nat : s <= t \/ t < s
    OBVIOUS
  <2> QED  BY <1>1, <1>2, <1>3, <2>1
<1> QED  BY <1>4 DEF FirstFree

\* What the daemon does to shells: it asks one, gives up on one, or starts one.
LEMMA TypesOfStarting ==
  ASSUME ShellTypeOK, NEW line \in {"", "--menu", "--settings"}, start(line)
  PROVE  ShellTypeOK'
<1>1. CASE installed /\ Free # {}
  <2>1. FirstFree \in Shells
    BY <1>1, FirstFreeIsFree DEF Free
  <2> QED  BY <1>1, <2>1, TypesOfRunning DEF start
<1>2. CASE ~(installed /\ Free # {})
  BY <1>2 DEF start, shellVars, ShellTypeOK
<1> QED  BY <1>1, <1>2

LEMMA TypesOfShells ==
  ASSUME ShellTypeOK, [Next]_vars
  PROVE  ShellTypeOK'
<1>1. ShellTypeOK
  OBVIOUS
<1>2. \A t \in Serving : t \in Shells
  BY DEF Serving
<1>3. Label \in Words /\ "settings" \in Words
  BY DEF Label, Words, Says
<1>4. prewarm => ShellTypeOK'
  BY <1>1, TypesOfStarting DEF prewarm, shellVars, ShellTypeOK
<1>5. open_settings => ShellTypeOK'
  BY <1>1, <1>2, <1>3, TypesOfStarting, TypesOfAsking DEF open_settings, Ask, Request
<1>6. CASE Hover \/ FallBack
  BY <1>4, <1>6 DEF Hover, FallBack
<1>7. CASE Click
  BY <1>1, <1>2, <1>3, <1>4, <1>7, TypesOfAsking DEF Click, Ask, Request
<1>8. CASE SettingsInMenu
  BY <1>5, <1>8 DEF SettingsInMenu
<1>9. CASE Answered \/ Stop \/ KillDaemon
  BY <1>1, <1>9, TypesOfAsking DEF Answered, Stop, KillDaemon, Gone
<1>10. CASE \E s \in Shells : ShellStep(s)
  <2>1. PICK s \in Shells : ShellStep(s)
    BY <1>10
  <2>2. CASE AlreadyRunning(s) \/ WatchTheDaemon(s, There) \/ StartServer(s, There) \/ Exited(s, There)
    BY <1>1, <2>2, TypesOfServing
  <2>3. CASE OnAnchorLoaded(s) \/ OlderClosed(s)
    BY <1>1, <2>3, TypesOfTheMenu
  <2>4. CASE Dispatch(s) \/ RunNext(s) \/ Sent(s)
    BY <1>1, <2>4, TypesOfDispatching
  <2> QED  BY <2>1, <2>2, <2>3, <2>4 DEF ShellStep
<1>11. CASE \E s \in Shells : UseShell(s)
  BY <1>1, <1>11, TypesOfTheMenu DEF UseShell
<1>12. CASE \E s \in Shells : KillShell(s)
  BY <1>1, <1>12, TypesOfServing DEF KillShell
<1>13. CASE StartByHand
  BY <1>1, <1>13, TypesOfStarting DEF StartByHand
<1>14. CASE \/ LeaveMenu \/ Command \/ Install \/ FiveSeconds \/ ExplorerRestarts
            \/ \E command \in {"pause", "resume", "quit"} : Tell(command)
            \/ UNCHANGED vars
  <2>1. UNCHANGED shellVars
    BY <1>14 DEF LeaveMenu, Command, Install, FiveSeconds, ExplorerRestarts, Tell, vars
  <2> QED  BY <1>1, <2>1 DEF shellVars, ShellTypeOK
<1> QED
  BY <1>6, <1>7, <1>8, <1>9, <1>10, <1>11, <1>12, <1>13, <1>14 DEF Next, DaemonThread, Outside

-----------------------------------------------------------------------------
(* The menu on the screen *)

\* A menu that waits for its host to be loaded is the one that was asked for last, and
\* so is the one on the screen; both have a host window.
Right(m) ==
  /\ m.flyout # "none" => m.visible /\ m.host = "loaded" /\ m.flyout = m.said
  /\ m.loading > 0 => m.visible /\ m.host = "unloaded" /\ m.pending = m.said

MenuInv == \A s \in Shells : Right(menu[s])

LEMMA MenusStayRight ==
  ASSUME NEW m \in MenuType, Right(m)
  PROVE  /\ Right(NoMenu)
         /\ \A says \in Says : Right(ShowAt(m, says))
         /\ m.loading > 0 => Right(Loaded(m))
         /\ Right(ShowSettings(m))
         /\ m.flyout # "none" => Right(Closed(m)) /\ Right(ShowSettings(Closed(m)))
         /\ Right([m EXCEPT !.older = FALSE])
         /\ Right([m EXCEPT !.settings = FALSE])
         /\ \A line : Right(Began(m, line))
<1> USE DEF Right, MenuType, Says
<1>1. Right(NoMenu)
  BY DEF NoMenu
<1>2. \A says \in Says : Right(ShowAt(m, says))
  <2> SUFFICES ASSUME NEW says \in Says
               PROVE  Right(ShowAt(m, says))
    OBVIOUS
  <2>1. CASE m.host = "loaded"
    BY <2>1 DEF ShowAt, Show
  <2>2. CASE m.host # "loaded"
    BY <2>2 DEF ShowAt
  <2> QED  BY <2>1, <2>2
<1>3. m.loading > 0 => Right(Loaded(m))
  BY DEF Loaded, Show
<1>4. Right(ShowSettings(m))
  BY DEF ShowSettings
<1>5. m.flyout # "none" => Right(Closed(m)) /\ Right(ShowSettings(Closed(m)))
  BY DEF Closed, ShowSettings
<1>6. Right([m EXCEPT !.older = FALSE]) /\ Right([m EXCEPT !.settings = FALSE])
  OBVIOUS
<1>7. \A line : Right(Began(m, line))
  <2>1. "running" \in Says
    OBVIOUS
  <2> HIDE DEF Right, MenuType, Says
  <2> QED  BY <1>2, <1>4, <2>1 DEF Began
<1> QED  BY <1>1, <1>2, <1>3, <1>4, <1>5, <1>6, <1>7

\* What a step does to the menus of the shells.
MenuStep(s) ==
  \E m \in {menu[s]} :
    \/ menu' = [menu EXCEPT ![s] = NoMenu]
    \/ \E says \in Says : menu' = [menu EXCEPT ![s] = ShowAt(m, says)]
    \/ m.loading > 0 /\ menu' = [menu EXCEPT ![s] = Loaded(m)]
    \/ menu' = [menu EXCEPT ![s] = ShowSettings(m)]
    \/ m.flyout # "none" /\ menu' = [menu EXCEPT ![s] = Closed(m)]
    \/ m.flyout # "none" /\ menu' = [menu EXCEPT ![s] = ShowSettings(Closed(m))]
    \/ menu' = [menu EXCEPT ![s] = [m EXCEPT !.older = FALSE]]
    \/ menu' = [menu EXCEPT ![s] = [m EXCEPT !.settings = FALSE]]
    \/ \E line \in {arguments[s]} : menu' = [menu EXCEPT ![s] = Began(m, line)]

LEMMA EachStepIsAMenuStep ==
  ASSUME ShellTypeOK, [Next]_vars
  PROVE  UNCHANGED menu \/ \E s \in Shells : MenuStep(s)
<1>1. CASE \E s \in Shells : ShellStep(s)
  <2>1. PICK s \in Shells : ShellStep(s)
    BY <1>1
  <2>2. CASE AlreadyRunning(s) \/ WatchTheDaemon(s, There) \/ StartServer(s, There) \/ Exited(s, There)
    BY <2>2 DEF AlreadyRunning, WatchTheDaemon, StartServer, Exited, EndAll, End, MenuStep
  <2>3. CASE OnAnchorLoaded(s)
    BY <2>3 DEF OnAnchorLoaded, MenuStep
  <2>4. CASE OlderClosed(s)
    <3>1. menu' = [menu EXCEPT ![s] = [menu[s] EXCEPT !.older = FALSE]]
      BY <2>4 DEF OlderClosed
    <3> QED  BY <3>1 DEF MenuStep
  <2>5. CASE RunNext(s)
    <3>1. Head(queue[s]) \in Callbacks
      <4>1. queue[s] \in Seq(Callbacks) /\ queue[s] # << >>
        BY <2>5 DEF RunNext, ShellTypeOK
      <4> QED  BY <4>1
    <3> QED  BY <2>5, <3>1 DEF RunNext, EndAll, End, MenuStep, Callbacks
  <2>6. CASE Dispatch(s) \/ Sent(s)
    BY <2>6 DEF Dispatch, Sent
  <2> QED  BY <2>1, <2>2, <2>3, <2>4, <2>5, <2>6 DEF ShellStep
<1>2. CASE \E s \in Shells : UseShell(s)
  <2>1. PICK s \in Shells : UseShell(s)
    BY <1>2
  <2>2. CASE CloseSettings(s)
    <3>1. menu' = [menu EXCEPT ![s] = [menu[s] EXCEPT !.settings = FALSE]]
      BY <2>2 DEF CloseSettings
    <3> QED  BY <3>1 DEF MenuStep
  <2>3. CASE Dismiss(s) \/ ChooseSettings(s) \/ ChooseCommand(s, There)
    BY <2>3 DEF Dismiss, ChooseSettings, ChooseCommand, MenuStep
  <2> QED  BY <2>1, <2>2, <2>3 DEF UseShell
<1>3. CASE \E s \in Shells : KillShell(s)
  BY <1>3 DEF KillShell, Killed, EndAll, End, MenuStep
<1>4. CASE Hover \/ Click \/ SettingsInMenu \/ FallBack \/ StartByHand
  BY <1>4 DEF Hover, Click, SettingsInMenu, FallBack, StartByHand, prewarm, open_settings, start,
              shellVars
<1>5. CASE \/ LeaveMenu \/ Command \/ Install \/ FiveSeconds \/ ExplorerRestarts
           \/ Answered \/ Stop \/ KillDaemon
           \/ \E command \in {"pause", "resume", "quit"} : Tell(command)
           \/ UNCHANGED vars
  BY <1>5 DEF LeaveMenu, Command, Install, FiveSeconds, ExplorerRestarts, Answered, Stop,
              KillDaemon, Tell, vars, shellVars
<1> QED  BY <1>1, <1>2, <1>3, <1>4, <1>5 DEF Next, DaemonThread, Outside

LEMMA ShellsBeginTyped ==
  ASSUME Init
  PROVE  ShellTypeOK
<1>1. NoMenu \in MenuType /\ << >> \in Seq(Requests) /\ << >> \in Seq(Callbacks)
  BY DEF NoMenu, MenuType, Says
<1> HIDE DEF NoMenu
<1> QED  BY <1>1 DEF Init, ShellInit, ShellTypeOK

\* However many menus are asked for before the host is loaded, of however many shells,
\* and in whatever order flyouts close: what is on the screen is what was asked for last.
THEOREM TheMenuIsRight == Spec => []MenuIsRight
<1>1. Init => ShellTypeOK /\ MenuInv
  <2>1. Right(NoMenu)
    BY DEF Right, NoMenu
  <2>2. ASSUME Init PROVE MenuInv
    <3>1. menu = [s \in Shells |-> NoMenu]
      BY <2>2 DEF Init, ShellInit
    <3> QED  BY <2>1, <3>1 DEF MenuInv
  <2> QED  BY <2>2, ShellsBeginTyped
<1>2. (ShellTypeOK /\ MenuInv) /\ [Next]_vars => (ShellTypeOK /\ MenuInv)'
  <2> SUFFICES ASSUME ShellTypeOK, MenuInv, [Next]_vars
               PROVE  (ShellTypeOK /\ MenuInv)'
    OBVIOUS
  <2>1. CASE UNCHANGED menu
    BY <2>1, TypesOfShells DEF MenuInv
  <2>2. ASSUME NEW s \in Shells, MenuStep(s)
        PROVE  MenuInv'
    <3>1. menu[s] \in MenuType /\ Right(menu[s])
      BY DEF ShellTypeOK, MenuInv
    <3>2. \E m : menu' = [menu EXCEPT ![s] = m] /\ Right(m)
      BY <2>2, <3>1, MenusStayRight DEF MenuStep
    <3>3. \A t \in Shells : menu'[t] = menu[t] \/ Right(menu'[t])
      BY <3>2 DEF ShellTypeOK
    <3> QED  BY <3>3 DEF MenuInv
  <2> QED  BY <2>1, <2>2, EachStepIsAMenuStep, TypesOfShells
<1>3. MenuInv => MenuIsRight
  BY DEF MenuInv, MenuIsRight, Right
<1> QED  BY <1>1, <1>2, <1>3, PTL DEF Spec

-----------------------------------------------------------------------------
(* One menu for each click *)

\* A shell that does not listen has been told nothing and shows nothing.
Quiet ==
  \A s \in Shells : shell[s] \notin {"listening", "sending"} =>
    /\ sent[s] = << >>
    /\ queue[s] = << >>
    /\ menu[s].loading = 0
    /\ exited[s] = "unwatched"

\* No shell is started with a menu to show.
NoMenuAtStart == \A s \in Shells : arguments[s] # "--menu"

\* A shell ends of itself only after the daemon.
NoneLeavesFirst == There => \A s \in Shells : \A i \in DOMAIN queue[s] : queue[s][i] # "exit"

\* One request at a time is waited for, while it is.
Awaited ==
  /\ \A s \in Shells : \A i \in DOMAIN sent[s] :
       sent[s][i].awaited => answer = "waiting" /\ daemon \in {"asking", "opening"}
  /\ \A s, t \in Shells : \A i \in DOMAIN sent[s], j \in DOMAIN sent[t] :
       sent[s][i].awaited /\ sent[t][j].awaited => s = t /\ i = j

\* The menu a shell was asked for and has not taken is the one that is waited for.
MenusAreAwaited ==
  There /\ ~late => \A s \in Shells : \A i \in DOMAIN sent[s] :
    sent[s][i].what \in Says => sent[s][i].awaited /\ daemon = "asking"

\* A shell refuses a menu because it came to an end, or is left because it was slow.
Reasons ==
  /\ daemon \in {"asking", "opening"} => answer # "none"
  /\ There /\ answer = "failed" => lost
  /\ daemon = "refused" => late \/ lost

ShellsInv == ShellTypeOK /\ Quiet /\ NoMenuAtStart /\ NoneLeavesFirst
AskingInv == Awaited /\ MenusAreAwaited /\ Reasons
ClickInv == ShellsInv /\ AskingInv /\ OneMenuPerClick

LEMMA Appended ==
  ASSUME NEW T, NEW q \in Seq(T), NEW e \in T
  PROVE  /\ DOMAIN Append(q, e) = DOMAIN q \cup {Len(q) + 1}
         /\ Append(q, e)[Len(q) + 1] = e
         /\ \A i \in DOMAIN q : i # Len(q) + 1 /\ Append(q, e)[i] = q[i]
OBVIOUS

LEMMA Taken ==
  ASSUME NEW T, NEW q \in Seq(T), q # << >>
  PROVE  /\ 1 \in DOMAIN q /\ Head(q) = q[1]
         /\ \A i \in DOMAIN Tail(q) : i # 0 /\ i + 1 \in DOMAIN q /\ Tail(q)[i] = q[i + 1]
         /\ \A i, j \in DOMAIN Tail(q) : i + 1 = j + 1 => i = j
         /\ \A i \in DOMAIN Tail(q) : i + 1 # 1
OBVIOUS

\* The daemon, once gone, stays so.
LEMMA NoReturn ==
  ASSUME [Next]_vars
  PROVE  There' => There
BY DEF Next, Hover, Click, LeaveMenu, SettingsInMenu, open_settings, DaemonThread, Answered, FallBack,
       Command, Stop, ShellStep, UseShell, Outside, Tell, KillShell, StartByHand, KillDaemon, Gone,
       Install, FiveSeconds, ExplorerRestarts, daemonVars, vars, There

LEMMA NothingIn ==
  /\ DOMAIN << >> = {}
  /\ \A q \in Seq(Requests) : DOMAIN q = {} => q = << >>
OBVIOUS

LEMMA ShellVariables ==
  ASSUME ShellTypeOK
  PROVE  /\ DOMAIN shell = Shells /\ DOMAIN arguments = Shells /\ DOMAIN exited = Shells
         /\ DOMAIN sent = Shells /\ DOMAIN queue = Shells /\ DOMAIN menu = Shells
BY DEF ShellTypeOK

\* What of a shell that listens the three parts speak of.
LEMMA ShellsOfDaemon ==
  ASSUME ShellsInv, There' => There,
         \/ start("") \/ start("--settings")
         \/ /\ (\E t \in Serving, what \in Words : Ask(t, what)) \/ StopAsking
            /\ UNCHANGED <<shell, arguments, exited, queue, menu, lost>>
         \/ UNCHANGED shellVars
  PROVE  Quiet' /\ NoMenuAtStart' /\ NoneLeavesFirst'
<1> USE ShellVariables DEF ShellsInv, There
<1>1. CASE start("") \/ start("--settings")
  <2>1. CASE installed /\ Free # {}
    <3>1. FirstFree \in Shells /\ shell[FirstFree] = "none"
      BY <2>1, FirstFreeIsFree DEF Free
    <3>2. /\ shell' = [shell EXCEPT ![FirstFree] = "launched"]
          /\ \E line \in {"", "--settings"} : arguments' = [arguments EXCEPT ![FirstFree] = line]
          /\ UNCHANGED <<exited, sent, queue, menu>>
      BY <1>1, <2>1 DEF start, Run, GoOn
    <3> QED  BY <3>1, <3>2 DEF Quiet, NoMenuAtStart, NoneLeavesFirst
  <2>2. CASE ~(installed /\ Free # {})
    BY <1>1, <2>2 DEF start, shellVars, Quiet, NoMenuAtStart, NoneLeavesFirst
  <2> QED  BY <2>1, <2>2
<1>2. ASSUME NEW t \in Serving, NEW what \in Words, Ask(t, what),
             UNCHANGED <<shell, arguments, exited, queue, menu, lost>>
      PROVE  Quiet' /\ NoMenuAtStart' /\ NoneLeavesFirst'
  <2>1. \A s \in Shells \ {t} : sent'[s] = sent[s]
    BY <1>2 DEF Ask, Request
  <2> QED  BY <1>2, <2>1 DEF Quiet, NoMenuAtStart, NoneLeavesFirst, Serving
<1>3. CASE StopAsking /\ UNCHANGED <<shell, arguments, exited, queue, menu, lost>>
  <2>1. \A s \in Shells : sent[s] = << >> => sent'[s] = << >>
    <3> SUFFICES ASSUME NEW s \in Shells, sent[s] = << >>
                 PROVE  sent'[s] = << >>
      OBVIOUS
    <3>1. sent'[s] = [i \in DOMAIN sent[s] |-> [sent[s][i] EXCEPT !.awaited = FALSE]]
      BY <1>3 DEF StopAsking
    <3>2. sent[s] \in Seq(Requests)
      BY DEF ShellTypeOK
    <3>3. sent'[s] \in Seq(Requests)
      BY <3>1, <3>2, RequestsStayRequests
    <3>4. DOMAIN sent'[s] = {}
      BY <3>1, NothingIn
    <3> QED  BY <3>3, <3>4, NothingIn
  <2> QED  BY <1>3, <2>1 DEF Quiet, NoMenuAtStart, NoneLeavesFirst
<1>4. CASE UNCHANGED shellVars
  BY <1>4 DEF shellVars, Quiet, NoMenuAtStart, NoneLeavesFirst
<1> QED  BY <1>1, <1>2, <1>3, <1>4

LEMMA ShellsOfEnding ==
  ASSUME ShellsInv, There' => There, NEW s \in Shells, End(s), sent'[s] = << >>,
         \A t \in Shells \ Serving : sent'[t] = sent[t] \/ sent'[t] = << >>
  PROVE  Quiet' /\ NoMenuAtStart' /\ NoneLeavesFirst'
<1> USE ShellVariables DEF ShellsInv, There
<1>1. /\ shell' = [shell EXCEPT ![s] = "gone"]
      /\ arguments' = [arguments EXCEPT ![s] = ""]
      /\ exited' = [exited EXCEPT ![s] = "unwatched"]
      /\ queue' = [queue EXCEPT ![s] = << >>]
      /\ menu' = [menu EXCEPT ![s] = NoMenu]
  BY DEF End, GoOn
<1>2. NoMenu.loading = 0
  BY DEF NoMenu
<1> HIDE DEF NoMenu
<1>3. Quiet'
  BY <1>1, <1>2 DEF Quiet, Serving
<1>4. NoMenuAtStart'
  BY <1>1 DEF NoMenuAtStart
<1>5. NoneLeavesFirst'
  <2>1. queue'[s] = << >> /\ \A t \in Shells \ {s} : queue'[t] = queue[t]
    BY <1>1
  <2>2. \A t \in Shells : queue'[t] = queue[t] \/ DOMAIN queue'[t] = {}
    BY <2>1, NothingIn
  <2> QED  BY <2>2 DEF NoneLeavesFirst
<1> QED  BY <1>3, <1>4, <1>5

LEMMA ShellsOfServing ==
  ASSUME ShellsInv, There' => There, NEW s \in Shells,
         \/ AlreadyRunning(s) \/ WatchTheDaemon(s, There) \/ StartServer(s, There)
         \/ Exited(s, There) \/ Killed(s)
  PROVE  Quiet' /\ NoMenuAtStart' /\ NoneLeavesFirst'
<1> USE ShellVariables DEF ShellsInv, There
<1>1. CASE EndAll(s)
  BY <1>1, ShellsOfEnding DEF EndAll
<1>2. CASE AlreadyRunning(s) /\ End(s)
  <2>1. sent[s] = << >> /\ s \notin Serving
    BY <1>2 DEF AlreadyRunning, Quiet, Serving
  <2>2. UNCHANGED sent \/ \E t \in Serving : Request(t, "settings", FALSE)
    BY <1>2, <2>1 DEF AlreadyRunning
  <2>3. \A t \in Shells \ Serving : sent'[t] = sent[t]
    BY <2>2 DEF Request, Serving
  <2> QED  BY <1>2, <2>1, <2>3, ShellsOfEnding
<1>3. CASE (AlreadyRunning(s) /\ ~End(s)) \/ (WatchTheDaemon(s, There) /\ ~EndAll(s))
  <2>1. /\ shell[s] \notin {"listening", "sending"}
        /\ UNCHANGED <<arguments, exited, sent, queue, menu>>
        /\ \A t \in Shells \ {s} : shell'[t] = shell[t]
    BY <1>3 DEF AlreadyRunning, WatchTheDaemon, GoOn
  <2> QED  BY <2>1 DEF Quiet, NoMenuAtStart, NoneLeavesFirst
<1>4. CASE StartServer(s, There) /\ ~EndAll(s)
  <2>1. /\ shell' = [shell EXCEPT ![s] = "listening"]
        /\ \A t \in Shells \ {s} : menu'[t] = menu[t] /\ exited'[t] = exited[t]
        /\ arguments' = [arguments EXCEPT ![s] = ""]
        /\ UNCHANGED <<sent, queue>>
    BY <1>4 DEF StartServer, GoOn
  <2> QED  BY <2>1 DEF Quiet, NoMenuAtStart, NoneLeavesFirst
<1>5. CASE Exited(s, There)
  <2>1. shell[s] \in {"listening", "sending"}
    BY <1>5 DEF Exited, Quiet
  <2>2. /\ ~There
        /\ UNCHANGED <<shell, arguments, sent, menu>>
        /\ \A t \in Shells \ {s} : queue'[t] = queue[t] /\ exited'[t] = exited[t]
    BY <1>5 DEF Exited
  <2> QED  BY <2>1, <2>2 DEF Quiet, NoMenuAtStart, NoneLeavesFirst
<1> QED  BY <1>1, <1>2, <1>3, <1>4, <1>5 DEF Killed

\* What is done with a menu registers nothing more with its host.
LEMMA LoadingKept ==
  ASSUME ShellTypeOK, NEW s \in Shells,
         \/ OnAnchorLoaded(s) \/ OlderClosed(s) \/ Dismiss(s) \/ ChooseSettings(s)
         \/ ChooseCommand(s, There) \/ CloseSettings(s) \/ Sent(s)
  PROVE  \A t \in Shells : menu[t].loading = 0 => menu'[t].loading = 0
<1> USE ShellVariables
<1> SUFFICES ASSUME NEW t \in Shells, menu[t].loading = 0
             PROVE  menu'[t].loading = 0
  OBVIOUS
<1>1. menu'[t] = menu[t] \/ t = s
  BY DEF OnAnchorLoaded, OlderClosed, Dismiss, ChooseSettings, ChooseCommand, CloseSettings, Sent
<1>2. CASE OnAnchorLoaded(s)
  BY <1>1, <1>2 DEF OnAnchorLoaded
<1>3. CASE OlderClosed(s) \/ CloseSettings(s)
  <2>1. menu[s] \in MenuType
    BY DEF ShellTypeOK
  <2>2. menu'[s].loading = menu[s].loading
    BY <1>3, <2>1 DEF OlderClosed, CloseSettings, MenuType
  <2> QED  BY <1>1, <2>2
<1>4. CASE Dismiss(s) \/ ChooseSettings(s) \/ ChooseCommand(s, There)
  <2>1. /\ Closed(menu[s]).loading = menu[s].loading
        /\ ShowSettings(Closed(menu[s])).loading = menu[s].loading
    BY DEF Closed, ShowSettings, MenuType
  <2>2. menu'[s] \in {Closed(menu[s]), ShowSettings(Closed(menu[s]))}
    BY <1>4 DEF Dismiss, ChooseSettings, ChooseCommand
  <2> QED  BY <1>1, <2>1, <2>2
<1>5. CASE Sent(s)
  BY <1>5 DEF Sent
<1> QED  BY <1>2, <1>3, <1>4, <1>5

LEMMA ShellsOfTheMenu ==
  ASSUME ShellsInv, There' => There, NEW s \in Shells,
         \/ OnAnchorLoaded(s) \/ OlderClosed(s) \/ Dismiss(s) \/ ChooseSettings(s)
         \/ ChooseCommand(s, There) \/ CloseSettings(s) \/ Sent(s)
  PROVE  Quiet' /\ NoMenuAtStart' /\ NoneLeavesFirst'
<1> USE ShellVariables DEF ShellsInv, There
<1>1. /\ UNCHANGED <<arguments, exited, sent, queue>>
      /\ shell' = shell \/ /\ shell[s] \in {"listening", "sending"}
                           /\ \E place \in {"listening", "sending"} :
                                shell' = [shell EXCEPT ![s] = place]
  BY DEF OnAnchorLoaded, OlderClosed, Dismiss, ChooseSettings, ChooseCommand, CloseSettings, Sent,
         GoOn
<1>2. \A t \in Shells : menu[t].loading = 0 => menu'[t].loading = 0
  BY LoadingKept
<1> QED  BY <1>1, <1>2 DEF Quiet, NoMenuAtStart, NoneLeavesFirst

LEMMA ShellsOfDispatching ==
  ASSUME ShellsInv, There' => There, NEW s \in Shells, Dispatch(s) \/ RunNext(s)
  PROVE  Quiet' /\ NoMenuAtStart' /\ NoneLeavesFirst'
<1> USE ShellVariables DEF ShellsInv, There
<1>1. sent[s] \in Seq(Requests) /\ queue[s] \in Seq(Callbacks)
  BY DEF ShellTypeOK
<1>2. CASE Dispatch(s)
  <2>1. Head(sent[s]) \in Requests
    BY <1>1, <1>2 DEF Dispatch
  <2>2. Head(sent[s]).what \in Callbacks /\ Head(sent[s]).what # "exit"
    BY <2>1 DEF Requests, Callbacks, Says
  <2>3. \A i \in DOMAIN Append(queue[s], Head(sent[s]).what) :
          Append(queue[s], Head(sent[s]).what)[i] = "exit" =>
            i \in DOMAIN queue[s] /\ queue[s][i] = "exit"
    BY <1>1, <2>2, Appended
  <2>4. /\ shell[s] \in {"listening", "sending"}
        /\ \A t \in Shells \ {s} : queue'[t] = queue[t] /\ sent'[t] = sent[t]
        /\ queue'[s] = Append(queue[s], Head(sent[s]).what)
        /\ UNCHANGED <<shell, arguments, exited, menu>>
    BY <1>2 DEF Dispatch, Serving
  <2>5. Quiet' /\ NoMenuAtStart'
    BY <2>4 DEF Quiet, NoMenuAtStart
  <2>6. NoneLeavesFirst'
    BY <2>3, <2>4 DEF NoneLeavesFirst
  <2> QED  BY <2>5, <2>6
<1>3. CASE RunNext(s) /\ Head(queue[s]) = "exit"
  BY <1>3, ShellsOfEnding DEF RunNext, EndAll
<1>4. CASE RunNext(s) /\ Head(queue[s]) # "exit"
  <2>1. /\ shell[s] \in {"listening", "sending"}
        /\ \A t \in Shells \ {s} : queue'[t] = queue[t] /\ menu'[t] = menu[t]
        /\ queue'[s] = Tail(queue[s])
        /\ UNCHANGED <<shell, arguments, exited, sent>>
    BY <1>4 DEF RunNext
  <2>2. queue[s] # << >>
    BY <1>4 DEF RunNext
  <2>3. \A i \in DOMAIN Tail(queue[s]) : \E j \in DOMAIN queue[s] : Tail(queue[s])[i] = queue[s][j]
    <3> DEFINE q == queue[s]
    <3>1. \A i \in DOMAIN Tail(q) : i + 1 \in DOMAIN q /\ Tail(q)[i] = q[i + 1]
      BY <1>1, <2>2, Taken
    <3> HIDE DEF q
    <3>2. \A i \in DOMAIN Tail(q) : \E j \in DOMAIN q : Tail(q)[i] = q[j]
      BY <3>1
    <3> QED  BY <3>2 DEF q
  <2>4. Quiet' /\ NoMenuAtStart'
    BY <2>1 DEF Quiet, NoMenuAtStart
  <2>5. NoneLeavesFirst'
    <3>1. \A t \in Shells : \A i \in DOMAIN queue'[t] :
            \E j \in DOMAIN queue[t] : queue'[t][i] = queue[t][j]
      <4> SUFFICES ASSUME NEW t \in Shells, NEW i \in DOMAIN queue'[t]
                   PROVE  \E j \in DOMAIN queue[t] : queue'[t][i] = queue[t][j]
        OBVIOUS
      <4>1. CASE t = s
        <5>1. queue'[t] = Tail(queue[s])
          BY <2>1, <4>1
        <5> QED  BY <2>3, <4>1, <5>1
      <4>2. CASE t # s
        <5>1. queue'[t] = queue[t]
          BY <2>1, <4>2
        <5> QED  BY <5>1
      <4> QED  BY <4>1, <4>2
    <3> QED  BY <3>1 DEF NoneLeavesFirst
  <2> QED  BY <2>4, <2>5
<1> QED  BY <1>2, <1>3, <1>4

\* Most steps leave what is asked and answered alone, and the daemon where it waits.
LEMMA AskingLeftAlone ==
  ASSUME AskingInv, There' => There, UNCHANGED <<sent, answer, late>>, lost => lost',
         \/ daemon' = daemon
         \/ daemon \notin {"asking", "opening"} /\ daemon' \notin {"asking", "opening", "refused"}
  PROVE  AskingInv'
<1> USE DEF AskingInv, There
<1>1. Awaited'
  BY DEF Awaited
<1>2. MenusAreAwaited'
  BY DEF MenusAreAwaited
<1>3. Reasons'
  BY DEF Reasons
<1> QED  BY <1>1, <1>2, <1>3

\* A request that is not waited for and is not for a menu may be added to any.
LEMMA AskingWithAnother ==
  ASSUME AskingInv, ShellTypeOK, UNCHANGED <<daemon, answer, late, lost>>,
         NEW t \in Shells, Request(t, "settings", FALSE)
  PROVE  AskingInv'
<1> DEFINE r == [what |-> "settings", awaited |-> FALSE]
<1>1. r \in Requests /\ ~r.awaited /\ r.what \notin Says
  BY DEF Requests, Says
<1> HIDE DEF r
<1>2. sent[t] \in Seq(Requests)
  BY DEF ShellTypeOK
<1>3. sent'[t] = Append(sent[t], r) /\ \A s \in Shells \ {t} : sent'[s] = sent[s]
  BY ShellVariables DEF Request, r
<1>4. \A i \in DOMAIN sent'[t] : sent'[t][i] = r \/ (i \in DOMAIN sent[t] /\ sent'[t][i] = sent[t][i])
  <2> DEFINE q == Append(sent[t], r)
             n == Len(sent[t]) + 1
  <2>1. DOMAIN q = DOMAIN sent[t] \cup {n} /\ q[n] = r
    BY <1>1, <1>2, Appended
  <2>2. \A i \in DOMAIN sent[t] : q[i] = sent[t][i]
    BY <1>1, <1>2, Appended
  <2>3. sent'[t] = q
    BY <1>3
  <2> HIDE DEF q, n
  <2> QED  BY <2>1, <2>2, <2>3
<1>5. \A s \in Shells : \A i \in DOMAIN sent'[s] :
        \/ sent'[s][i] = r
        \/ i \in DOMAIN sent[s] /\ sent'[s][i] = sent[s][i]
  BY <1>3, <1>4
<1>6. Awaited'
  BY <1>1, <1>5 DEF AskingInv, Awaited
<1>7. MenusAreAwaited'
  BY <1>1, <1>5 DEF AskingInv, MenusAreAwaited, There
<1>8. Reasons'
  BY DEF AskingInv, Reasons, There
<1> QED  BY <1>6, <1>7, <1>8 DEF AskingInv

\* While the daemon waits for nothing, it may ask for anything.
LEMMA AskingForOne ==
  ASSUME AskingInv, ShellTypeOK, UNCHANGED <<late, lost>>, There,
         daemon \notin {"asking", "opening"},
         NEW t \in Shells, NEW what \in Words, Ask(t, what),
         daemon' = "asking" \/ (daemon' = "opening" /\ what = "settings")
  PROVE  AskingInv'
<1> DEFINE r == [what |-> what, awaited |-> TRUE]
<1>1. r \in Requests /\ r.awaited /\ r.what = what
  BY DEF Requests, Words
<1> HIDE DEF r
<1>2. sent[t] \in Seq(Requests)
  BY DEF ShellTypeOK
<1>3. /\ sent'[t] = Append(sent[t], r)
      /\ \A s \in Shells \ {t} : sent'[s] = sent[s]
      /\ answer' = "waiting"
  BY ShellVariables DEF Ask, Request, r
<1>4. /\ sent'[t][Len(sent[t]) + 1] = r
      /\ \A i \in DOMAIN sent'[t] :
           i = Len(sent[t]) + 1 \/ (i \in DOMAIN sent[t] /\ sent'[t][i] = sent[t][i])
  <2> DEFINE q == Append(sent[t], r)
             n == Len(sent[t]) + 1
  <2>1. DOMAIN q = DOMAIN sent[t] \cup {n} /\ q[n] = r
    BY <1>1, <1>2, Appended
  <2>2. \A i \in DOMAIN sent[t] : q[i] = sent[t][i]
    BY <1>1, <1>2, Appended
  <2>3. sent'[t] = q
    BY <1>3
  <2> HIDE DEF q
  <2>4. /\ sent'[t][n] = r
        /\ \A i \in DOMAIN sent'[t] : i = n \/ (i \in DOMAIN sent[t] /\ sent'[t][i] = sent[t][i])
    <3> HIDE DEF n
    <3> QED  BY <2>1, <2>2, <2>3
  <2> QED  BY <2>4
<1>5. \A s \in Shells : \A i \in DOMAIN sent'[s] :
        \/ s = t /\ i = Len(sent[t]) + 1 /\ sent'[s][i] = r
        \/ i \in DOMAIN sent[s] /\ sent'[s][i] = sent[s][i]
  BY <1>3, <1>4
<1>6. \A s \in Shells : \A i \in DOMAIN sent[s] : ~sent[s][i].awaited
  BY DEF AskingInv, Awaited
<1>7. Awaited'
  BY <1>1, <1>3, <1>5, <1>6 DEF Awaited
<1>8. MenusAreAwaited'
  BY <1>1, <1>5 DEF AskingInv, MenusAreAwaited, There, Says
<1>9. Reasons'
  BY <1>3 DEF Reasons
<1> QED  BY <1>7, <1>8, <1>9 DEF AskingInv

\* The wait is over: with an answer, by the end of the receiver, by its time running out,
\* or because the daemon itself is gone.
LEMMA AskingNoMore ==
  ASSUME AskingInv, ShellTypeOK, StopAsking, There' => There, UNCHANGED lost,
         late => late', daemon' \notin {"asking", "opening"},
         There' => late' \/ answer # "waiting",
         daemon' = "refused" => daemon \in {"asking", "opening"} /\ There /\ answer # "taken"
  PROVE  AskingInv'
<1>1. \A s \in Shells : /\ DOMAIN sent'[s] = DOMAIN sent[s]
                        /\ \A i \in DOMAIN sent[s] : /\ ~sent'[s][i].awaited
                                                     /\ sent'[s][i].what = sent[s][i].what
  <2>1. \A r \in Requests : /\ [r EXCEPT !.awaited = FALSE].awaited = FALSE
                            /\ [r EXCEPT !.awaited = FALSE].what = r.what
    BY DEF Requests
  <2>2. \A s \in Shells : \A i \in DOMAIN sent[s] : sent[s][i] \in Requests
    <3>1. \A s \in Shells : sent[s] \in Seq(Requests)
      BY DEF ShellTypeOK
    <3> QED  BY <3>1
  <2>3. \A s \in Shells : sent'[s] = [i \in DOMAIN sent[s] |-> [sent[s][i] EXCEPT !.awaited = FALSE]]
    BY DEF StopAsking
  <2> SUFFICES ASSUME NEW s \in Shells
               PROVE  /\ DOMAIN sent'[s] = DOMAIN sent[s]
                      /\ \A i \in DOMAIN sent[s] : /\ ~sent'[s][i].awaited
                                                   /\ sent'[s][i].what = sent[s][i].what
    OBVIOUS
  <2>4. /\ DOMAIN sent'[s] = DOMAIN sent[s]
        /\ \A i \in DOMAIN sent[s] : sent'[s][i] = [sent[s][i] EXCEPT !.awaited = FALSE]
    BY <2>3
  <2>5. ASSUME NEW i \in DOMAIN sent[s]
        PROVE  ~sent'[s][i].awaited /\ sent'[s][i].what = sent[s][i].what
    <3>1. sent[s][i] \in Requests /\ sent'[s][i] = [sent[s][i] EXCEPT !.awaited = FALSE]
      BY <2>2, <2>4
    <3> QED  BY <2>1, <3>1
  <2> QED  BY <2>4, <2>5
<1>2. Awaited'
  BY <1>1 DEF Awaited
<1>3. MenusAreAwaited'
  BY <1>1 DEF AskingInv, Awaited, MenusAreAwaited
<1>4. Reasons'
  BY DEF AskingInv, Reasons, StopAsking, ShellTypeOK, There
<1> QED  BY <1>2, <1>3, <1>4 DEF AskingInv

\* With a shell go the requests it has not taken.
LEMMA AskingTheGone ==
  ASSUME AskingInv, ShellTypeOK, NEW s \in Shells, EndAll(s), UNCHANGED <<daemon, late>>,
         lost => lost',
         There => lost' \/ sent[s] = << >>
  PROVE  AskingInv'
<1>1. \A t \in Shells : sent'[t] = sent[t] \/ DOMAIN sent'[t] = {}
  BY ShellVariables, NothingIn DEF EndAll
<1>2. DOMAIN sent'[s] = {}
  BY ShellVariables, NothingIn DEF EndAll
<1>3. /\ \/ answer' = answer
         \/ answer' = "failed" /\ \E i \in DOMAIN sent[s] : sent[s][i].awaited
      /\ answer' \in {answer, "failed"}
  BY DEF EndAll, End
<1>4. Awaited'
  BY <1>1, <1>2, <1>3 DEF AskingInv, Awaited
<1>5. MenusAreAwaited'
  BY <1>1 DEF AskingInv, MenusAreAwaited, There
<1>6. There' /\ answer' = "failed" => lost'
  BY <1>3, NothingIn DEF AskingInv, Reasons, There
<1>7. Reasons'
  BY <1>3, <1>6 DEF AskingInv, Reasons, There
<1> QED  BY <1>4, <1>5, <1>7 DEF AskingInv

\* A request that is taken is answered.
LEMMA AskingTheOneThatAnswers ==
  ASSUME AskingInv, ShellTypeOK, NEW s \in Shells, Dispatch(s), UNCHANGED <<daemon, late>>
  PROVE  AskingInv'
<1>1. sent[s] \in Seq(Requests) /\ sent[s] # << >>
  BY DEF ShellTypeOK, Dispatch
<1>2. /\ sent'[s] = Tail(sent[s])
      /\ \A t \in Shells \ {s} : sent'[t] = sent[t]
      /\ answer' = IF sent[s][1].awaited THEN "taken" ELSE answer
      /\ lost' = lost
      /\ 1 \in DOMAIN sent[s]
  BY <1>1, ShellVariables, Taken DEF Dispatch
<1> DEFINE From(t, i) == IF t = s THEN i + 1 ELSE i
<1>3. \A i \in DOMAIN sent'[s] :
        i + 1 \in DOMAIN sent[s] /\ sent'[s][i] = sent[s][i + 1] /\ i + 1 # 1
  BY <1>1, <1>2, Taken
<1>4. \A i, j \in DOMAIN sent'[s] : i + 1 = j + 1 => i = j
  BY <1>1, <1>2, Taken
<1>5. ASSUME NEW t \in Shells, NEW i \in DOMAIN sent'[t]
      PROVE  /\ From(t, i) \in DOMAIN sent[t] /\ sent'[t][i] = sent[t][From(t, i)]
             /\ t = s => From(t, i) # 1
  <2>1. CASE t = s
    BY <1>3, <2>1
  <2>2. CASE t # s
    BY <1>2, <2>2
  <2> QED  BY <2>1, <2>2
<1>6. ASSUME NEW t \in Shells, NEW i \in DOMAIN sent'[t], NEW j \in DOMAIN sent'[t],
             From(t, i) = From(t, j)
      PROVE  i = j
  BY <1>4, <1>6
<1> HIDE DEF From
<1>7. Awaited'
  <2>1. ASSUME NEW t \in Shells, NEW i \in DOMAIN sent'[t], sent'[t][i].awaited
        PROVE  answer' = "waiting" /\ daemon \in {"asking", "opening"}
    BY <1>2, <1>5, <2>1 DEF AskingInv, Awaited
  <2>2. ASSUME NEW t \in Shells, NEW u \in Shells, NEW i \in DOMAIN sent'[t], NEW j \in DOMAIN sent'[u],
               sent'[t][i].awaited, sent'[u][j].awaited
        PROVE  t = u /\ i = j
    BY <1>5, <1>6, <2>2 DEF AskingInv, Awaited
  <2> QED  BY <2>1, <2>2 DEF Awaited
<1>8. MenusAreAwaited'
  BY <1>5 DEF AskingInv, MenusAreAwaited, There
<1>9. Reasons'
  BY <1>2 DEF AskingInv, Reasons, There
<1> QED  BY <1>7, <1>8, <1>9 DEF AskingInv

\* While the Win32 menu is open, no shell comes nearer to a menu of its own.
LEMMA ClickLeftAlone ==
  ASSUME OneMenuPerClick, late => late', lost => lost',
         daemon' = "menu" => daemon = "menu",
         daemon = "menu" /\ ~late' /\ ~lost' =>
           \A s \in Shells :
             /\ \A i \in DOMAIN queue'[s] :
                  \/ queue'[s][i] \notin Says
                  \/ \E j \in DOMAIN queue[s] : queue'[s][i] = queue[s][j]
             /\ menu[s].loading = 0 => menu'[s].loading = 0
  PROVE  OneMenuPerClick'
BY DEF OneMenuPerClick

\* The Win32 menu is opened where nobody listens.
LEMMA ClickWithoutShell ==
  ASSUME ShellsInv, Serving = {}, UNCHANGED <<queue, menu>>
  PROVE  OneMenuPerClick'
<1>1. \A s \in Shells : queue[s] = << >> /\ menu[s].loading = 0
  BY DEF ShellsInv, Quiet, Serving
<1>2. \A s \in Shells : DOMAIN queue[s] = {} /\ menu[s].loading = 0
  BY <1>1, NothingIn
<1> QED  BY <1>2 DEF OneMenuPerClick

LEMMA ClickOfEnding ==
  ASSUME ClickInv, NEW s \in Shells, End(s), UNCHANGED <<daemon, late>>, lost => lost'
  PROVE  OneMenuPerClick'
<1>1. NoMenu.loading = 0
  BY DEF NoMenu
<1> HIDE DEF NoMenu
<1>2. \A t \in Shells :
        /\ queue'[t] = queue[t] \/ DOMAIN queue'[t] = {}
        /\ menu'[t] = menu[t] \/ menu'[t].loading = 0
  BY <1>1, NothingIn, ShellVariables DEF End, ClickInv, ShellsInv
<1> QED  BY <1>2, ClickLeftAlone DEF ClickInv

LEMMA ClickOfShells ==
  ASSUME ClickInv, NEW s \in Shells, ShellStep(s)
  PROVE  OneMenuPerClick'
<1> USE DEF ClickInv, ShellsInv
<1>0. daemon' = daemon /\ late' = late /\ (lost => lost')
  <2>1. daemon' = daemon /\ late' = late
    BY DEF ShellStep, daemonVars, history
  <2>2. lost' = lost \/ lost' = TRUE
    BY DEF ShellStep, AlreadyRunning, WatchTheDaemon, StartServer, Exited,
           OnAnchorLoaded, OlderClosed, Dispatch, RunNext, Sent
  <2> QED  BY <2>1, <2>2
<1>1. CASE End(s)
  BY <1>0, <1>1, ClickOfEnding
<1>2. CASE (AlreadyRunning(s) \/ WatchTheDaemon(s, There)) /\ ~End(s)
  BY <1>0, <1>2, ClickLeftAlone DEF AlreadyRunning, WatchTheDaemon, EndAll
<1>3. CASE StartServer(s, There) /\ ~End(s)
  <2>1. arguments[s] # "--menu" /\ menu[s] \in MenuType
    BY DEF NoMenuAtStart, ShellTypeOK
  <2>2. Began(menu[s], arguments[s]).loading = menu[s].loading
    BY <2>1 DEF Began, ShowSettings, MenuType
  <2>3. \A t \in Shells : queue'[t] = queue[t] /\ menu'[t].loading = menu[t].loading
    BY <1>3, <2>2, ShellVariables DEF StartServer, EndAll
  <2> QED  BY <1>0, <2>3, ClickLeftAlone
<1>4. CASE Exited(s, There)
  <2>1. queue[s] \in Seq(Callbacks) /\ "exit" \in Callbacks /\ "exit" \notin Says
    BY DEF ShellTypeOK, Callbacks, Says
  <2> DEFINE q == Append(queue[s], "exit")
  <2>2. \A i \in DOMAIN q : q[i] = "exit" \/ (i \in DOMAIN queue[s] /\ q[i] = queue[s][i])
    BY <2>1, Appended
  <2>3. /\ queue'[s] = q
        /\ \A t \in Shells \ {s} : queue'[t] = queue[t]
        /\ menu' = menu
    BY <1>4, ShellVariables DEF Exited
  <2> HIDE DEF q
  <2>4. \A t \in Shells : \A i \in DOMAIN queue'[t] :
          queue'[t][i] \notin Says \/ \E j \in DOMAIN queue[t] : queue'[t][i] = queue[t][j]
    BY <2>1, <2>2, <2>3
  <2> QED  BY <1>0, <2>3, <2>4, ClickLeftAlone
<1>5. CASE OnAnchorLoaded(s) \/ OlderClosed(s) \/ Sent(s)
  <2>1. \A t \in Shells : menu[t].loading = 0 => menu'[t].loading = 0
    BY <1>5, LoadingKept
  <2>2. queue' = queue
    BY <1>5 DEF OnAnchorLoaded, OlderClosed, Sent
  <2> QED  BY <1>0, <2>1, <2>2, ClickLeftAlone
<1>6. CASE Dispatch(s)
  <2>1. sent[s] \in Seq(Requests) /\ sent[s] # << >> /\ queue[s] \in Seq(Callbacks)
    BY <1>6 DEF ShellTypeOK, Dispatch
  <2> DEFINE what == Head(sent[s]).what
             q == Append(queue[s], what)
  <2>2. Head(sent[s]) \in Requests /\ 1 \in DOMAIN sent[s] /\ Head(sent[s]) = sent[s][1]
    BY <2>1, Taken
  <2>3. what \in Callbacks
    BY <2>2 DEF Requests, Callbacks
  <2>4. daemon = "menu" /\ ~late => what \notin Says
    BY <2>2 DEF AskingInv, MenusAreAwaited, There
  <2>5. \A i \in DOMAIN q : q[i] = what \/ (i \in DOMAIN queue[s] /\ q[i] = queue[s][i])
    BY <2>1, <2>3, Appended
  <2>6. /\ queue'[s] = q
        /\ \A t \in Shells \ {s} : queue'[t] = queue[t]
        /\ menu' = menu
    BY <1>6, ShellVariables DEF Dispatch
  <2> HIDE DEF what, q
  <2>7. daemon = "menu" /\ ~late => \A t \in Shells : \A i \in DOMAIN queue'[t] :
          queue'[t][i] \notin Says \/ \E j \in DOMAIN queue[t] : queue'[t][i] = queue[t][j]
    BY <2>4, <2>5, <2>6
  <2> QED  BY <1>0, <2>6, <2>7, ClickLeftAlone
<1>7. CASE RunNext(s) /\ ~End(s)
  <2>1. queue[s] \in Seq(Callbacks) /\ queue[s] # << >> /\ menu[s] \in MenuType
    BY <1>7 DEF ShellTypeOK, RunNext
  <2> DEFINE q == queue[s]
  <2>2. Head(q) \in Callbacks /\ 1 \in DOMAIN q /\ Head(q) = q[1]
    BY <2>1, Taken
  <2>3. \A i \in DOMAIN Tail(q) : i + 1 \in DOMAIN q /\ Tail(q)[i] = q[i + 1]
    BY <2>1, Taken
  <2>4. /\ queue'[s] = Tail(q)
        /\ \A t \in Shells \ {s} : queue'[t] = queue[t] /\ menu'[t] = menu[t]
        /\ Head(q) # "exit"
        /\ Head(q) = "settings" => menu'[s] = ShowSettings(menu[s])
    BY <1>7, ShellVariables DEF RunNext, EndAll
  <2>5. Head(q) = "settings" => menu'[s].loading = menu[s].loading
    BY <2>1, <2>4 DEF ShowSettings, MenuType
  <2>6. daemon = "menu" /\ ~late /\ ~lost => Head(q) = "settings"
    BY <2>2, <2>4 DEF OneMenuPerClick, Callbacks
  <2> HIDE DEF q
  <2>7. \A i \in DOMAIN Tail(q) : \E j \in DOMAIN q : Tail(q)[i] = q[j]
    BY <2>3
  <2>8. \A t \in Shells : \A i \in DOMAIN queue'[t] : \E j \in DOMAIN queue[t] : queue'[t][i] = queue[t][j]
    <3> SUFFICES ASSUME NEW t \in Shells
                 PROVE  \A i \in DOMAIN queue'[t] :
                          \E j \in DOMAIN queue[t] : queue'[t][i] = queue[t][j]
      OBVIOUS
    <3>1. CASE t = s
      <4>1. queue'[t] = Tail(q) /\ queue[t] = q
        BY <2>4, <3>1 DEF q
      <4> QED  BY <2>7, <4>1
    <3>2. CASE t # s
      <4>1. queue'[t] = queue[t]
        BY <2>4, <3>2
      <4> QED  BY <4>1
    <3> QED  BY <3>1, <3>2
  <2>9. daemon = "menu" /\ ~late' /\ ~lost' =>
          \A t \in Shells : menu[t].loading = 0 => menu'[t].loading = 0
    BY <1>0, <2>4, <2>5, <2>6
  <2> QED  BY <1>0, <2>8, <2>9, ClickLeftAlone
<1> QED  BY <1>1, <1>2, <1>3, <1>4, <1>5, <1>6, <1>7 DEF ShellStep

LEMMA AskingOfShells ==
  ASSUME ClickInv, There' => There, NEW s \in Shells, ShellStep(s)
  PROVE  AskingInv'
<1> USE DEF ClickInv, ShellsInv
<1>1. UNCHANGED <<daemon, late>>
  BY DEF ShellStep, daemonVars, history
<1>2. CASE EndAll(s)
  <2>1. (lost => lost') /\ (There => lost' \/ sent[s] = << >>)
    <3>1. CASE AlreadyRunning(s) \/ WatchTheDaemon(s, There)
      <4>1. shell[s] \in {"launched", "watching"} /\ lost' = lost
        BY <3>1 DEF AlreadyRunning, WatchTheDaemon
      <4> QED  BY <4>1 DEF Quiet
    <3>2. CASE StartServer(s, There)
      <4>1. shell[s] = "starting" /\ (lost' = lost \/ lost' = TRUE)
        BY <3>2 DEF StartServer
      <4> QED  BY <4>1 DEF Quiet
    <3>3. CASE RunNext(s)
      <4>1. lost' = lost /\ shell[s] = "listening" /\ shell'[s] = "gone"
        BY <1>2, <3>3, ShellVariables DEF RunNext, EndAll, End, GoOn
      <4>2. Head(queue[s]) = "exit"
        BY <3>3, <4>1 DEF RunNext
      <4>3. queue[s] \in Seq(Callbacks) /\ queue[s] # << >>
        BY <3>3 DEF RunNext, ShellTypeOK
      <4>4. ~There
        BY <4>2, <4>3, Taken DEF NoneLeavesFirst
      <4> QED  BY <4>1, <4>4
    <3>4. CASE \/ Exited(s, There) \/ OnAnchorLoaded(s) \/ OlderClosed(s) \/ Dispatch(s) \/ Sent(s)
      <4>1. lost' = lost /\ (shell'[s] = shell[s] \/ shell'[s] = "listening")
        BY <3>4, ShellVariables DEF Exited, OnAnchorLoaded, OlderClosed, Dispatch, Sent, GoOn
      <4>2. shell'[s] = "gone"
        BY <1>2, ShellVariables DEF EndAll, End, GoOn
      <4> QED  BY <4>1, <4>2 DEF Quiet
    <3> QED  BY <3>1, <3>2, <3>3, <3>4 DEF ShellStep
  <2> QED  BY <1>1, <1>2, <2>1, AskingTheGone
<1>3. CASE AlreadyRunning(s) /\ End(s) /\ ~EndAll(s)
  <2>1. DOMAIN sent[s] = {}
    BY <1>3, NothingIn DEF AlreadyRunning, Quiet
  <2>2. UNCHANGED <<answer, lost>>
    BY <1>3, <2>1 DEF AlreadyRunning, End
  <2>3. UNCHANGED sent \/ \E t \in Serving : Request(t, "settings", FALSE)
    BY <1>3, ShellVariables DEF AlreadyRunning, End, GoOn
  <2>4. CASE UNCHANGED sent
    BY <1>1, <2>2, <2>4, AskingLeftAlone
  <2>5. ASSUME NEW t \in Serving, Request(t, "settings", FALSE)
        PROVE  AskingInv'
    BY <1>1, <2>2, <2>5, AskingWithAnother DEF Serving
  <2> QED  BY <2>3, <2>4, <2>5
<1>4. CASE Dispatch(s)
  BY <1>1, <1>4, AskingTheOneThatAnswers
<1>5. CASE /\ ~EndAll(s)
           /\ ~(AlreadyRunning(s) /\ End(s))
           /\ ~Dispatch(s)
  <2>1. UNCHANGED <<sent, answer, lost>>
    BY <1>5 DEF ShellStep, AlreadyRunning, WatchTheDaemon, StartServer, Exited, OnAnchorLoaded,
                OlderClosed, RunNext, Sent
  <2> QED  BY <1>1, <2>1, AskingLeftAlone
<1> QED  BY <1>2, <1>3, <1>4, <1>5

LEMMA ClickInvOfShells ==
  ASSUME ClickInv, [Next]_vars, NEW s \in Shells, ShellStep(s)
  PROVE  ClickInv'
<1>1. There' => There
  BY NoReturn
<1>2. ShellsInv'
  BY <1>1, TypesOfShells, ShellsOfServing, ShellsOfTheMenu, ShellsOfDispatching
  DEF ClickInv, ShellsInv, ShellStep
<1>3. AskingInv' /\ OneMenuPerClick'
  BY <1>1, AskingOfShells, ClickOfShells
<1> QED  BY <1>2, <1>3 DEF ClickInv

LEMMA ClickInvOfUsers ==
  ASSUME ClickInv, [Next]_vars, NEW s \in Shells, UseShell(s) \/ KillShell(s)
  PROVE  ClickInv'
<1>1. There' => There
  BY NoReturn
<1>2. CASE UseShell(s)
  <2>1. /\ Dismiss(s) \/ ChooseSettings(s) \/ ChooseCommand(s, There) \/ CloseSettings(s)
        /\ UNCHANGED <<daemon, late>>
    BY <1>2 DEF UseShell, daemonVars, history
  <2>2. UNCHANGED <<sent, answer, lost, queue>>
    BY <2>1 DEF Dismiss, ChooseSettings, ChooseCommand, CloseSettings
  <2>3. ShellsInv'
    BY <1>1, <2>1, TypesOfShells, ShellsOfTheMenu DEF ClickInv, ShellsInv
  <2>4. AskingInv'
    BY <1>1, <2>1, <2>2, AskingLeftAlone DEF ClickInv
  <2>5. \A t \in Shells : menu[t].loading = 0 => menu'[t].loading = 0
    BY <2>1, LoadingKept DEF ClickInv, ShellsInv
  <2>6. OneMenuPerClick'
    BY <2>1, <2>2, <2>5, ClickLeftAlone DEF ClickInv
  <2> QED  BY <2>3, <2>4, <2>6 DEF ClickInv
<1>3. CASE KillShell(s)
  <2>1. Killed(s) /\ EndAll(s) /\ End(s) /\ lost' /\ UNCHANGED <<daemon, late>>
    BY <1>3 DEF KillShell, Killed, EndAll, daemonVars
  <2>2. ShellsInv'
    BY <1>1, <2>1, TypesOfShells, ShellsOfServing DEF ClickInv, ShellsInv
  <2>3. AskingInv' /\ OneMenuPerClick'
    BY <2>1, AskingTheGone, ClickOfEnding DEF ClickInv, ShellsInv
  <2> QED  BY <2>2, <2>3 DEF ClickInv
<1> QED  BY <1>2, <1>3

LEMMA ClickInvOfAsking ==
  ASSUME ClickInv, [Next]_vars, daemon \notin {"asking", "opening"}, There,
         NEW t \in Serving, NEW what \in Words, Ask(t, what),
         daemon' = "asking" \/ (daemon' = "opening" /\ what = "settings"),
         UNCHANGED <<shell, arguments, exited, queue, menu, lost, late>>
  PROVE  ClickInv'
<1>1. ShellsInv'
  BY NoReturn, TypesOfShells, ShellsOfDaemon DEF ClickInv, ShellsInv
<1>2. AskingInv'
  BY AskingForOne DEF ClickInv, ShellsInv, Serving
<1>3. OneMenuPerClick'
  BY DEF OneMenuPerClick
<1> QED  BY <1>1, <1>2, <1>3 DEF ClickInv

LEMMA ClickInvOfStarting ==
  ASSUME ClickInv, [Next]_vars, start("") \/ start("--settings") \/ UNCHANGED shellVars,
         UNCHANGED late,
         \/ daemon' = daemon
         \/ /\ daemon \notin {"asking", "opening"}
            /\ daemon' \notin {"asking", "opening", "refused"},
         daemon' = "menu" => daemon \in {"menu", "refused"} \/ Serving = {}
  PROVE  ClickInv'
<1>1. UNCHANGED <<sent, answer, queue, menu, lost>>
  BY DEF start, shellVars
<1>2. ShellsInv'
  BY NoReturn, TypesOfShells, ShellsOfDaemon DEF ClickInv, ShellsInv
<1>3. AskingInv'
  BY <1>1, NoReturn, AskingLeftAlone DEF ClickInv
<1>4. OneMenuPerClick'
  <2>1. CASE Serving = {}
    BY <1>1, <2>1, ClickWithoutShell DEF ClickInv
  <2>2. CASE daemon = "refused"
    BY <1>1, <2>2 DEF ClickInv, AskingInv, Reasons, OneMenuPerClick
  <2>3. CASE Serving # {} /\ daemon # "refused"
    BY <1>1, <2>3, ClickLeftAlone DEF ClickInv
  <2> QED  BY <2>1, <2>2, <2>3
<1> QED  BY <1>2, <1>3, <1>4 DEF ClickInv

LEMMA ClickInvOfWaiting ==
  ASSUME ClickInv, [Next]_vars, Answered \/ Stop \/ KillDaemon
  PROVE  ClickInv'
<1>1. /\ StopAsking
      /\ UNCHANGED <<shell, arguments, exited, queue, menu, lost>>
      /\ late => late'
      /\ daemon' \in {"looping", "refused", "gone"}
  <2>1. CASE Answered
    <3>1. \/ late' = late
          \/ late' = (late \/ answer = "waiting")
      BY <2>1 DEF Answered
    <3>2. late => late'
      BY <3>1, Zenon
    <3>3. /\ StopAsking
          /\ UNCHANGED <<shell, arguments, exited, queue, menu, lost>>
          /\ daemon' \in {"looping", "refused"}
      BY <2>1 DEF Answered
    <3> QED  BY <3>2, <3>3
  <2>2. CASE Stop \/ KillDaemon
    BY <2>2 DEF Stop, KillDaemon, Gone, history
  <2> QED  BY <2>1, <2>2
<1>2. ShellsInv'
  BY <1>1, NoReturn, TypesOfShells, ShellsOfDaemon DEF ClickInv, ShellsInv
<1>3. There' => late' \/ answer # "waiting"
  BY DEF Answered, Stop, KillDaemon, Gone, There
<1>4. daemon' = "refused" => daemon \in {"asking", "opening"} /\ There /\ answer # "taken"
  BY DEF Answered, Stop, KillDaemon, Gone, There
<1>5. AskingInv'
  BY <1>1, <1>3, <1>4, NoReturn, AskingNoMore DEF ClickInv, ShellsInv
<1>6. OneMenuPerClick'
  BY <1>1 DEF OneMenuPerClick
<1> QED  BY <1>2, <1>5, <1>6 DEF ClickInv

LEMMA ClickInvOfDaemon ==
  ASSUME ClickInv, [Next]_vars, Hover \/ Click \/ LeaveMenu \/ SettingsInMenu \/ DaemonThread
  PROVE  ClickInv'
<1>1. Label \in Words /\ "settings" \in Words
  BY DEF Label, Words, Says
<1>2. prewarm => start("") \/ UNCHANGED shellVars
  BY DEF prewarm
<1>3. CASE Hover \/ LeaveMenu \/ Command
  <2>1. /\ prewarm \/ UNCHANGED shellVars
        /\ UNCHANGED late
        /\ daemon' = daemon \/ (daemon = "menu" /\ daemon' = "looping")
    BY <1>3 DEF Hover, LeaveMenu, Command, history
  <2> QED  BY <1>2, <2>1, ClickInvOfStarting
<1>4. CASE FallBack
  BY <1>2, <1>4, ClickInvOfStarting DEF FallBack
<1>5. CASE Click
  <2>1. CASE Serving = {}
    BY <1>2, <1>5, <2>1, ClickInvOfStarting DEF Click
  <2>2. CASE Serving # {}
    <3>1. PICK t \in Serving : Ask(t, Label)
      BY <1>5, <2>2 DEF Click
    <3> QED  BY <1>1, <1>5, <2>2, <3>1, ClickInvOfAsking DEF Click, There
  <2> QED  BY <2>1, <2>2
<1>6. CASE SettingsInMenu
  <2>1. daemon = "menu" /\ UNCHANGED late
    BY <1>6 DEF SettingsInMenu
  <2>2. CASE \E t \in Serving : Ask(t, "settings")
    <3>1. PICK t \in Serving : Ask(t, "settings")
      BY <2>2
    <3>2. /\ daemon' = "opening"
          /\ UNCHANGED <<shell, arguments, exited, queue, menu, lost>>
      BY <1>6, <3>1 DEF SettingsInMenu, open_settings
    <3> QED  BY <1>1, <2>1, <3>1, <3>2, ClickInvOfAsking DEF There
  <2>3. CASE ~(\E t \in Serving : Ask(t, "settings"))
    <3>1. start("--settings") /\ daemon' = "looping"
      BY <1>6, <2>3 DEF SettingsInMenu, open_settings
    <3> QED  BY <2>1, <3>1, ClickInvOfStarting
  <2> QED  BY <2>2, <2>3
<1>7. CASE Answered \/ Stop
  BY <1>7, ClickInvOfWaiting DEF DaemonThread
<1> QED  BY <1>3, <1>4, <1>5, <1>6, <1>7 DEF DaemonThread

LEMMA ClickInvariant == Spec => []ClickInv
<1>1. Init => ClickInv
  <2> SUFFICES ASSUME Init
               PROVE  ClickInv
    OBVIOUS
  <2>1. /\ \A s \in Shells : /\ sent[s] = << >> /\ queue[s] = << >> /\ menu[s] = NoMenu
                             /\ exited[s] = "unwatched" /\ arguments[s] = ""
        /\ answer = "none" /\ daemon = "looping"
    BY DEF Init, ShellInit
  <2>2. NoMenu.loading = 0
    BY DEF NoMenu
  <2> HIDE DEF NoMenu
  <2>3. \A s \in Shells : DOMAIN sent[s] = {} /\ DOMAIN queue[s] = {}
    BY <2>1, NothingIn
  <2>4. ShellsInv
    BY <2>1, <2>2, <2>3, ShellsBeginTyped DEF ShellsInv, Quiet, NoMenuAtStart, NoneLeavesFirst
  <2>5. AskingInv
    BY <2>1, <2>3 DEF AskingInv, Awaited, MenusAreAwaited, Reasons
  <2>6. OneMenuPerClick
    BY <2>1 DEF OneMenuPerClick
  <2> QED  BY <2>4, <2>5, <2>6 DEF ClickInv
<1>2. ClickInv /\ [Next]_vars => ClickInv'
  <2> SUFFICES ASSUME ClickInv, [Next]_vars
               PROVE  ClickInv'
    OBVIOUS
  <2>1. CASE Hover \/ Click \/ LeaveMenu \/ SettingsInMenu \/ DaemonThread
    BY <2>1, ClickInvOfDaemon
  <2>2. CASE \E s \in Shells : ShellStep(s) \/ UseShell(s) \/ KillShell(s)
    BY <2>2, ClickInvOfShells, ClickInvOfUsers
  <2>3. CASE KillDaemon
    BY <2>3, ClickInvOfWaiting
  <2>4. CASE \/ StartByHand \/ Install \/ FiveSeconds \/ ExplorerRestarts \/ UNCHANGED vars
             \/ \E command \in {"pause", "resume", "quit"} : Tell(command)
    <3>1. /\ start("--settings") \/ UNCHANGED shellVars
          /\ UNCHANGED <<daemon, late>>
      BY <2>4 DEF StartByHand, Install, FiveSeconds, ExplorerRestarts, Tell, vars, daemonVars, history
    <3> QED  BY <3>1, ClickInvOfStarting
  <2> QED  BY <2>1, <2>2, <2>3, <2>4 DEF Next, Outside
<1> QED  BY <1>1, <1>2, PTL DEF Spec

\* A click that was left to the Win32 menu opens no other, however many shells there are,
\* start and end, and whatever else they are asked: unless one was slow, or came to an end.
THEOREM OneMenuOnTheScreen == Spec => []OneMenuPerClick
<1>1. ClickInv => OneMenuPerClick
  BY DEF ClickInv
<1> QED  BY <1>1, ClickInvariant, PTL

-----------------------------------------------------------------------------
(* The end of the daemon, as its shells hear of it *)

ExitIsQueued(s) == \E i \in DOMAIN queue[s] : queue[s][i] = "exit"

\* A shell that serves has listened for the end of the daemon; one that was told of it
\* has its own end to come; and none looks away from a daemon that is there.
Hears(s) ==
  /\ shell[s] \in {"listening", "sending"} => exited[s] # "unwatched"
  /\ exited[s] = "told" => ExitIsQueued(s)
  /\ exited[s] = "missed" => ~There

HearsInv == \A s \in Shells : Hears(s)

\* What a step of shell s may do: to listen, to be told, to queue or take a callback
\* other than the end, or to end.
LEMMA HearsOfShells ==
  ASSUME ShellTypeOK, HearsInv, There' => There,
         NEW s \in Shells, ShellStep(s) \/ UseShell(s) \/ KillShell(s)
  PROVE  HearsInv'
<1> USE ShellVariables DEF HearsInv, Hears, There
<1>1. queue[s] \in Seq(Callbacks)
  BY DEF ShellTypeOK
<1>2. ASSUME UNCHANGED <<exited, queue>>,
             \A t \in Shells : shell'[t] \in {"listening", "sending"} =>
                                shell[t] \in {"listening", "sending"}
      PROVE  HearsInv'
  BY <1>2 DEF ExitIsQueued
<1>3. ASSUME End(s)
      PROVE  HearsInv'
  <2>1. /\ shell'[s] = "gone" /\ exited'[s] = "unwatched"
        /\ \A t \in Shells \ {s} : /\ shell'[t] = shell[t] /\ exited'[t] = exited[t]
                                   /\ queue'[t] = queue[t]
    BY <1>3 DEF End, GoOn
  <2> QED
    BY <2>1 DEF ExitIsQueued
<1>4. ASSUME NEW word \in Callbacks, queue' = [queue EXCEPT ![s] = Append(@, word)],
             UNCHANGED shell,
             \/ UNCHANGED exited
             \/ word = "exit" /\ exited' = [exited EXCEPT ![s] = "told"]
      PROVE  HearsInv'
  <2>1. \A i \in DOMAIN queue[s] : i \in DOMAIN queue'[s] /\ queue'[s][i] = queue[s][i]
    BY <1>1, <1>4, Appended
  <2>2. ExitIsQueued(s) => ExitIsQueued(s)'
    BY <2>1 DEF ExitIsQueued
  <2>3. word = "exit" => ExitIsQueued(s)'
    <3>1. Len(queue[s]) + 1 \in DOMAIN queue'[s] /\ queue'[s][Len(queue[s]) + 1] = word
      BY <1>1, <1>4, Appended
    <3> QED
      BY <3>1 DEF ExitIsQueued
  <2>4. \A t \in Shells \ {s} : exited'[t] = exited[t] /\ queue'[t] = queue[t]
    BY <1>4
  <2>5. \A t \in Shells \ {s} : ExitIsQueued(t) => ExitIsQueued(t)'
    BY <2>4 DEF ExitIsQueued
  <2>6. exited'[s] = exited[s] \/ (word = "exit" /\ exited'[s] = "told")
    BY <1>4
  <2> QED
    BY <1>4, <2>2, <2>3, <2>4, <2>5, <2>6
<1>5. CASE StartServer(s, There)
  <2>1. CASE /\ GoOn(s, "listening") /\ UNCHANGED queue
             /\ \E outcome \in Subscribed(There) : exited' = [exited EXCEPT ![s] = outcome]
    <3>1. /\ exited'[s] = "watched" \/ (exited'[s] = "missed" /\ ~There)
          /\ \A t \in Shells \ {s} : exited'[t] = exited[t] /\ shell'[t] = shell[t]
      BY <2>1 DEF Subscribed, GoOn
    <3> QED
      BY <2>1, <3>1 DEF ExitIsQueued
  <2> QED
    BY <1>3, <1>5, <2>1 DEF StartServer, EndAll
<1>6. CASE AlreadyRunning(s) \/ WatchTheDaemon(s, There)
  BY <1>2, <1>3, <1>6 DEF AlreadyRunning, WatchTheDaemon, EndAll, GoOn
<1>7. CASE Exited(s, There)
  BY <1>4, <1>7 DEF Exited, Callbacks
<1>8. CASE Dispatch(s)
  <2>1. Head(sent[s]).what \in Callbacks
    <3>1. sent[s] \in Seq(Requests) /\ sent[s] # << >>
      BY <1>8 DEF Dispatch, ShellTypeOK
    <3>2. Head(sent[s]) \in Requests
      BY <3>1
    <3> QED
      BY <3>2 DEF Requests, Callbacks
  <2> QED
    BY <1>4, <1>8, <2>1 DEF Dispatch
<1>9. CASE RunNext(s)
  <2>1. CASE Head(queue[s]) = "exit"
    BY <1>3, <1>9, <2>1 DEF RunNext, EndAll
  <2>2. CASE Head(queue[s]) # "exit"
    <3>1. queue' = [queue EXCEPT ![s] = Tail(@)] /\ UNCHANGED <<shell, exited>>
      BY <1>9, <2>2 DEF RunNext
    <3>2. queue[s] # << >> /\ queue[s] \in Seq(Callbacks) /\ queue'[s] = Tail(queue[s])
      BY <1>1, <1>9, <3>1 DEF RunNext
    <3>3. ASSUME NEW i \in DOMAIN queue[s], queue[s][i] = "exit"
          PROVE  ExitIsQueued(s)'
      <4>1. i # 1 /\ i \in 1 .. Len(queue[s])
        BY <2>2, <3>2, <3>3
      <4>2. i - 1 \in DOMAIN Tail(queue[s]) /\ Tail(queue[s])[i - 1] = queue[s][i]
        BY <3>2, <4>1
      <4> QED
        BY <3>2, <3>3, <4>2 DEF ExitIsQueued
    <3>4. \A t \in Shells : ExitIsQueued(t) => ExitIsQueued(t)'
      BY <3>1, <3>3 DEF ExitIsQueued
    <3> QED
      BY <3>1, <3>4
  <2> QED
    BY <2>1, <2>2
<1>10. CASE OnAnchorLoaded(s) \/ OlderClosed(s) \/ Sent(s)
  BY <1>2, <1>10 DEF OnAnchorLoaded, OlderClosed, Sent, GoOn
<1>11. CASE UseShell(s)
  BY <1>2, <1>11 DEF UseShell, Dismiss, ChooseSettings, ChooseCommand, CloseSettings, GoOn
<1>12. CASE KillShell(s)
  BY <1>3, <1>12 DEF KillShell, Killed, EndAll
<1> QED
  BY <1>5, <1>6, <1>7, <1>8, <1>9, <1>10, <1>11, <1>12 DEF ShellStep

\* Whatever else happens tells no shell anything, and none begins to serve by it.
LEMMA HearsOfOthers ==
  ASSUME ShellTypeOK, HearsInv, There' => There,
         \/ Hover \/ Click \/ LeaveMenu \/ SettingsInMenu \/ DaemonThread
         \/ StartByHand \/ KillDaemon \/ Install \/ FiveSeconds \/ ExplorerRestarts
         \/ \E command \in {"pause", "resume", "quit"} : Tell(command)
         \/ UNCHANGED vars
  PROVE  HearsInv'
<1>1. UNCHANGED <<exited, queue>> /\ (UNCHANGED shell \/ start("") \/ start("--settings"))
  BY DEF Hover, Click, LeaveMenu, SettingsInMenu, DaemonThread, Answered, FallBack, Command, Stop,
         StartByHand, KillDaemon, Install, FiveSeconds, ExplorerRestarts, Tell, vars, shellVars,
         prewarm, open_settings, Ask, start
<1>2. \A t \in Shells : shell'[t] \in {"listening", "sending"} => shell'[t] = shell[t]
  BY <1>1, ShellVariables DEF start, Run, GoOn, shellVars
<1> QED
  BY <1>1, <1>2 DEF HearsInv, Hears, ExitIsQueued, There

\* Whoever is killed, late or started when: a shell ends of itself only after its daemon,
\* and one that serves when the daemon has ended can still be told, or has its end on
\* its queue, or has looked away between opening the process and adding the handler.
THEOREM EveryShellHearsTheEnd ==
  Spec => [](\A s \in Serving :
               IF There THEN exited[s] = "watched" /\ ~ExitIsQueued(s)
               ELSE exited[s] \in {"watched", "missed"} \/ ExitIsQueued(s))
<1> DEFINE Heard ==
      \A s \in Serving :
        IF There THEN exited[s] = "watched" /\ ~ExitIsQueued(s)
        ELSE exited[s] \in {"watched", "missed"} \/ ExitIsQueued(s)
<1>1. Init => HearsInv
  BY DEF Init, ShellInit, HearsInv, Hears
<1>2. ClickInv /\ HearsInv /\ [Next]_vars => HearsInv'
  <2> SUFFICES ASSUME ClickInv, HearsInv, [Next]_vars
               PROVE  HearsInv'
    OBVIOUS
  <2>1. ShellTypeOK /\ (There' => There)
    BY NoReturn DEF ClickInv, ShellsInv
  <2>2. CASE \E s \in Shells : ShellStep(s) \/ UseShell(s) \/ KillShell(s)
    BY <2>1, <2>2, HearsOfShells
  <2>3. CASE ~\E s \in Shells : ShellStep(s) \/ UseShell(s) \/ KillShell(s)
    BY <2>1, <2>3, HearsOfOthers DEF Next, Outside
  <2> QED  BY <2>2, <2>3
<1>3. ClickInv /\ HearsInv => Heard
  <2> SUFFICES ASSUME ClickInv, HearsInv, NEW s \in Serving
               PROVE  IF There THEN exited[s] = "watched" /\ ~ExitIsQueued(s)
                      ELSE exited[s] \in {"watched", "missed"} \/ ExitIsQueued(s)
    OBVIOUS
  <2>1. Hears(s) /\ s \in Shells /\ shell[s] \in {"listening", "sending"}
    BY DEF HearsInv, Serving
  <2>2. exited[s] \in {"unwatched", "watched", "missed", "told"}
    BY <2>1 DEF ClickInv, ShellsInv, ShellTypeOK
  <2>3. There => ~ExitIsQueued(s)
    BY <2>1 DEF ClickInv, ShellsInv, NoneLeavesFirst, ExitIsQueued
  <2> QED  BY <2>1, <2>2, <2>3 DEF Hears
<1> QED  BY <1>1, <1>2, <1>3, ClickInvariant, PTL DEF Spec
=================================================================================
