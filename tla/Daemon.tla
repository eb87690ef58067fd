------------------------------- MODULE Daemon -------------------------------
(***************************************************************************)
(* What becomes of the settings: run_pets of linux/main.cpp and of         *)
(* win/main.cpp, the commands that reach it (control.cpp), and the program *)
(* that edits and saves the file, the KDE module (kcm_dragonperch.cpp) on  *)
(* the one and the settings window (SettingsWindow.xaml.cs) on the other.  *)
(*                                                                         *)
(* The two builds differ where it matters.  On Linux a name on the bus is  *)
(* taken before anything is read, commands become flags on the bus thread, *)
(* and the file is replaced by renaming.  On Windows the control window is *)
(* made after the settings were read, a command is carried out where the   *)
(* loop dispatches its messages, and the file is overwritten in place.     *)
(*                                                                         *)
(* Of the commands only reload is here: PetHost has pausing and stopping.  *)
(* One settings program is open at a time; a half-written file is cut      *)
(* between two lines; the window's message is answered within its timeout. *)
(***************************************************************************)
EXTENDS SettingsFile

CONSTANTS
  HandWritten,   \* the files there may be, written by hand, before anything is saved
  Known,         \* Known[key]: the names a settings program shows boxes for
  Packs,         \* ids of the packs the daemon loaded
  Outputs,       \* names of the daemon's outputs
  Offered,       \* Offered[key]: what somebody may set a number to
  SliderEnd,     \* the highest speed the settings window can show
  PetsOptions,   \* what --pets may say; 0 stands for no such option
  Cuts,          \* bound: the lines there may be in a file whose writing failed
  MaxEdits,      \* bound: changes made in the settings program
  MaxCalls       \* bound: reloads on their way to the daemon

\* A name is its place in the alphabet; what somebody sets is a number; and what is
\* left of a file whose writing failed is shorter than the seven lines that are written.
ASSUME DaemonAssumption ==
  /\ \A f \in HandWritten : IsFile(f)
  /\ \A key \in ListKeys : IsFiniteSet(Known[key]) /\ Known[key] \subseteq Int
  /\ DOMAIN Offered \subseteq NumberKeys /\ \A key \in DOMAIN Offered : Offered[key] \subseteq Int
  /\ SliderEnd \in Int
  /\ Cuts \subseteq 0 .. 7

VARIABLES
  head,         \* the build: "linux" or "windows"
  pets_option,  \* --pets of this run, or 0
  file,         \* the lines of dragonperchrc
  author,       \* history: who wrote the file last, "hand" or "program"
  told,         \* history: the last save ended with a reload on its way
  touched,      \* history: the cast has been changed, by hand or in the program
  program,      \* [at, settings, saved, edits]: the settings program
  ticks,        \* ticks[key]: the boxes that are ticked
  reachable,    \* the name is taken, or the control window is there
  calls,        \* reloads on their way
  reload,       \* g_reload
  at,           \* where run_pets is
  settings,     \* run_pets' settings
  options,      \* the simulation's options
  cast,         \* the pets alive: <<output, mascot, which of them>>
  strolled      \* the pets have been simulated since they were put in their places

fileVars == <<file, author>>
programVars == <<touched, program, ticks>>
daemonVars == <<reload, at, settings, options, cast, strolled>>
vars == <<head, pets_option, fileVars, told, programVars, reachable, calls, daemonVars>>

CastKeys == {"pets-per-mascot", "mascots", "outputs"}

Shown(chosen) == [key \in ListKeys |-> {n \in Known[key] : wants(chosen[key], n)}]

-----------------------------------------------------------------------------
(* The daemon's cast *)

to_options(s) == [walk_speed |-> s["walk-speed"], idle_interval |-> s["idle-interval"]]

Cast(s) ==
  {pet \in Outputs \X Packs \X (1 .. s["pets-per-mascot"]) :
     wants(s["outputs"], pet[1]) /\ wants(s["mascots"], pet[2])}

\* Mutation of needs_respawn: the mascots are forgotten.
needs_respawn_NotMascots(old, new) ==
  \E key \in CastKeys \ {"mascots"} : old[key] # new[key]

\* Mutation of needs_respawn: any change will do.
needs_respawn_Always(old, new) == old # new

needs_respawn(old, new) == \E key \in CastKeys : old[key] # new[key]

Init ==
  /\ head \in {"linux", "windows"}
  /\ pets_option \in PetsOptions
  /\ file \in HandWritten
  /\ author = "hand"
  /\ told = FALSE
  /\ touched = FALSE
  /\ program = [at |-> "closed", settings |-> Default, saved |-> Default, edits |-> 0]
  /\ ticks = [key \in ListKeys |-> {}]
  /\ reachable = FALSE
  /\ calls = 0
  /\ reload = FALSE
  /\ at = "starting"
  /\ settings = Default
  /\ options = to_options(Default)
  /\ cast = {}
  /\ strolled = FALSE

Go(from, to) == at = from /\ at' = to

-----------------------------------------------------------------------------
(* run_pets, up to its loop *)

\* request_name, before anything else of interest.
TakeName ==
  /\ head = "linux"
  /\ Go("starting", "named")
  /\ reachable' = TRUE
  /\ UNCHANGED <<head, pets_option, fileVars, told, programVars, calls, reload, settings,
                 options, cast, strolled>>

\* An explicit --pets beats the file.
Overridden(s) == IF pets_option > 0 THEN [s EXCEPT !["pets-per-mascot"] = pets_option] ELSE s

LoadAtStart ==
  /\ Go(IF head = "linux" THEN "named" ELSE "starting", "loaded")
  /\ settings' = Overridden(parse_settings(file))
  /\ UNCHANGED <<head, pets_option, fileVars, told, programVars, reachable, calls, reload,
                 options, cast, strolled>>

\* populate, of the settings s.
PopulateFrom(s) ==
  /\ options' = to_options(s)
  /\ cast' = Cast(s)
  /\ strolled' = FALSE

Populate ==
  /\ Go("loaded", IF head = "linux" THEN "checking" ELSE "populated")
  /\ PopulateFrom(settings)
  /\ UNCHANGED <<head, pets_option, fileVars, told, programVars, reachable, calls, reload,
                 settings>>

\* ControlServer::start may fail, and then nothing reaches this instance.
OpenControl ==
  /\ Go("populated", "checking")
  /\ reachable' \in BOOLEAN
  /\ UNCHANGED <<head, pets_option, fileVars, told, programVars, calls, reload, settings,
                 options, cast, strolled>>

-----------------------------------------------------------------------------
(* Commands and the loop *)

\* The bus thread dispatches one Reload.
Dispatch ==
  /\ head = "linux"
  /\ at \notin {"starting", "gone"}
  /\ calls > 0
  /\ calls' = calls - 1
  /\ reload' = TRUE
  /\ UNCHANGED <<head, pets_option, fileVars, told, programVars, reachable, at, settings,
                 options, cast, strolled>>

\* g_reload.exchange(false)
CheckReload ==
  /\ head = "linux"
  /\ Go("checking", IF reload THEN "reloading" ELSE "deciding")
  /\ reload' = FALSE
  /\ UNCHANGED <<head, pets_option, fileVars, told, programVars, reachable, calls, settings,
                 options, cast, strolled>>

\* Mutation of Apply: options are set only where nobody is spawned.
Apply_Either(fresh) ==
  /\ settings' = fresh
  /\ IF needs_respawn(settings, fresh)
       THEN cast' = Cast(fresh) /\ strolled' = FALSE /\ UNCHANGED options
       ELSE options' = to_options(fresh) /\ UNCHANGED <<cast, strolled>>

Apply(fresh) ==
  /\ settings' = fresh
  /\ IF needs_respawn(settings, fresh)
       THEN PopulateFrom(fresh)
       ELSE options' = to_options(fresh) /\ UNCHANGED <<cast, strolled>>

Reload ==
  /\ Go("reloading", "deciding")
  /\ Apply(parse_settings(file))
  /\ UNCHANGED <<head, pets_option, fileVars, told, programVars, reachable, calls, reload>>

\* Windows: the pump dispatches WM_COPYDATA, and the handler runs here.
PumpReload ==
  /\ head = "windows"
  /\ at = "checking"
  /\ calls > 0
  /\ calls' = calls - 1
  /\ Apply(parse_settings(file))
  /\ UNCHANGED <<head, pets_option, fileVars, told, programVars, reachable, reload, at>>

Pumped ==
  /\ head = "windows"
  /\ calls = 0
  /\ Go("checking", "deciding")
  /\ UNCHANGED <<head, pets_option, fileVars, told, programVars, reachable, calls, reload,
                 settings, options, cast, strolled>>

\* Mutation of Frame: the flag is put down again at the end of the turn.
Frame_PutsFlagDown ==
  /\ Go("deciding", "checking")
  /\ strolled' \in {strolled, TRUE}
  /\ reload' = FALSE
  /\ UNCHANGED <<head, pets_option, fileVars, told, programVars, reachable, calls, settings,
                 options, cast>>

\* A frame, or the nap of a paused loop.
Frame ==
  /\ Go("deciding", "checking")
  /\ strolled' \in {strolled, TRUE}
  /\ UNCHANGED <<head, pets_option, fileVars, told, programVars, reachable, calls, reload,
                 settings, options, cast>>

\* Stopped: name and window go, and with them what was on its way.
Leave ==
  /\ Go("deciding", "gone")
  /\ reachable' = FALSE
  /\ calls' = 0
  /\ reload' = FALSE
  /\ settings' = Default
  /\ options' = to_options(Default)
  /\ cast' = {}
  /\ strolled' = FALSE
  /\ UNCHANGED <<head, pets_option, fileVars, told, programVars>>

\* Somebody starts the daemon again, with another command line perhaps.
Restart ==
  /\ Go("gone", "starting")
  /\ pets_option' \in PetsOptions
  /\ UNCHANGED <<head, fileVars, told, programVars, reachable, calls, reload, settings,
                 options, cast, strolled>>

DaemonStep ==
  \/ TakeName \/ LoadAtStart \/ Populate \/ OpenControl
  \/ CheckReload \/ Reload \/ PumpReload \/ Pumped \/ Frame

-----------------------------------------------------------------------------
(* The settings program *)

ProgramGoes(from, to) == program.at = from /\ program' = [program EXCEPT !.at = to]

\* What the window's controls can show of what it read.
Showable(s) == [s EXCEPT !["walk-speed"] = Clamp(@, Lowest("walk-speed"), SliderEnd)]

\* load and findInstalledMascots; SettingsWindow.Load.
Open ==
  /\ program.at = "closed"
  /\ LET s == IF head = "linux" THEN parse_settings(file) ELSE Showable(Parse(file))
     IN  /\ program' = [program EXCEPT !.at = "open", !.settings = s,
                                       !.saved = IF head = "linux" THEN s ELSE @]
         /\ ticks' = Shown(s)
  /\ UNCHANGED <<head, pets_option, fileVars, told, touched, reachable, calls, daemonVars>>

Close ==
  /\ program.at = "open"
  /\ program' = [program EXCEPT !.at = "closed", !.settings = Default, !.saved = Default]
  /\ ticks' = [key \in ListKeys |-> {}]
  /\ UNCHANGED <<head, pets_option, fileVars, told, touched, reachable, calls, daemonVars>>

Edit(s) ==
  /\ program.at = "open"
  /\ program.edits < MaxEdits
  /\ program' = [program EXCEPT !.settings = s, !.edits = @ + 1]
  /\ touched' = (touched \/ \E key \in CastKeys : s[key] # program.settings[key])
  /\ UNCHANGED <<head, pets_option, fileVars, told, reachable, calls, daemonVars>>

SetNumber(key, n) ==
  /\ Edit([program.settings EXCEPT ![key] = n])
  /\ UNCHANGED ticks

InOrder(names) ==
  LET places == CHOOSE p \in Bijection(DOMAIN names, DOMAIN names) :
                  \A i, j \in DOMAIN names : i < j => names[p[i]] <= names[p[j]]
  IN  [i \in DOMAIN names |-> names[places[i]]]

\* The KDE module changes its list at every tick.
setWanted(chosen, all, name, wanted) ==
  LET current == IF chosen = << >> THEN InOrder(SetToSeq(all)) ELSE chosen
      ticked == IF wanted
                  THEN IF Contains(current, name) THEN current ELSE Append(current, name)
                  ELSE SelectSeq(current, LAMBDA n : n # name)
  IN  IF InOrder(ticked) = InOrder(SetToSeq(all)) THEN << >> ELSE InOrder(ticked)

\* A box is ticked or unticked.  The window looks at its boxes when it saves, and
\* only then; the module's boxes show its list.
Tick(key, name) ==
  LET wanted == name \notin ticks[key]
      s == [program.settings EXCEPT
              ![key] = setWanted(program.settings[key], Known[key], name, wanted)]
      boxes == IF wanted THEN ticks[key] \cup {name} ELSE ticks[key] \ {name}
  IN  IF head = "linux"
        THEN Edit(s) /\ ticks' = Shown(s)
        ELSE /\ program.at = "open"
             /\ program.edits < MaxEdits
             /\ program' = [program EXCEPT !.edits = @ + 1]
             /\ ticks' = [ticks EXCEPT ![key] = boxes]
             /\ touched' = TRUE
             /\ UNCHANGED <<head, pets_option, fileVars, told, reachable, calls, daemonVars>>

\* The module's Defaults button.
Defaults ==
  /\ head = "linux"
  /\ Edit(Default)
  /\ ticks' = Shown(Default)

\* Mutation of Chosen: the boxes are not looked at.
Chosen_AsLoaded(key) == program.settings[key]

\* OnApply: all boxes ticked is the empty list, so that what is installed later is
\* in it; a name without a box is forgotten.
Chosen(key) ==
  IF ticks[key] = Known[key] THEN << >> ELSE InOrder(SetToSeq(ticks[key]))

\* save_settings writes beside the file; if it cannot, it takes that away again.
\* There is nothing to apply unless something has changed.
WriteBeside ==
  /\ head = "linux"
  /\ program.settings # program.saved
  /\ \E to \in {"beside", "open"} : ProgramGoes("open", to)
  /\ UNCHANGED <<head, pets_option, fileVars, told, touched, ticks, reachable, calls, daemonVars>>

Rename ==
  /\ program.at = "beside"
  /\ \/ /\ file' = write_settings(program.settings)
        /\ author' = "program"
        /\ told' = FALSE
        /\ program' = [program EXCEPT !.at = "saved", !.saved = program.settings]
     \/ /\ ProgramGoes("beside", "open")
        /\ UNCHANGED <<fileVars, told>>
  /\ UNCHANGED <<head, pets_option, touched, ticks, reachable, calls, daemonVars>>

\* OnApply looks at the boxes; File.WriteAllText opens the file, if it can, which
\* empties it.
Truncate ==
  /\ head = "windows"
  /\ program.at = "open"
  /\ LET chosen == [key \in Keys |-> IF key \in ListKeys THEN Chosen(key)
                                     ELSE program.settings[key]]
     IN  \/ /\ program' = [program EXCEPT !.at = "writing", !.settings = chosen]
             /\ file' = << >>
             /\ author' = "program"
             /\ told' = FALSE
         \/ /\ program' = [program EXCEPT !.settings = chosen]
             /\ UNCHANGED <<fileVars, told>>
  /\ UNCHANGED <<head, pets_option, touched, ticks, reachable, calls, daemonVars>>

\* Fill it, or fail with part of it written: then nobody is told.
FillIn ==
  /\ LET written == write_settings(program.settings)
     IN  \E n \in Cuts \cup {Len(written)} :
           /\ file' = SubSeq(written, 1, n)
           /\ ProgramGoes("writing", IF n = Len(written) THEN "saved" ELSE "open")
  /\ UNCHANGED <<head, pets_option, author, told, touched, ticks, reachable, calls, daemonVars>>

\* Is there a daemon?  daemonRunning; FindWindowEx.
LookForDaemon ==
  /\ ProgramGoes("saved", IF reachable THEN "telling" ELSE "open")
  /\ UNCHANGED <<head, pets_option, fileVars, told, touched, ticks, reachable, calls, daemonVars>>

\* Ask it to reload; it may have gone meanwhile.
Tell ==
  /\ calls < MaxCalls
  /\ ProgramGoes("telling", "open")
  /\ IF reachable THEN calls' = calls + 1 /\ told' = TRUE ELSE UNCHANGED <<calls, told>>
  /\ UNCHANGED <<head, pets_option, fileVars, touched, ticks, reachable, daemonVars>>

SavingStep == Rename \/ FillIn \/ LookForDaemon \/ Tell

-----------------------------------------------------------------------------
(* Anybody *)

\* dragonperch --reload
AskReload ==
  /\ reachable
  /\ calls < MaxCalls
  /\ calls' = calls + 1
  /\ UNCHANGED <<head, pets_option, fileVars, told, programVars, reachable, daemonVars>>

Next ==
  \/ DaemonStep \/ Dispatch \/ Leave \/ Restart
  \/ Open \/ Close \/ Defaults
  \/ \E key \in DOMAIN Offered : \E n \in Offered[key] : SetNumber(key, n)
  \/ \E key \in ListKeys : \E name \in Known[key] : Tick(key, name)
  \/ WriteBeside \/ Truncate \/ SavingStep
  \/ AskReload

Spec == Init /\ [][Next]_vars

\* The daemon's threads run, and a save that was begun is ended.  Nobody has to
\* open, change, save or reload anything, to stop the daemon or to start it again.
Fairness == WF_vars(DaemonStep) /\ WF_vars(Dispatch) /\ WF_vars(SavingStep)

FairSpec == Spec /\ Fairness

-----------------------------------------------------------------------------
(* Properties *)

\* The daemon and the settings window read one file alike, however its sections
\* and keys are repeated, misspelt and mixed with junk or cut short, provided that
\* both understand every value in it (docs/settings.md lines 49 to 57).
ParsersAgreeOnPlainValues == (Init => AwkwardFilesReadAlike) /\ ReadAlike(file)

\* What a settings program writes is read back alike by both, and writing that
\* again changes nothing: numbers do not wander off by being saved.
SavingSettles == (Init => AwkwardFilesSettle) /\ Settles(file)

\* In the loop the pets alive are those the settings ask for, and the simulation
\* goes by the settings, although a reload spawns nobody unless it has to.
PetsAreTheCast ==
  at \in {"populated", "checking", "reloading", "deciding"} =>
    cast = Cast(settings) /\ options = to_options(settings)

\* docs/settings.md line 104: "Changing a speed is applied to the pets where they
\* stand."  From the module's slider through the file to the reload, nobody is put
\* back to the top unless somebody has changed the cast.
SpeedAloneMovesNobody ==
  [][head = "linux" /\ pets_option = 0 /\ at = "reloading" /\ strolled /\ ~strolled'
       => touched]_vars

\* However many boxes were ticked and unticked in whatever order, what the daemon
\* reads after the save are the names whose boxes were ticked, of those that have
\* one.  In the window "turning every tick box off saves an empty list rather than
\* nothing" (docs/settings.md line 38), and that is all of them.  In the module the
\* boxes show the list: the last one unticked ticks them all again, unless a name
\* without a box is left in it, and then no box is ticked and none of them is read.
TicksAreHeeded ==
  (program.at = "saved" /\ author = "program") =>
    \A key \in ListKeys :
      LET chosen == parse_settings(file)[key]
      IN  IF head = "windows" /\ ticks[key] = {}
            THEN chosen = << >>
            ELSE \A name \in Known[key] : wants(chosen, name) <=> name \in ticks[key]

\* But for an explicit --pets.
Heeded == settings \in {parse_settings(file), Overridden(parse_settings(file))}

\* A save reaches the pets: on Linux whenever it was made, be the daemon starting,
\* loading or already running, and on Windows if the daemon had its window by then.
SaveReachesThePets ==
  (author = "program" /\ program.at \in {"open", "closed"} /\ (head = "linux" \/ told))
    ~> \/ author = "hand" \/ program.at \notin {"open", "closed"}
       \/ at = "gone"
       \/ Heeded

=============================================================================
