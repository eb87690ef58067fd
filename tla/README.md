# DragonPerch in TLA+

DragonPerch keeps small dragons walking along the top edges of the windows on a
Windows or KDE Plasma desktop. This directory holds specifications of the parts
of it that run concurrently or that are easy to get subtly wrong, the
configurations that check them with TLC, and proofs of the invariants that matter
most. Everything is written from the code under `src/`; the paths below are
relative to it.

## 1. Inventory

### The program

One process per session (the *daemon*), in two builds that share `core`:

```
            windows events / KWin report                  settings, commands
                        |                                        |
   WinEventWatcher (2 threads) | KWinGeometryProvider     ControlServer | SessionBus
                        |  WorldSnapshot                         |   flags
                        v                                        v
                   HandlerSlot -----> PetHost::run  <----- should_stop / set_paused
                                         |   one thread
                                         v
                       Simulation::update, render -> ISpriteRenderer, IFrameClock
```

| Component | State it keeps | Operations | Talks to |
|---|---|---|---|
| `core/.../handler_slot.hpp` | the handler, a count of calls in flight, a mutex, a condition variable | `set`, `call` | a provider's threads, the host loop |
| `core/.../host.cpp` | `pending_world_`, `has_pending_`, `paused_` | `run`, `set_paused` | provider, simulation, renderer, frame clock |
| `core/.../simulation.cpp`, `world.cpp` | the pets, the world, the options, the last version seen | `update`, `render`, `set_world`, `spawn`, `clear_pets`, `set_options` | host loop, head |
| `core/.../edge_builder.cpp` | none | `longest_visible_run`, `append_window_edges` | both providers |
| `core/.../settings.cpp`, `ini.cpp` | none | parse, clamp and write settings | both daemons, both settings programs |
| `core/.../sprites.cpp`, `sprite_pack_file.cpp`, `pack_library.cpp` | packs and animations | load, look up a frame | daemons at start, `render` |
| `win/win_event_watcher.cpp`, `desktop_scanner.cpp` | the current snapshot, a version, a dirty flag, stopping, the pump's thread id | `start`, `current`, event callback, publish loop, destructor | Windows, `HandlerSlot` |
| `linux/kwin_geometry.cpp` | outputs, the current snapshot, a version | `set_outputs`, `start`, `on_update`/`apply` | bus thread, Wayland thread, `HandlerSlot` |
| `kwin/.../main.js` | the windows watched, the last report | reports and a heartbeat | the session bus |
| `linux/session_bus.cpp`, `control.cpp`, `tray.cpp` | the bus thread, published objects, who knows of the icon | commands become flags, registering with a watcher | the daemon's loop, the desktop's shell |
| `win/control.cpp`, `tray.cpp`, `shell.cpp` | message windows, the icon, when a shell was started last | hover, click, menu, ask a shell and wait, commands | the daemon's loop, a shell process |
| `shell/windows` (`App`, `ShellServer`, `TrayMenu`, `Daemon`) | a message window, a dispatcher queue, a menu's host and flyout | start or hand over, show, choose, leave with the daemon | the daemon's control window |
| `linux/main.cpp`, `win/main.cpp` | settings, flags, the cast of pets | start-up, `populate`, reload, pause, quit, the way out | everything |
| `linux/wayland_display.cpp`, `layer_surface.cpp`, `frame_clock.cpp`, `gles_renderer.cpp` | monitors, outputs, overlays, a pending callback | connect, make an overlay, wait for a frame, dispatch | compositor |
| `win/frame_clock.cpp`, `sprite_renderer.cpp`, `overlay_window.cpp`, `fullscreen.cpp` | surfaces, damage | drawing | compositor |
| `linux/settings_file.cpp`, `kcm`, `shell/windows/Settings.cs` | the settings file | load, save | the file system |

### What is hard, and what makes each part correct

* **Provider against host loop.** A provider publishes from its own thread while
  the loop starts, pauses, is stopped or leaves by exception. Correct: no call
  into a dead host, no lost wake-up, nothing handed over is lost, no older world
  replaces a newer one.
* **World against simulation.** The desktop changes under the pets in coalesced
  jumps and the settings change with it. Correct: whoever has a perch stands on
  it, nobody tunnels, nobody falls for ever.
* **Windows against ledges.** Occlusion, sorting and looking up: every ledge is
  visible along its whole length and is the longest there is.
* **Monitors against overlays.** They come and go while overlays are made one
  after the other and while the loop waits for a frame of one of them. Correct:
  nothing is drawn on before it is configured, one callback is owed for each one
  awaited, a lost overlay or a stop ends the daemon.
* **Trays.** A watcher or a shell process starts, ends, is replaced and answers
  late. Correct: the icon is known, a click leads to one menu and the right one,
  settings that are asked for open, no process is left behind.
* **Shutdown.** Threads, hooks and callbacks are joined or cleared in an order
  that must not block and must not leave a callback behind.
* **Settings.** Two programs write a file that a third reloads while it runs.

`PROJECT.json` lists every component with its status, and every hazard at the
line where it bites with the properties that would catch it.

## 2. The modules

Each component is a module of its own, named for the source it is written from;
a `..MC` module gives TLC its constants and a `.._proofs` module holds the
theorems. The head comment of a module says what it leaves out. Two components that
are proved about in a module with another (`DesktopScanner` beside `Simulation`,
`SpriteRenderer` beside `WinEventWatcher`) have their specification under a name of its
own: `ScannerSpec`, `RendererSpec`.

```
HandlerContract <- HandlerSlot <--- PetHost            one publisher, one loop
   (abstract)   implements  INSTANCE

WorldProvider   <- WinEventWatcher                      the Windows provider
   (abstract)   <- KWinGeometry                         the Plasma provider
                implements

World <- Simulation          EdgeBuilder <- DesktopScanner
      EXTENDS                            EXTENDS

SettingsFile <- Daemon       SpriteRenderer
          EXTENDS

WaylandOverlays <-+
                  +- LinuxDaemon                        main thread and bus thread
StatusItem <------+
           EXTENDS

ShellProcess <- WindowsTray                             the daemon and its shells
          EXTENDS
```

**`HandlerContract`, `HandlerSlot`** (`handler_slot.hpp`). The contract is what
`IWorldProvider::set_changed_handler` promises: after it returns no call into the
previous handler is running. The slot has one action per critical section:
`Set`, then `Recheck` for each return of the condition variable, on one side;
`BeginCall` (lock, copy, count), `Invoke`, `EndCall` (lock, count down) and
`NotifyAll`, which the code does *after* the unlock, on the other.

**`PetHost`** (`host.cpp`). The loop's thread, step by step: start the provider,
read `current()`, install the handler, then per turn `should_stop`, the pause,
the frame clock, the pending snapshot, update and render; an exception may leave
from any of the calls that can throw. The provider's thread stores a snapshot and
calls the handler. Installing, calling and clearing are the actions of
`HandlerSlot`, instantiated with the loop as the only setter and the publisher as
the only caller. A snapshot is its version.

**`World`, `Simulation`** (`world.cpp`, `simulation.cpp`). `Update(dt)` is the
whole of `Simulation::update` for all pets: recognise a new world, reconcile the
perch, then the handler of the pet's state. `SetWorld`, `SetOptions`, `Spawn` and
`ClearPets` are what the host and the heads call between frames. Time is in ticks
of `1/TicksPerSecond` s, so that products of floats become integers and `lround`
is exact; the random engine is a choice. Versions are compared for equality with
the last one seen only, so one bit, `unseen`, stands for that comparison.

**`EdgeBuilder`, `DesktopScanner`** (`edge_builder.cpp`, `desktop_scanner.cpp`).
`longest_visible_run` is the code's sweep over the covers from left to right; since
covers that begin together may be taken in any order, it folds over the set of them,
the last one outermost, instead of over a sorted sequence. A scan is one action that
turns monitors, panels and windows from front to back into sorted edges: `InOrder` has
every order that `WorldSnapshot::sort` may leave. The properties compare it with
visibility column by column.

**`WorldProvider`** (`world.hpp`). What a head may rely on: snapshots are
published one at a time, their numbers rise, and the handler is called with a
snapshot that has been stored.

**`WinEventWatcher`** (`win_event_watcher.cpp`). The owner, the pump thread and
the publish thread, with `dirty_mutex_` explicit. A scan reads one window per
step while windows go on changing. `MarkDirty` and `FlagDirty` are the two places
that take the mutex to set the flag: the event callback and the destructor.

**`KWinGeometry`** (`kwin_geometry.cpp`, `session_bus.cpp`, `kwin_script.cpp`,
`main.js`, and the order of start-up in `linux/main.cpp`). The script in KWin
with its change signals and its heartbeat, a bus that holds a few calls and
refuses more, the bus thread that applies reports, and the main thread that takes
the name, publishes the first world, starts the bus, loads the script, and stops
them again.

**`SpriteRenderer`** (`sprite_renderer.cpp`, `output_surface.cpp`,
`fullscreen.cpp`). A frame: damage of this and of the last one, a full draw where
an overlay was hidden or is new, hiding where an application covers the monitor.
`pixels` is what a surface holds. A picture is the set of columns it covers.

**`SettingsFile`, `Daemon`** (`settings.cpp`, `ini.cpp`, `Settings.cs`; both
`main.cpp`, `control.cpp`, `settings_file.cpp`, the KDE module and the settings
window). A file is a sequence of lines; a text is the number or the items it
stands for and the set of readers that understand it. Both parsers and the
writer are operators over lines. `Daemon` has the start, `populate`, the frame
with its reload flag, and the end of the daemon; the settings program being
opened, edited, saved, failing to save, and telling the daemon.

**`WaylandOverlays`** (`wayland_display.cpp`, `layer_surface.cpp`,
`frame_clock.cpp`, the overlays of `gles_renderer.cpp`). The compositor's side is
external: it announces, describes and removes monitors, closes surfaces, presents
what is mapped, and dies. What it has sent and nobody has read is `wire`; one
dispatch takes it all, and since only a removal rebuilds the outputs, what they are
afterwards depends on the order inside the batch, which is a choice
(`rebuild_outputs`). An overlay is made by `CreateSurface`, the roundtrip
`ConfigureRoundtrip` and `FirstFrame`. `RequestFrame` and `Dispatch` are the frame
clock.

**`StatusItem`** (`linux/tray.cpp`, `control.cpp`, `session_bus.cpp`). The inbox of
the bus, the bus thread that takes it message by message, the watcher that appears,
leaves or is replaced, registering as a call that waits for its answer, and the
menu: what an item says (`Layout`), whether it can be clicked and what it asks for.

**`LinuxDaemon`** (`linux/main.cpp`, `run_pets`). Both of the above under one main
thread: connecting, publishing, registering, an overlay for each output, the loop
(stop, pause, callback, poll, draw), and the way out, by return or exception,
through the stopper that joins the bus thread. Signals, commands and clicks arrive
at any step. Where the code is left with undefined behaviour (a reference into
outputs that were made anew, an overlay that does not exist) the process may crash.

**`ShellProcess`** (`shell/windows`, and `SendCopyData` of `Native.cs`). A process
from its launch through "is there one already", finding and watching the daemon, and
its server, to its end; requests sent to its window, its dispatcher queue, and
`TrayMenu`: a host that is loaded late, what is pending until then, a flyout, and
the `Closed` of an older flyout that is still to come.

**`WindowsTray`** (`win/shell.cpp`, `tray.cpp`, `control.cpp`, and the commands of
`win/main.cpp`). The daemon's one thread is in its loop, waits for a shell's answer,
or is inside the Win32 menu: prewarming on a hover, a click that asks a shell and
falls back, settings from the menu, commands, the end; and from outside kills,
starts by hand, an Explorer that restarts.

`PROJECT.json` maps every definition to its lines.

## 3. What TLC checks

| Run | Bounds | What it shows |
|---|---|---|
| `handler_slot` | 2 setters, 2 callers, 3 handlers | The silence after a clear; the slot implements its contract; clearing returns. |
| `pet_host` | `MaxVersion` = 4 | Nobody calls into a host that was left; a start that missed a snapshot is over with the next; the world never goes back. |
| `simulation` | 6 x 6 pixels, 6 desktops, 2 sets of options, steps of 0, 1 and 2 ticks, 1 pet | Whoever has a perch stands on it and rides the window that moves; falls stay in the world, pass no ledge and end. |
| `simulation_walk` | 100 ticks a second | *Violated*: a pet that walks gets somewhere. |
| `desktop_scanner` | 3 windows, 8 columns, 4 set-ups of monitors | Ledges are the longest visible runs; the first hit is the highest; each work area has a floor. |
| `win_event_watcher` | 2 windows, 2 changes each | Whatever was noticed is published without waiting for another change; a notice mends all that was not noticed; numbers rise; the destructor returns. |
| `kwin_geometry` | 2 screens (1 at first), 2 changes, 2 queued calls, 1 idle heartbeat | The floor of the start overwrites no report and floors move as reported; what was lost is made up for; the bus thread stops. |
| `sprite_renderer` | 2 monitors of 3 columns, 2 pets, 5 pictures | What shows is the last frame and nothing else. |
| `daemon` | 2 packs and a name without a box, 1 output, 2 edits, 1 speed offered, 1 call in flight; 1111 awkward files of up to 3 lines | The pets are the settings'; a save reaches a daemon that could be told; ticks mean what they show; saving settles; the parsers agree. |
| `linux_daemon` | 2 monitors, 2 messages on the bus, 2 changes or commands and a signal | One callback for each one awaited; overlays are drawn on only as configured; the bus thread ends first; a stop is obeyed, a lost overlay ends the daemon, a watcher comes to know of the icon. |
| `windows_shell` | 2 shells, 2 clicks, 1 event from outside | One menu for a click, saying what it should; settings asked for are shown; no shell outlives the daemon. |
| `windows_icon` | 1 shell, 1 click, 1 event from outside | *Violated*: the icon comes back after Explorer restarts. |

### Why the bounds are enough

* *Handler slot*: two setters are the least that can clear each other's
  registration, two callers the least that can keep one waiting while the other
  goes; three handlers let one be replaced while another is called. The proofs
  below drop the bounds.
* *Host*: the interesting versions are one read at the start, one that is missed,
  one pending and one that replaces it.
* *Simulation*: pets never read one another, so one stands for any number
  (`ClearPets` and `Spawn` still change how many there are). The six desktops
  contain a window that moves up and sideways, one below the screen, one too narrow
  to stand on, two that overlap, two outputs with floors of different height, and no
  output.
  `ElapsedCap` is the longest duration there is. `OutOfTheWorld` stays larger
  than any desktop, as 1 000 000 is in the code.
* *Scanner*: covers meet in every order of their ends with eight columns and two
  covers over a third window: nested, touching, overlapping, sticking out.
* *Watcher*: two windows are the least for a scan to be torn; two changes, for
  one that falls behind the scan's reading and one that falls before it.
* *KWin*: a report on its way, one lost, one that follows; a queue of two to hold
  an old report behind which a new one is refused.
* *Renderer*: the sweep of damage is column by column and the pictures take each
  position relative to a monitor's border.
* *Daemon*: two edits are the least for a box unticked after another, or ticked again,
  and one speed tells a slider that was moved from one that was not. Three lines are the least for a key to be repeated across a repeated
  section, and are enough for what the two parsers do differently: what they keep
  is one current section and one value per key. The file that is written has seven lines, and is cut
  after none and after three of them. The proof of `ParsersAgree` is for any
  number of lines.
* *Linux daemon*: two monitors are the least for the one whose frames pace the
  loop to differ from the one that goes, and for outputs to shrink while overlays
  are made; two changes, for one to go and one to come, or a shell to be replaced
  between them; two messages, for one to be on its way while the bus thread waits
  for a watcher. Commands draw on the same bound, signals do not. Three changes
  have been checked as well; only a third monitor lets the outputs grow past the
  overlays that were counted (see 6).
* *Windows shells*: two shells are the least for a race between one that starts and
  one that listens, and for a request to be handed over; two clicks, for one that
  is answered late and one after it, or two menus before the host is loaded; one
  event from outside, for a kill, a command or an end of the daemon at any step.

The deadlock check is on wherever the system may not stop. In `linux_daemon` it says
that each wait for a frame ends while its monitor is there: the places where the
daemon may stay for good are named (`Rests`), and everywhere else a step must be
possible. The two runs of `WindowsTray` switch it off: nobody has to click, and with
all events spent the system rests.

## 4. Fairness

Safety is checked without any. The liveness properties assume:

* `HandlerSlot`: weak fairness of `Recheck` for each setter, and of the rest of
  a call for each caller: a thread that can run does, and a handler returns (the
  one that is installed only copies a snapshot). Nobody is obliged to begin a call. A
  mutex held for a few assignments is one step, so weak fairness suffices.
* `PetHost`: none; that a stop ends the loop, paused or not, is checked with the
  whole daemon in `LinuxDaemon`.
* `Simulation`: weak fairness of an `Update` that takes time. A frame clock that
  only ever reports 0 s would not do; the code's clocks measure time that passes.
* `WinEventWatcher`: weak fairness of each thread, and strong fairness of the two
  steps that acquire `dirty_mutex_` to set the flag, because the publish
  thread takes and releases that mutex again and again; the mutex being fair enough not to starve another thread
  is what the code relies on as well. Windows need not change.
* `KWinGeometry`: weak fairness of the main thread, the bus thread and the
  heartbeat, which is a repeating timer. Change signals are not fair and neither
  is the delivery of a call, which may be refused.
* `Daemon`: weak fairness of the daemon's steps, of dispatching what waits for it,
  and of a save once begun. Neither editing nor saving ever has to happen.
* `LinuxDaemon`: weak fairness of the main thread and of the bus thread, of the
  compositor presenting a mapped surface on a monitor that is there and closing one
  whose monitor is gone, and of a watcher answering a call while it stays. Changes
  of the screens and of the shell, commands, clicks and signals need not happen.
* `WindowsTray`: weak fairness of the daemon's thread where it has something to do
  and of each shell's. Nobody has to click, dismiss, choose or close, so that a
  menu may stay open and a settings window too; a wait for an answer ends, since it
  has a timeout.
* `SpriteRenderer` and `DesktopScanner` state safety only.

## 5. What is proved

The theorems hold for all values of the constants that meet the assumptions, and
are checked by TLAPS. Every safety invariant, action property and refinement that a
passing run checks is also proved; the run shows it on a small instance, and shows
that the instance is not empty. Assumptions are named in the modules that declare the
constants, and TLC evaluates them in the runs:

* `SlotAssumption`, `HostAssumption`, `LinuxDaemonAssumption`,
  `StatusItemAssumption`, `ShellProcessAssumption`, `WindowsTrayAssumption`,
  `OutputsAssumption`, `BoundsAssumption`: names of different things differ, sets of
  threads and monitors are finite, bounds are numbers.
* `SimulationAssumption`: a desktop is what a provider publishes: sorted, one edge for
  a window, finitely many outputs and none upside down; gravity and the terminal
  velocity are not 0, for they are constants of `simulation.hpp` that no setting reaches.
* `ScannerAssumption`: windows, monitors and taskbars are finitely many and have
  integer coordinates; `MinimumWidth` is not 0 (`minimum_window_width` is 96); a
  window, the taskbar and the floors have different owners, as
  `desktop_scanner.hpp:21-22` has it.
* `AreasAssumption`: the screens of the start are screens, and no work area is the
  value that stands for none.
* `AwkwardFilesAssumption`, `DaemonAssumption`: files are finite and what stands for a
  number in them is one; the mascots and monitors a program knows are finitely many
  names; a write breaks off within the file.

**`HandlerSlot_proofs`**. `NoCallAfterClear` is not inductive: that a setter saw
a count of 0 says something only if the count is right. `IInv` adds that
`in_flight` is the number of callers past `BeginCall` and before `EndCall`
(`InFlightCounts`, by the cardinality of a finite set), that a caller in a call
holds a copy that was installed (`CopyHeldInCall`), and that a handler is ended
by the setter that replaced it (`EndingWhileInSet`, `InstalledIsLive`). From it:
`ClearedIsQuiet`, `NoWakeupLost` (a blocked setter with nothing in flight has a
caller between `EndCall` and `NotifyAll`), and `Refinement` to the contract.

**`PetHost_proofs`**. The slot's promise in a form for one loop and one publisher:
the handler is installed exactly while the loop runs, the count is 1 exactly while
the publisher is in a call, and the loop waits only while it leaves (`Installed`,
`Counts`, `QuietOutside`). For the worlds: what a call carries is the newest there
is (`Carrying`), what is pending was handed over last and is no older than what the
simulation has (`Ordered`), and once a snapshot has been handed over the newer of
the two is the provider's whenever no call is on its way to the handler
(`CaughtUp`). From it: `DeadHostIsQuiet`, `FirstHandoverCatchesUp` and
`NeverAnOlderWorld`.

**`Simulation_proofs`**, the pets. A lemma for each state handler says that it
`Settles` the pet: types hold, a perch is held exactly in a grounded state, and the
pet's feet are on its edge. Reconciling first re-establishes that against the new
world, which is why the invariant `IInv` speaks of the world only once update has seen
it. From it: `TypeCorrect`, `PerchMatchesState`, `NobodyStandsOnAir`. The action
properties are each proved of one `Update` from a state in `IInv`:

* `WindowsCarryPets`: reconciling keeps the perch and takes the edge's height, and of
  the handlers only walking moves a pet along.
* `FallsStayBounded`: `FallTo` leaves a pet that falls on no lower than `Depth`
  (`LowestIsLowest`: the maximum over finitely many outputs). It is a property of steps
  and not of states because the place a fall begins from is not the simulation's: a
  window may hang below the screen, and a head may put a pet anywhere.
* `NobodyTunnels`: `edge_below` finds the first perch in the list; sorted means that
  this is the highest (`FirstIsHighest`), so none lies between where the pet was and
  where it is.

**`Simulation_proofs`**, the edges. The module extends `DesktopScanner` as well, since
what a scan makes is what the lookups rely on. `ScanInv`: what has been scanned is one of
the orders of the edges the desktop now has; a sequence with each of them once has
them all (`SeqHasThemAll`, by cardinality). From it: `LandsOnTheHighest` and
`EveryFloorIsThere`. `LedgesAreWhatShows` is about the sweep of
`longest_visible_run`. It is an induction over how many covers have been passed, done
with sets of numbers (`CountingUp`: what has 0, and with each number the next, is
`Nat`): `PassingIsDefined` shows that the fold is defined by its steps, and
`AllPassedIsRight` that after any set of covers, each beginning no earlier than those
before it, `SeenSoFar` holds: the cursor is the furthest end of a cover, and `best` is
the leftmost of the longest runs up to it that no cover touches (`IsBestRun`). That
none is missed is `NoneAcross`: no run that shows begins before the cursor and ends
behind it. `ShowsIsClear` turns runs without covers into columns that no window in
front hides, and `WindowHasOneLedge` says which edges of a scan are a window's.

**`WindowsHead_proofs`**, the watcher. The invariant ties the threads' places to one
another (`Order`: the publish thread exists only after the first snapshot is
stored), versions to who publishes (`Numbers`), what a scan has read to what was
noticed when it began (`Readings`), and says that each notice not in the
snapshot is queued, flagged or being read (`NoticeNotLost`, `AllOnTheirWay`,
`Whole`, `Fresh`). From it: `OneNoticeIsEnough` and `Refinement` to
`WorldProvider`. `NobodySleepsThroughTheStop` is the safety half of the
destructor's end, which the run checks as liveness: `stopping_` is set without the
mutex, but `dirty_` is set under it before the notification (`Wakeful`), so the publish
thread cannot be past its look at the predicate and not yet asleep when it comes.

**`WindowsHead_proofs`**, the renderer. The two properties and the types are inductive
together (`RendererInv`): damage bounds what a surface holds, so repainting it leaves
the sprites of the frame. From it: `TypeCorrect`, `DamageIsEnough`,
`NobodyIsLeftBehind`.

**`KWinGeometry_proofs`**. `IInv`: there is no bus thread before the first world is
published, whoever calls the handler carries the last version, and what KWin reports
passes through the queue and the bus thread in the order it was made
(`InOrderOfTelling`). From it: `WorldFollows` and `Refinement` to `WorldProvider`.
`ReportsAreApplied` says more than a run does: when the queue is empty and nothing is
being parsed, the world shows the last report the bus took (`Told`), so that the only
report to be lost is one the bus refused, which is what the heartbeat makes up for
(`CatchesUp`).

**`Daemon_proofs`**. The daemon's parser keeps for each key its last value, the
window's likewise within sections of the one name; `ParsersAgree` shows that the
last entry is the same one if both understand all the values. The file stays a
file through writing and cutting, hence `AlwaysReadAlike`. `SavedIsSettled`: a key of a
written file has one line, which both parsers read as what was written, and two
places of a number are two places when written again. `CastFollowsSettings`, because a
reload that does not respawn leaves a cast that the old and the new settings both ask
for. `NobodyIsMoved` follows the cast from the program's window through the file to the
daemon (`CastInv`): until somebody has `touched` it, every value it has on the way is
the one the pets were spawned with. `WhatIsTickedIsRead`: a box unticked in a list that
was empty for all writes down the others, which are finitely many and each once; the
window's list becomes empty again with the last box unticked.

**`LinuxDaemon_proofs`**. Four invariants on different variables. `ClockInv`:
what is owed and what has arrived add up to what the clock holds, and it holds
nothing before the loop (`ClockStartsClean`), hence `OneCallbackAtATime`.
`ThreadEndsFirst`: the bus thread runs only between publishing and joining, for the
objects go with `Join` alone, which waits for it. `OverlayInv`: `create` fills the
overlays from the first on, and the ones it has passed are configured and mapped;
hence `DrawnOnlyAsConfigured`, and a first overlay for the loop to wait for, however
the outputs shrink or grow meanwhile (by cardinalities of finite sets). `IconInv`, for
`IconIsNeverForgotten`: from the moment the main thread has asked, whoever owns the
watcher's name and does not know the icon has been asked, or the note of its coming is
in the inbox (`IsToBeListed`); the match is added before the call is made, so that no
owner slips in between.

**`WindowsTray_proofs`**. `TheMenuIsRight`: a flyout hangs off a visible host and
says what was said last, and while the host is not loaded what is pending is that
(`Right`). `OneMenuOnTheScreen` needs to know why the daemon is in its menu. Its
invariant says that a shell that does not listen has been told nothing and shows
nothing (`Quiet`), that none is started with a menu on its command line (`NoMenuAtStart`)
or leaves before the daemon (`NoneLeavesFirst`), that a request is awaited exactly
while the daemon waits for it (`Awaited`), that a menu asked for and not yet taken
is one the daemon waits for (`MenusAreAwaited`), and that a wait which failed had a
reason (`Reasons`): the shell was killed, or was late. `EveryShellHearsTheEnd` is the
safety half of `ShellsEnd`: a shell that serves watches the daemon as long as that is
there, and once told keeps its own end on its queue until it comes to it (`HearsInv`;
`NoneLeavesFirst` says that it has none there before).

**Only model-checked**: liveness, which is out of the provers' reach with its
fairness and `ENABLED` (`ClearReturns`, `EveryFallEnds`, `NoticedIsSeen`, `DestructorReturns`,
`CatchesUp`, `StopReturns`, `SaveReachesThePets`, `StopIsObeyed`, `LostOverlayEnds`,
`ItemIsListed`, `ClickOpensAMenu`, `SettingsAreShown`, `ShellsEnd`), and the absence of
deadlock. Of six of them the safety half is proved: `NoWakeupLost` for
`ClearReturns`, `NoticeNotLost` of the invariant behind `OneNoticeIsEnough` for
`NoticedIsSeen`, `NobodySleepsThroughTheStop` for `DestructorReturns`,
`ReportsAreApplied` for `CatchesUp`, `EveryShellHearsTheEnd` for `ShellsEnd`,
`IconIsNeverForgotten` for `ItemIsListed`.

## 6. What the checks found

Two runs end in a counterexample on purpose. Each states what the code's own
words say and shows a behaviour that differs.

1. **Walking stops at high frame rates** (`simulation_walk`). The pixels of a
   frame are rounded and the remainder is dropped (`simulation.cpp:213`): at 42
   px/s and 85 frames a second or more they round to 0.
2. **The icon does not come back** (`windows_icon`). `tray.cpp:32-34` says that
   every icon has to be added again when Explorer broadcasts `TaskbarCreated`; the
   window that is to hear it is a child of `HWND_MESSAGE` (`tray.cpp:218`), and
   broadcasts do not reach those.

Seen in the models, with a change that is named here:

* A watcher destroyed early hangs. With `EarlyDestruction = TRUE`,
  `DestructorReturns` of `WinEventWatcher` fails: `WM_QUIT` is posted only to a
  pump that has stored its id, and is lost on a thread without a queue
  (`win_event_watcher.cpp:38`); the join then never returns.
* With three monitors of which one is plugged in while overlays are made and is
  already described, and another goes in the same batch, the outputs grow past the
  overlays counted before, and `LinuxDaemon` ends in `crashed`
  (`gles_renderer.cpp:125-127`).
* The same place is reached with two monitors where one goes in the roundtrip of
  `LayerSurface::create`: the reference into the outputs dangles when the name is
  logged (`layer_surface.cpp:165`).
* Unplugging the monitor whose overlay paces the loop leaves it waiting for a frame
  that is never presented (`FrontGone`): neither `--stop` nor a closed overlay is
  looked at, only a signal that interrupts the wait or the end of the connection.

Noticed while reading, and stated here without a run:

* A snapshot published between `host.cpp:22` and the installation of the handler
  at line 27 is handed to nobody until the next one; `CaughtUpAfterFirstHandover`
  says how far that reaches.
* A paused host draws no frames, so a full-screen application that starts
  meanwhile does not hide the overlays (`host.cpp:43`, `sprite_renderer.cpp:60`);
  on Wayland it reads no events either, so that a lost overlay or a dead compositor
  is noticed only after the pause.
* A monitor plugged in gets no floor: `set_outputs` is called once, where the
  comment at `kwin_geometry.cpp:307` speaks of a call nobody makes. It gets no
  overlay either, and is in the outputs only once another one is removed
  (`wayland_display.cpp`: `rebuild_outputs`).
* `--pets` is forgotten on reload (`linux/main.cpp:311`), though
  `docs/settings.md:107` says it holds for that run.
* A bus thread that meets an error ends silently (`session_bus.cpp`), and commands
  are heard no more.
* The Linux menu's host is told of no change (`tray.cpp:511-516` and no
  `LayoutUpdated`), so that the tick at Pause may be stale.
* `prewarm`'s `missing` is for ever (`shell.cpp:203-211`), where the comment at
  `shell.cpp:149-155` has a shell installed while the daemon runs.
* A request that timed out may still be carried out: the shell's menu then stands
  beside the Win32 one. `OneMenuPerClick` excludes it (`late`).
* Events are raised before the handler is added (`App.xaml.cs:139-140`), and a
  shell whose daemon ends in between may outlive it; two shells that start at once
  may both find nobody listening (`App.xaml.cs:42`).
* A quit while the Win32 menu is open waits until it is closed.
* The wait that was interrupted and carries on with its callback
  (`frame_clock.cpp:34-44`) does not come about: whatever interrupts it also stops
  the loop.
* Nothing reads `pause-for-fullscreen` after it is parsed (`settings.cpp:205`;
  `docs/settings.md:36` describes it).
* Tool windows and windows below the least size do not occlude
  (`desktop_scanner.cpp:36`, `:65`), while `edge_builder.hpp:28` speaks of
  all windows in front.
* Between the first scan and the installation of the hooks a change is noticed by
  nobody (`win_event_watcher.cpp:85`, `:98`), so that `current()` is not "the
  world as it stands" (`world.hpp:135`) until something else changes.
* The two parsers disagree where an unreadable value repeats a readable key in
  one section, on `+3` (which only the window reads) and on hexadecimal floats
  (only the daemon); `Settings.cs:84` and `docs/settings.md:49` say they agree.
* A save made on Windows after the daemon read its settings (`win/main.cpp:241`)
  and before its control window exists (`:329`) is missed, where
  `SettingsWindow.xaml.cs:231` expects it to be read at the start.
* `Settings.cs:73` writes in place and can leave half a file; two KDE modules
  share one temporary file (`settings_file.cpp:94`).
* The Windows settings window shows a speed on a slider (`SettingsWindow.xaml.cs:98`),
  and applying writes back what the slider can show and the mascots that have a
  box: a faster speed or an uninstalled mascot in the file is forgotten.
* On Linux turning every box off does not always save an empty list
  (`kcm_dragonperch.cpp:144-162`), as `docs/settings.md:38-40` says it does: a name
  that has no box stays in the list. From `mascots = 1, 3` with boxes for 1 and 2,
  unticking 1 saves `3`, and nothing walks; ticking both boxes saves `1, 2, 3`, which
  leaves out a mascot installed later. The run `daemon` reaches the first, and
  `TicksAreHeeded` says what holds of both builds: the boxes ticked are what walks.
* On an output narrower than 128 pixels the range a pet is spawned in is empty
  (`linux/main.cpp:274`).

## 7. What is not modelled

* *Sprite packs and animations*: loaded once, immutable afterwards. `render` and
  the animation clock change nothing the properties tell apart; the clock is the
  state's, which `Simulation` has.
* *What is drawn on Wayland*: shaders, atlases, EGL buffers and positions. The GLES
  renderer redraws everything, so that damage is no question there; that EGL may
  fail wherever something is drawn is in the model.
* *The Windows frame clock*: one call of `DwmFlush` without state.
* *Where menus are put, themes, glyphs, and what the settings window looks like*.
* *Images, text encodings, languages, paths, logs, self-test*: pure conversions
  or diagnostics that nothing else's state depends on.
* *Build, packaging, tools, fuzzers, artwork*: not part of the running program.
* Within modelled parts: a handler that throws (the one that is installed copies
  a snapshot; a throw would leave `in_flight` up), an animation that is missing
  from a pack, device errors, which events `on_win_event` filters out, the text
  of a KWin report, a bus that errors, and two settings programs at once.

## 8. Plan

Done, in this order: the slot and its contract with proofs; the host with proofs;
the simulation, edges and the scanner with proofs of all their safety; the two
providers against one abstract provider, with proofs; the sprite
renderer with proofs; settings and both daemons with proofs; the Linux
daemon with its monitors, its bus and its icon, with proofs of its safety; the
Windows tray with its shells, likewise.

Next, the most valuable first:

1. Proofs of the safety half of further liveness properties: where each thread may
   rest in `LinuxDaemon` (`Rests`), and that a click on Windows is not forgotten while
   the daemon waits for its shell (`ClickOpensAMenu`).
2. `frame_at` as an operator over durations, against its definition by sums, with
   packs that lack an animation a state needs.
3. The menu of the Linux tray as its host sees it: the revision, what it cached,
   and `AboutToShow`.

The list of runs and properties is kept at a size somebody can read: a new
question takes the place of the shallowest one there.
