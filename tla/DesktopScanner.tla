--------------------------- MODULE DesktopScanner ---------------------------
(***************************************************************************)
(* win/desktop_scanner.cpp over core/dragonperch/edge_builder.cpp: one     *)
(* scan of a Win32 desktop into edges and outputs.                         *)
(*                                                                         *)
(* The desktop is the environment's: windows have a frame and a kind, and  *)
(* a place in the stack, and are moved, raised, hidden and shown; the      *)
(* monitors and the taskbar change together.  A kind stands for what       *)
(* describe asks Windows about one:                                        *)
(*   "shown"   a window an application shows                               *)
(*   "tool"    on the screen, but a tool window                            *)
(*   "hidden"  invisible, minimised or cloaked                             *)
(* A change of the desktop makes the last scan stale and forgets it: what  *)
(* becomes of a stale scan is WinEventWatcher's business.                  *)
(***************************************************************************)
EXTENDS EdgeBuilder

CONSTANTS
  Windows,
  Frames,        \* Frames[w]: where window w may be, [left, right, top, bottom]
  Kinds,         \* the kinds a window may be of
  Screens,       \* the set-ups of monitors and taskbar: [monitors, taskbar]
  Taskbar,       \* taskbar_owner_id
  MinimumWidth,  \* minimum_window_width
  MinimumHeight  \* minimum_window_height

RectType == [left : Int, right : Int, top : Int, bottom : Int]

\* EnumDisplayMonitors and EnumWindows come to an end, coordinates are integers, and
\* the owners of ledges, floors and taskbars are not taken for one another.
ASSUME ScannerAssumption ==
  /\ IsFiniteSet(Windows) /\ Taskbar \notin Windows
  /\ \A w \in Windows : Frames[w] \subseteq RectType
  /\ MinimumWidth \in Nat \ {0}
  /\ \A s \in Screens :
       /\ IsFiniteSet(s.monitors)
       /\ \A m \in s.monitors : m.work \in RectType /\ -m.id \notin Windows
       /\ IsFiniteSet(s.taskbar) /\ s.taskbar \subseteq RectType

VARIABLES
  windows,   \* windows[w]: [frame, kind]
  stack,     \* the windows from front to back, as EnumWindows walks them
  screens,   \* the monitors, [id, left, right, top, bottom, work], and the taskbar
  scanned    \* the Scan of this desktop, or NotScanned

scannerVars == <<windows, stack, screens, scanned>>

NotScanned == [edges |-> << >>, outputs |-> {}]

IntMin == -IntMax - 1

-----------------------------------------------------------------------------
(* scan *)

\* describe: is this window one a pet could stand on, or behind which one is
\* hidden?
IsCandidate(w) ==
  LET f == windows[w].frame
  IN  /\ windows[w].kind = "shown"
      /\ f.right - f.left >= MinimumWidth
      /\ f.bottom - f.top >= MinimumHeight

\* Front to back, from the largest int down, counting every window.
Rank(w) == IntMax + 1 - (CHOOSE i \in DOMAIN stack : stack[i] = w)

Candidate(w) ==
  [id |-> w, z |-> Rank(w),
   left |-> windows[w].frame.left, right |-> windows[w].frame.right,
   top |-> windows[w].frame.top, bottom |-> windows[w].frame.bottom]

scan_windows ==
  window_edges({Candidate(w) : w \in {v \in Windows : IsCandidate(v)}}, MinimumWidth)

\* Only a horizontal taskbar has a top to walk on, and only if it is wide enough.
add_taskbar ==
  {[owner |-> Taskbar, y |-> t.top, left |-> t.left, right |-> t.right, z |-> IntMin + 1] :
     t \in {t \in screens.taskbar : /\ t.right - t.left >= MinimumWidth
                                    /\ t.bottom - t.top <= t.right - t.left}}

\* Mutation of CoveredByPanel: a panel at the right height covers any floor.
CoveredByPanel_AnySpan(work) == \E e \in add_taskbar : e.y = work.bottom

CoveredByPanel(work) ==
  \E e \in add_taskbar :
    e.y = work.bottom /\ e.left <= work.left /\ e.right >= work.right

add_screen_floors ==
  {[owner |-> -m.id, y |-> m.work.bottom, left |-> m.work.left, right |-> m.work.right,
    z |-> IntMin] :
     m \in {n \in screens.monitors : ~CoveredByPanel(n.work)}}

\* Mutation of InOrder: at one height, back first.
InOrder_BackFirst(edges) ==
  {s \in SetToSeqs(edges) :
     \A i, j \in DOMAIN s :
       (s[i].y < s[j].y \/ (s[i].y = s[j].y /\ s[i].z < s[j].z)) => i < j}

\* WorldSnapshot::sort may leave edges that compare equal in any order.
InOrder(edges) == {s \in SetToSeqs(edges) : Sorted(s)}

Scan ==
  /\ scanned = NotScanned
  /\ scanned' \in
       {[edges |-> s,
         outputs |-> {[left |-> m.left, right |-> m.right, top |-> m.top,
                       bottom |-> m.bottom] : m \in screens.monitors}] :
          s \in InOrder(scan_windows \cup add_taskbar \cup add_screen_floors)}
  /\ UNCHANGED <<windows, stack, screens>>

-----------------------------------------------------------------------------
(* The desktop *)

Move(w, frame) ==
  /\ windows[w].frame # frame
  /\ windows' = [windows EXCEPT ![w].frame = frame]
  /\ scanned' = NotScanned
  /\ UNCHANGED <<stack, screens>>

\* Shown, hidden, minimised, restored, closed or opened.
Become(w, kind) ==
  /\ windows[w].kind # kind
  /\ windows' = [windows EXCEPT ![w].kind = kind]
  /\ scanned' = NotScanned
  /\ UNCHANGED <<stack, screens>>

Raise(w) ==
  /\ stack[1] # w
  /\ stack' = <<w>> \o SelectSeq(stack, LAMBDA v : v # w)
  /\ scanned' = NotScanned
  /\ UNCHANGED <<windows, screens>>

Rearrange(s) ==
  /\ screens # s
  /\ screens' = s
  /\ scanned' = NotScanned
  /\ UNCHANGED <<windows, stack>>

ScannerInit ==
  /\ windows \in {f \in [Windows -> UNION {[frame : Frames[w], kind : Kinds] : w \in Windows}] :
                    \A w \in Windows : f[w].frame \in Frames[w] /\ f[w].kind = "hidden"}
  /\ stack = SetToSeq(Windows)
  /\ screens \in Screens
  /\ scanned = NotScanned

ScannerNext ==
  \/ Scan
  \/ \E w \in Windows :
       \/ \E f \in Frames[w] : Move(w, f)
       \/ \E k \in Kinds : Become(w, k)
       \/ Raise(w)
  \/ \E s \in Screens : Rearrange(s)

ScannerSpec == ScannerInit /\ [][ScannerNext]_scannerVars

-----------------------------------------------------------------------------
(* Properties, each of a desktop that has been scanned *)

Scanned == scanned # NotScanned

EdgesOf(w) == {e \in Range(scanned.edges) : e.owner = w}

InFront(v, w) == Rank(v) > Rank(w)

Covers(v, x, y) ==
  LET f == windows[v].frame
  IN  f.left <= x /\ x < f.right /\ f.top <= y /\ y < f.bottom

\* The columns from l to r of w's top row that no window of `others` hides.
Shows(w, l, r, others) ==
  \A x \in l .. r - 1 :
    \A v \in others : InFront(v, w) => ~Covers(v, x, windows[w].frame.top)

Candidates == {w \in Windows : IsCandidate(w)}

\* Every ledge is the longest part of its window's top that shows behind the
\* other windows a pet could stand on, the leftmost of those if there are
\* several; and a window with a part that is wide enough has a ledge.
LedgesAreTheLongestVisible ==
  Scanned =>
    \A w \in Windows :
      LET f == windows[w].frame
          visible == {run \in (f.left .. f.right) \X (f.left .. f.right) :
                        /\ Length(run) >= MinimumWidth
                        /\ Shows(w, run[1], run[2], Candidates)}
          longest == {run \in visible : \A other \in visible : Length(other) <= Length(run)}
      IN  IF ~IsCandidate(w) \/ visible = {} THEN EdgesOf(w) = {}
          ELSE \E e \in EdgesOf(w) :
                 /\ EdgesOf(w) = {e}
                 /\ e.y = f.top
                 /\ <<e.left, e.right>> \in longest
                 /\ \A run \in longest : e.left <= run[1]

\* What the lookups return is what they are for, on every snapshot a scan makes:
\* the highest perch below a point, and the frontmost of those at one height,
\* although the scan stops at the first hit.
LandingIsTheHighest ==
  Scanned =>
    \A m \in screens.monitors : \A x \in m.left .. m.right - 1 :
      \A y \in m.top - 1 .. m.bottom :
        LET hit == edge_below(scanned.edges, x, y, m.bottom, MinimumWidth)
            perches == {e \in Range(scanned.edges) :
                          /\ ContainsX(e, x) /\ e.y > y /\ e.y <= m.bottom
                          /\ Width(e) >= MinimumWidth}
        IN  IF perches = {} THEN hit = NoEdge
            ELSE hit \in perches /\ \A e \in perches : ~Before(e, hit)

\* Nobody falls through the floor: whatever is at the bottom of a monitor's work
\* area, the panel there or the floor of its own, spans all of it.
EveryWorkAreaHasAFloor ==
  Scanned =>
    \A m \in screens.monitors : \A x \in m.work.left .. m.work.right - 1 :
      \E e \in Range(scanned.edges) : ContainsX(e, x) /\ e.y = m.work.bottom
=============================================================================
