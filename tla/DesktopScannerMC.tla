-------------------------- MODULE DesktopScannerMC --------------------------
(***************************************************************************)
(* Three windows on a desktop eight columns wide, for TLC.  Their frames   *)
(* cover one another's top rows in the middle, at an end, wholly, along    *)
(* the row just below, and not at all; some are too narrow or too flat.    *)
(***************************************************************************)
EXTENDS DesktopScanner

Rect(left, right, top, bottom) ==
  [left |-> left, right |-> right, top |-> top, bottom |-> bottom]

MCWindows == 1 .. 3

MCFrames ==
  << {Rect(0, 8, 1, 5), Rect(5, 8, 2, 5)},
     {Rect(3, 5, 0, 3), Rect(1, 7, 1, 5), Rect(3, 4, 0, 5)},
     {Rect(6, 8, 0, 4), Rect(2, 4, 0, 2), Rect(0, 8, 5, 8), Rect(0, 8, 1, 2)} >>

Monitor(id, left, right, work) ==
  [id |-> id, left |-> left, right |-> right, top |-> 0, bottom |-> 6, work |-> work]

\* A taskbar along one monitor, along one of two, on the left, and none.
MCScreens ==
  { [monitors |-> {Monitor(7, 0, 8, Rect(0, 8, 0, 5))}, taskbar |-> {Rect(0, 8, 5, 6)}],
    [monitors |-> {Monitor(7, 0, 4, Rect(0, 4, 0, 5)), Monitor(8, 4, 8, Rect(4, 8, 0, 5))},
     taskbar |-> {Rect(0, 4, 5, 6)}],
    [monitors |-> {Monitor(7, 0, 8, Rect(2, 8, 0, 6))}, taskbar |-> {Rect(0, 2, 0, 6)}],
    [monitors |-> {Monitor(7, 0, 4, Rect(0, 4, 0, 6)), Monitor(8, 4, 8, Rect(4, 8, 0, 6))},
     taskbar |-> {}] }

MCTaskbar == -1

AnyKind == {"shown", "tool", "hidden"}
=============================================================================
