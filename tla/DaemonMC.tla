------------------------------ MODULE DaemonMC ------------------------------
(***************************************************************************)
(* Two mascots and one output for TLC, and a third mascot that only a file *)
(* names.  The two parsers are compared on every file of up to three of ten *)
(* kinds of lines.                                                         *)
(***************************************************************************)
EXTENDS Daemon

\* "plenty", which nobody reads as a number, and "+3", which only the window does.
Unreadable == [number |-> 0, items |-> << >>, readers |-> {}]
WithSign == [number |-> 3, items |-> << >>, readers |-> {"window"}]

MCLines ==
  { Header("DragonPerch"), Header("Other"), Header(""), Junk,
    Entry("pets-per-mascot", Number(2)), Entry("pets-per-mascot", Number(65)),
    Entry("pets-per-mascot", Unreadable), Entry("pets-per-mascot", WithSign),
    Entry("walk-speed", Number(42126)), Entry("mascots", Items(<<3>>)) }

MCAwkwardFiles == UNION {[1 .. n -> MCLines] : n \in 0 .. 3}

\* None; one that names a mascot nobody has installed, and one that is in the box.
MCHandWritten ==
  { << >>,
    <<Header("DragonPerch"), Entry("mascots", Items(<<1, 3>>)),
      Entry("pets-per-mascot", Unreadable), Entry("walk-speed", Number(2500000))>> }

MCKnown == [key \in ListKeys |-> IF key = "mascots" THEN {1, 2} ELSE {}]
MCPacks == {1, 2}
MCOutputs == {7}
MCOffered == "walk-speed" :> {60000}
MCSliderEnd == 200000
=============================================================================
