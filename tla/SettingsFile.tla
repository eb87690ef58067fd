---------------------------- MODULE SettingsFile ----------------------------
(***************************************************************************)
(* The settings file, dragonperchrc, and the three pieces of code that     *)
(* read and write it: core/dragonperch/settings.cpp over ini.cpp, which    *)
(* the daemons and the KDE module use, and shell/windows/Settings.cs,      *)
(* which the Windows settings window uses.                                 *)
(*                                                                         *)
(* A file is a sequence of lines, blank ones and comments taken off.  What *)
(* is written behind the `=` is a text: the number or the items it stands  *)
(* for, and the readers that understand it, for the two parsers do not     *)
(* take quite the same numbers.  A name is its place in the alphabet; a    *)
(* speed and an interval are in thousandths, a choice is 0 or 1.           *)
(***************************************************************************)
EXTENDS Integers, SequencesExt

CONSTANT AwkwardFiles   \* the files the two parsers are compared on

IsFile(f) ==
  /\ Len(f) \in Nat /\ DOMAIN f = 1 .. Len(f)
  /\ \A i \in DOMAIN f : f[i].is = "entry" => f[i].text.number \in Int

\* A file has as many lines as it has, and a number is a number.
ASSUME AwkwardFilesAssumption == \A f \in AwkwardFiles : IsFile(f)

Readers == {"daemon", "window"}

ListKeys == {"mascots", "outputs"}
NumberKeys == {"pets-per-mascot", "walk-speed", "idle-interval", "pause-for-fullscreen"}
Keys == NumberKeys \cup ListKeys

SectionName == "DragonPerch"

\* Lines.  A header nobody can read opens a section without a name.
Header(name) == [is |-> "header", name |-> name]
Entry(key, text) == [is |-> "entry", key |-> key, text |-> text]
Junk == [is |-> "junk"]

Number(n) == [number |-> n, items |-> << >>, readers |-> Readers]
Items(s) == [number |-> 0, items |-> s, readers |-> Readers]

-----------------------------------------------------------------------------
(* Settings *)

Default ==
  [key \in Keys |->
     CASE key = "pets-per-mascot" -> 1
       [] key = "walk-speed" -> 42000
       [] key = "idle-interval" -> 9000
       [] key = "pause-for-fullscreen" -> 1
       [] OTHER -> << >>]

Lowest(key) == IF key = "walk-speed" THEN 1000 ELSE 0

Highest(key) ==
  CASE key = "pets-per-mascot" -> 64
    [] key = "walk-speed" -> 1000000
    [] key = "idle-interval" -> 3600000
    [] OTHER -> 1

Clamp(n, lowest, highest) ==
  IF n < lowest THEN lowest ELSE IF n > highest THEN highest ELSE n

Value(key, text) ==
  IF key \in ListKeys THEN text.items ELSE Clamp(text.number, Lowest(key), Highest(key))

\* An empty list is everything there is.
wants(chosen, name) == chosen = << >> \/ Contains(chosen, name)

-----------------------------------------------------------------------------
(* Reading *)

\* The header of the section line i is in, or 0 before the first of them.
SectionOf(file, i) == Max({0} \cup {h \in 1 .. i : file[h].is = "header"})

InOurs(file, i) ==
  LET section == SectionOf(file, i)
  IN  section > 0 /\ file[section].name = SectionName

Entries(file, key) ==
  {i \in DOMAIN file : file[i].is = "entry" /\ file[i].key = key /\ InOurs(file, i)}

\* Mutation of Found: the first entry of a section, as it once was.
Found_First(file, key) ==
  {i \in Entries(file, key) :
     ~\E j \in Entries(file, key) : j < i /\ SectionOf(file, j) = SectionOf(file, i)}

\* Section::find, in every section of ours: the last entry there with the key.
Found(file, key) ==
  LET entries == Entries(file, key)
  IN  {i \in entries :
         ~\E j \in entries : j > i /\ SectionOf(file, j) = SectionOf(file, i)}

\* The last of these lines a reader understands; failing that, the default.
Answer(file, key, lines, reader) ==
  LET understood == {i \in lines : reader \in file[i].text.readers}
  IN  IF understood = {} THEN Default[key] ELSE Value(key, file[Max(understood)].text)

\* One section of ours after another, and in each of them what find returns.
parse_settings(file) ==
  [key \in Keys |-> Answer(file, key, Found(file, key), "daemon")]

\* Settings.Parse assigns as it reads.
Parse(file) ==
  [key \in Keys |-> Answer(file, key, Entries(file, key), "window")]

-----------------------------------------------------------------------------
(* Writing *)

\* Mutation of two_places: half a unit too much.
two_places_Up(n) == 10 * ((n + 10) \div 10)

\* Two decimals, of a number that is not negative.
two_places(n) == 10 * ((n + 5) \div 10)

Written(settings, key) ==
  IF key \in ListKeys THEN Items(settings[key])
  ELSE IF key \in {"walk-speed", "idle-interval"} THEN Number(two_places(settings[key]))
  ELSE Number(settings[key])

\* Both writers write the whole file every time, in the same words.
write_settings(settings) ==
  <<Header(SectionName)>> \o
  [i \in 1 .. 6 |->
     LET key == << "pets-per-mascot", "mascots", "walk-speed", "idle-interval",
                   "outputs", "pause-for-fullscreen" >>[i]
     IN  Entry(key, Written(settings, key))]

-----------------------------------------------------------------------------
(* What the awkward files are for *)

AllUnderstood(file) ==
  \A i \in DOMAIN file : file[i].is = "entry" => file[i].text.readers = Readers

ReadAlike(file) == AllUnderstood(file) => parse_settings(file) = Parse(file)

AwkwardFilesReadAlike == \A file \in AwkwardFiles : ReadAlike(file)

Settles(file) ==
  LET saved == write_settings(parse_settings(file))
  IN  parse_settings(saved) = Parse(saved) /\ write_settings(parse_settings(saved)) = saved

AwkwardFilesSettle == \A file \in AwkwardFiles : Settles(file)
=============================================================================
