---------------------------- MODULE Daemon_proofs ----------------------------
(***************************************************************************)
(* Proofs about the settings file and the daemons that read it: the two    *)
(* parsers read every file alike whose values both understand, whatever    *)
(* the file, what is saved is read back and has settled, and the pets      *)
(* alive are those the settings ask for, moved only where they have to be, *)
(* whatever is edited, saved and reloaded in whatever order.               *)
(***************************************************************************)
EXTENDS Daemon, SequenceTheorems, FiniteSetTheorems, WellFoundedInduction, TLAPS

-----------------------------------------------------------------------------
(* The parsers *)

\* A set of lines of a file that is not empty has a last one.
LEMMA HasLast ==
  ASSUME NEW L \in Nat, NEW S, S \subseteq 1 .. L, S # {}
  PROVE  \E x \in S : \A y \in S : x >= y
<1> DEFINE T == {L - s : s \in S}
           R == OpToRel(<, Nat)
<1>1. T \subseteq Nat /\ T # {}
  <2>1. \A s \in S : L - s \in Nat
    OBVIOUS
  <2>2. PICK s \in S : TRUE
    OBVIOUS
  <2>3. L - s \in T
    BY <2>2
  <2> QED  BY <2>1, <2>3
<1>2. IsWellFoundedOn(R, Nat)
  BY NatLessThanWellFounded
<1>3. PICK t \in T : \A u \in T : ~(<<u, t>> \in R)
  <2> HIDE DEF T, R
  <2> QED  BY <1>1, <1>2, WFMin
<1>4. \A u \in T : ~(u < t)
  BY <1>1, <1>3 DEF OpToRel
<1>5. PICK x \in S : t = L - x
  OBVIOUS
<1>6. \A y \in S : x >= y
  BY <1>4, <1>5
<1> QED  BY <1>6

\* Max is the last one, whichever way it is described.
LEMMA MaxIs ==
  ASSUME NEW L \in Nat, NEW S, S \subseteq 1 .. L, NEW x \in S, \A y \in S : x >= y
  PROVE  Max(S) = x
<1>1. \A z \in S : (\A y \in S : z >= y) => z = x
  OBVIOUS
<1> QED  BY <1>1, Zenon DEF Max

\* What find returns of each section has the same last line as all the entries.
LEMMA SameLast ==
  ASSUME NEW f, IsFile(f), NEW key
  PROVE  /\ Found(f, key) = {} <=> Entries(f, key) = {}
         /\ Entries(f, key) # {} => Max(Found(f, key)) = Max(Entries(f, key))
<1> DEFINE E == Entries(f, key)
           F == Found(f, key)
<1>1. E \subseteq 1 .. Len(f) /\ Len(f) \in Nat
  BY DEF Entries, IsFile
<1>2. F = {i \in E : ~\E j \in E : j > i /\ SectionOf(f, j) = SectionOf(f, i)}
  BY DEF Found
<1> HIDE DEF E, F
<1>3. CASE E = {}
  BY <1>2, <1>3 DEF E, F
<1>4. CASE E # {}
  <2>1. PICK x \in E : \A y \in E : x >= y
    BY <1>1, <1>4, HasLast
  <2>2. x \in F
    BY <1>1, <1>2, <2>1
  <2>3. F \subseteq 1 .. Len(f) /\ \A y \in F : x >= y
    BY <1>1, <1>2, <2>1
  <2>4. Max(E) = x /\ Max(F) = x
    BY <1>1, <2>1, <2>2, <2>3, MaxIs
  <2> QED  BY <2>2, <2>4, <1>4 DEF E, F
<1> QED  BY <1>3, <1>4

\* The daemon and the settings window read a file alike when both understand every
\* value in it, however its sections and keys are repeated and whatever else is there.
THEOREM ParsersAgree ==
  ASSUME NEW f, IsFile(f)
  PROVE  ReadAlike(f)
<1> SUFFICES ASSUME AllUnderstood(f)
             PROVE  parse_settings(f) = Parse(f)
  BY DEF ReadAlike
<1>1. ASSUME NEW key \in Keys
      PROVE  Answer(f, key, Found(f, key), "daemon") = Answer(f, key, Entries(f, key), "window")
  <2>1. \A i \in Entries(f, key) :
          "daemon" \in f[i].text.readers /\ "window" \in f[i].text.readers
    BY DEF AllUnderstood, Entries, Readers
  <2>2. Found(f, key) \subseteq Entries(f, key)
    BY DEF Found
  <2>3. {i \in Found(f, key) : "daemon" \in f[i].text.readers} = Found(f, key)
    BY <2>1, <2>2
  <2>4. {i \in Entries(f, key) : "window" \in f[i].text.readers} = Entries(f, key)
    BY <2>1
  <2> QED  BY <2>3, <2>4, SameLast DEF Answer
<1> QED  BY <1>1 DEF parse_settings, Parse

-----------------------------------------------------------------------------
(* Writing *)

\* What every reader can take for settings.
IsSettings(s) == DOMAIN s = Keys /\ \A key \in NumberKeys : s[key] \in Int

\* The line each setting is written in.
LineOf(key) ==
  CASE key = "pets-per-mascot" -> 2
    [] key = "mascots" -> 3
    [] key = "walk-speed" -> 4
    [] key = "idle-interval" -> 5
    [] key = "outputs" -> 6
    [] key = "pause-for-fullscreen" -> 7

\* What is written is the header and a line for each setting.
LEMMA WrittenLines ==
  ASSUME NEW s
  PROVE  LET w == write_settings(s)
         IN  /\ Len(w) = 7 /\ DOMAIN w = 1 .. 7
             /\ w = [i \in 1 .. 7 |-> w[i]]
             /\ w[1] = Header(SectionName)
             /\ \A key \in Keys : w[LineOf(key)] = Entry(key, Written(s, key))
             /\ \A i \in 2 .. 7 : \E key \in Keys : i = LineOf(key)
<1> DEFINE order == << "pets-per-mascot", "mascots", "walk-speed", "idle-interval",
                      "outputs", "pause-for-fullscreen" >>
           body == [i \in 1 .. 6 |-> LET key == order[i] IN Entry(key, Written(s, key))]
           first == <<Header(SectionName)>>
           Lines == {Header(SectionName)} \cup {body[i] : i \in 1 .. 6}
           w == write_settings(s)
<1>1. w = first \o body
  BY DEF write_settings
<1>2. \A key \in Keys : /\ LineOf(key) \in 2 .. 7
                        /\ order[LineOf(key) - 1] = key
  BY DEF Keys, NumberKeys, ListKeys, LineOf
<1>3. \A i \in 2 .. 7 : \E key \in Keys : i = LineOf(key)
  <2>1. \A i \in 2 .. 7 : i = 2 \/ i = 3 \/ i = 4 \/ i = 5 \/ i = 6 \/ i = 7
    OBVIOUS
  <2>2. \A key \in {"pets-per-mascot", "mascots", "walk-speed", "idle-interval",
                    "outputs", "pause-for-fullscreen"} : key \in Keys
    BY DEF Keys, NumberKeys, ListKeys
  <2> QED  BY <2>1, <2>2 DEF LineOf
<1> HIDE DEF order
<1>4. \A key \in Keys : body[LineOf(key) - 1] = Entry(key, Written(s, key))
  BY <1>2
<1>5. body \in Seq(Lines) /\ Len(body) = 6
  <2>1. body \in [1 .. 6 -> Lines]
    OBVIOUS
  <2> HIDE DEF body, Lines
  <2>2. body \in UNION {[1 .. n -> Lines] : n \in Nat}
    BY <2>1
  <2>3. body \in Seq(Lines)
    BY <2>2, SeqDef
  <2>4. DOMAIN body = 1 .. 6 /\ DOMAIN body = 1 .. Len(body) /\ Len(body) \in Nat
    BY <2>1, <2>3, LenProperties
  <2> QED  BY <2>3, <2>4
<1>6. first \in Seq(Lines) /\ Len(first) = 1 /\ first[1] = Header(SectionName)
  OBVIOUS
<1> HIDE DEF body, first, Lines
<1>7. first \o body \in Seq(Lines) /\ Len(first \o body) = 7
  <2>1. first \o body \in Seq(Lines)
    BY <1>5, <1>6
  <2>2. Len(first \o body) = Len(first) + Len(body)
    BY <1>5, <1>6, ConcatProperties, Zenon
  <2> QED  BY <1>5, <1>6, <2>1, <2>2
<1>8. /\ w[1] = first[1]
      /\ \A i \in 2 .. 7 : w[i] = body[i - 1]
  <2>1. ASSUME NEW i \in 1 .. 7
        PROVE  (first \o body)[i] = IF i <= 1 THEN first[i] ELSE body[i - 1]
    <3>1. Len(first) + Len(body) = 7
      BY <1>5, <1>6
    <3>2. i \in 1 .. Len(first) + Len(body)
      BY <3>1
    <3>3. (first \o body)[i] = IF i <= Len(first) THEN first[i] ELSE body[i - Len(first)]
      BY <1>5, <1>6, <3>2, ConcatProperties, Zenon
    <3> QED
      BY <1>5, <1>6, <3>3
  <2>2. (first \o body)[1] = first[1]
    <3>1. 1 \in 1 .. 7
      OBVIOUS
    <3>2. (first \o body)[1] = IF 1 <= 1 THEN first[1] ELSE body[1 - 1]
      BY <2>1, <3>1, Zenon
    <3> QED
      BY <3>2
  <2>3. ASSUME NEW i \in 2 .. 7
        PROVE  (first \o body)[i] = body[i - 1]
    <3>1. i \in 1 .. 7 /\ ~(i <= 1)
      OBVIOUS
    <3> QED
      BY <2>1, <3>1
  <2> HIDE DEF w
  <2> QED
    BY <1>1, <2>2, <2>3
<1> QED
  BY <1>1, <1>2, <1>3, <1>4, <1>6, <1>7, <1>8, LenProperties

\* Settings that are written in the same words make the same file.
LEMMA SameWords ==
  ASSUME NEW s, NEW t, \A key \in Keys : Written(s, key) = Written(t, key)
  PROVE  write_settings(s) = write_settings(t)
<1> DEFINE order == << "pets-per-mascot", "mascots", "walk-speed", "idle-interval",
                      "outputs", "pause-for-fullscreen" >>
           body(u) == [i \in 1 .. 6 |-> LET key == order[i] IN Entry(key, Written(u, key))]
<1>1. \A i \in 1 .. 6 : order[i] \in Keys
  BY DEF Keys, NumberKeys, ListKeys
<1> HIDE DEF order
<1>2. body(s) = body(t)
  BY <1>1
<1>3. /\ write_settings(s) = <<Header(SectionName)>> \o body(s)
      /\ write_settings(t) = <<Header(SectionName)>> \o body(t)
  BY DEF write_settings, order
<1> QED
  BY <1>2, <1>3

\* What is written is a file.
LEMMA WrittenIsFile ==
  ASSUME NEW s, IsSettings(s)
  PROVE  Len(write_settings(s)) = 7 /\ IsFile(write_settings(s))
<1> DEFINE w == write_settings(s)
<1>1. Len(w) = 7 /\ DOMAIN w = 1 .. 7
  BY WrittenLines
<1>2. ASSUME NEW i \in 1 .. 7, w[i].is = "entry"
      PROVE  w[i].text.number \in Int
  <2>1. i # 1
    BY <1>2, WrittenLines DEF Header
  <2>2. PICK key \in Keys : w[i] = Entry(key, Written(s, key))
    BY <2>1, WrittenLines
  <2>3. key \notin ListKeys => s[key] \in Int
    BY DEF IsSettings, Keys
  <2>4. Written(s, key).number \in Int
    BY <2>3 DEF Written, Items, Number, two_places
  <2> QED
    BY <2>2, <2>4 DEF Entry
<1> QED
  BY <1>1, <1>2 DEF IsFile

\* And so is the beginning of it.
LEMMA CutIsFile ==
  ASSUME NEW s, IsSettings(s), NEW n \in 0 .. 7
  PROVE  IsFile(SubSeq(write_settings(s), 1, n))
<1> DEFINE w == write_settings(s)
           S == {w[i] : i \in 1 .. 7}
<1>1. /\ Len(w) = 7 /\ DOMAIN w = 1 .. 7
      /\ \A i \in 1 .. 7 : w[i].is = "entry" => w[i].text.number \in Int
  BY WrittenIsFile DEF IsFile
<1> HIDE DEF w
<1>2. /\ Len(SubSeq(w, 1, n)) = n /\ DOMAIN SubSeq(w, 1, n) = 1 .. n
      /\ \A i \in 1 .. n : SubSeq(w, 1, n)[i] = w[i]
  BY <1>1
<1> DEFINE v == SubSeq(w, 1, n)
<1>3. /\ Len(v) = n /\ DOMAIN v = 1 .. n
      /\ \A i \in 1 .. n : v[i].is = "entry" => v[i].text.number \in Int
  BY <1>1, <1>2
<1> HIDE DEF v
<1>4. IsFile(v)
  BY <1>3 DEF IsFile
<1> QED
  BY <1>4 DEF v, w

\* All of it is understood by both readers.
LEMMA WrittenIsUnderstood ==
  ASSUME NEW s
  PROVE  AllUnderstood(write_settings(s))
<1> DEFINE w == write_settings(s)
<1> SUFFICES ASSUME NEW i \in DOMAIN w, w[i].is = "entry"
             PROVE  w[i].text.readers = Readers
  BY DEF AllUnderstood
<1>1. i \in 1 .. 7 /\ i # 1
  BY WrittenLines DEF Header
<1>2. PICK key \in Keys : w[i] = Entry(key, Written(s, key))
  BY <1>1, WrittenLines
<1> QED
  BY <1>2 DEF Entry, Written, Items, Number

\* Every line of what is written is in the one section there is.
LEMMA OneSection ==
  ASSUME NEW s, NEW i \in 1 .. 7
  PROVE  SectionOf(write_settings(s), i) = 1 /\ InOurs(write_settings(s), i)
<1> DEFINE w == write_settings(s)
<1>1. w[1].is = "header" /\ w[1].name = SectionName
  BY WrittenLines DEF Header
<1>2. ASSUME NEW h \in 2 .. 7
      PROVE  w[h].is = "entry"
  <2>1. PICK key \in Keys : w[h] = Entry(key, Written(s, key))
    BY WrittenLines
  <2> HIDE DEF w
  <2> QED
    BY <2>1 DEF Entry
<1> HIDE DEF w
<1>3. {0} \cup {h \in 1 .. i : w[h].is = "header"} = {0, 1}
  BY <1>1, <1>2
<1>4. Max({0, 1}) = 1
  <2>1. \A x \in {0, 1} : (\A y \in {0, 1} : x >= y) <=> x = 1
    OBVIOUS
  <2> QED
    BY <2>1 DEF Max
<1>5. SectionOf(w, i) = 1
  BY <1>3, <1>4 DEF SectionOf
<1> QED
  BY <1>1, <1>5 DEF InOurs, w

\* A setting is read back from the line it is written in.
LEMMA ReadBack ==
  ASSUME NEW s, NEW key \in Keys
  PROVE  parse_settings(write_settings(s))[key] = Value(key, Written(s, key))
<1> DEFINE w == write_settings(s)
           p == LineOf(key)
<1>1. /\ DOMAIN w = 1 .. 7 /\ p \in 2 .. 7
      /\ w[p] = Entry(key, Written(s, key))
  BY WrittenLines DEF LineOf, Keys, NumberKeys, ListKeys
<1>2. Entries(w, key) = {p}
  <2>1. p \in Entries(w, key)
    BY <1>1, OneSection DEF Entries, Entry
  <2>2. ASSUME NEW i \in Entries(w, key)
        PROVE  i = p
    <3>1. i \in 1 .. 7 /\ w[i].is = "entry" /\ w[i].key = key
      BY <1>1 DEF Entries
    <3>2. i \in 2 .. 7
      BY <3>1, WrittenLines DEF Header
    <3>3. PICK k \in Keys : i = LineOf(k)
      BY <3>2, WrittenLines
    <3>4. w[i] = Entry(k, Written(s, k))
      BY <3>3, WrittenLines
    <3> QED
      BY <3>1, <3>3, <3>4 DEF Entry
  <2> QED
    BY <2>1, <2>2
<1> HIDE DEF p
<1>3. Found(w, key) = {p}
  BY <1>1, <1>2 DEF Found
<1>4. {i \in {p} : "daemon" \in w[i].text.readers} = {p}
  BY <1>1 DEF Entry, Written, Items, Number, Readers
<1>5. Max({p}) = p
  BY <1>1, MaxIs
<1>6. Answer(w, key, {p}, "daemon") = Value(key, Written(s, key))
  BY <1>1, <1>4, <1>5 DEF Answer, Entry
<1> QED
  BY <1>3, <1>6 DEF parse_settings

\* The number that is read from a file is within its bounds, whoever reads it.
LEMMA AnswerInBounds ==
  ASSUME NEW f, IsFile(f), NEW key \in NumberKeys,
         NEW lines \in SUBSET Entries(f, key), NEW reader
  PROVE  Answer(f, key, lines, reader) \in Lowest(key) .. Highest(key)
<1> DEFINE understood == {i \in lines : reader \in f[i].text.readers}
<1>1. key \in Keys /\ key \notin ListKeys
  BY DEF Keys, NumberKeys, ListKeys
<1>2. Answer(f, key, lines, reader) =
        IF understood = {} THEN Default[key] ELSE Value(key, f[Max(understood)].text)
  BY DEF Answer
<1>3. Lowest(key) \in Int /\ Highest(key) \in Int /\ Lowest(key) <= Highest(key)
  BY DEF Lowest, Highest, NumberKeys
<1>4. Default[key] \in Lowest(key) .. Highest(key)
  <2>1. CASE key = "pets-per-mascot"
    BY <1>1, <2>1 DEF Default, Lowest, Highest
  <2>2. CASE key = "walk-speed"
    BY <1>1, <2>2 DEF Default, Lowest, Highest
  <2>3. CASE key = "idle-interval"
    BY <1>1, <2>3 DEF Default, Lowest, Highest
  <2>4. CASE key = "pause-for-fullscreen"
    BY <1>1, <2>4 DEF Default, Lowest, Highest
  <2> QED
    BY <2>1, <2>2, <2>3, <2>4 DEF NumberKeys
<1>5. /\ Len(f) \in Nat /\ understood \subseteq 1 .. Len(f)
      /\ \A i \in understood : f[i].text.number \in Int
  BY DEF IsFile, Entries
<1> HIDE DEF understood
<1>6. CASE understood # {}
  <2>1. Max(understood) \in understood
    BY <1>5, <1>6, HasLast, MaxIs
  <2> DEFINE text == f[Max(understood)].text
  <2>2. text.number \in Int
    BY <1>5, <2>1
  <2> HIDE DEF text
  <2>3. Value(key, text) = Clamp(text.number, Lowest(key), Highest(key))
    BY <1>1 DEF Value
  <2>4. Value(key, text) \in Lowest(key) .. Highest(key)
    BY <1>3, <2>2, <2>3 DEF Clamp
  <2> QED
    BY <1>2, <1>6, <2>4 DEF text
<1> QED
  BY <1>2, <1>4, <1>6

LEMMA ReadInBounds ==
  ASSUME NEW f, IsFile(f), NEW key \in NumberKeys
  PROVE  /\ parse_settings(f)[key] \in Lowest(key) .. Highest(key)
         /\ Parse(f)[key] \in Lowest(key) .. Highest(key)
<1>1. Found(f, key) \subseteq Entries(f, key)
  BY DEF Found
<1>2. /\ Answer(f, key, Found(f, key), "daemon") \in Lowest(key) .. Highest(key)
      /\ Answer(f, key, Entries(f, key), "window") \in Lowest(key) .. Highest(key)
  BY <1>1, AnswerInBounds
<1> QED
  BY <1>2 DEF parse_settings, Parse, Keys

LEMMA ReadIsSettings ==
  ASSUME NEW f, IsFile(f)
  PROVE  IsSettings(parse_settings(f)) /\ IsSettings(Parse(f))
<1>1. ASSUME NEW key \in NumberKeys
      PROVE  parse_settings(f)[key] \in Int /\ Parse(f)[key] \in Int
  <2>1. Lowest(key) \in Int /\ Highest(key) \in Int
    BY DEF Lowest, Highest, NumberKeys
  <2> QED
    BY <2>1, ReadInBounds
<1>2. DOMAIN parse_settings(f) = Keys /\ DOMAIN Parse(f) = Keys
  BY DEF parse_settings, Parse
<1> QED
  BY <1>1, <1>2 DEF IsSettings

\* Rounding stays within the bounds, and rounds once.
LEMMA RoundingSettles ==
  ASSUME NEW key \in {"walk-speed", "idle-interval"},
         NEW n \in Lowest(key) .. Highest(key)
  PROVE  /\ Clamp(two_places(n), Lowest(key), Highest(key)) = two_places(n)
         /\ two_places(two_places(n)) = two_places(n)
<1> DEFINE k == (n + 5) \div 10
<1>1. Lowest("walk-speed") = 1000 /\ Lowest("idle-interval") = 0
  BY DEF Lowest
<1>2. Highest("walk-speed") = 1000000 /\ Highest("idle-interval") = 3600000
  BY DEF Highest
<1>3. n \in Int /\ Lowest(key) <= n /\ n <= Highest(key)
  BY <1>1, <1>2
<1>4. k \in Int /\ two_places(n) = 10 * k
  BY <1>3 DEF two_places
<1>5. Lowest(key) <= 10 * k /\ 10 * k <= Highest(key)
  BY <1>1, <1>2, <1>3
<1>6. (10 * k + 5) \div 10 = k
  BY <1>4
<1> HIDE DEF k
<1>7. two_places(10 * k) = 10 * k
  BY <1>6 DEF two_places
<1>8. Clamp(10 * k, Lowest(key), Highest(key)) = 10 * k
  BY <1>1, <1>2, <1>4, <1>5 DEF Clamp
<1> QED
  BY <1>4, <1>7, <1>8

\* Numbers do not wander off by being saved: what was read and rounded is read again
\* as it was written.
LEMMA EverythingSettles ==
  ASSUME NEW f, IsFile(f)
  PROVE  Settles(f)
<1> DEFINE s == parse_settings(f)
           saved == write_settings(s)
           t == parse_settings(saved)
<1>1. IsSettings(s) /\ IsFile(saved)
  BY ReadIsSettings, WrittenIsFile
<1>2. parse_settings(saved) = Parse(saved)
  BY <1>1, ParsersAgree, WrittenIsUnderstood DEF ReadAlike
<1>3. ASSUME NEW key \in Keys
      PROVE  Written(t, key) = Written(s, key)
  <2>1. t[key] = Value(key, Written(s, key))
    BY ReadBack
  <2>2. CASE key \in ListKeys
    BY <2>1, <2>2 DEF Value, Written, Items
  <2>3. CASE key \in NumberKeys
    <3>1. key \notin ListKeys /\ s[key] \in Lowest(key) .. Highest(key)
      BY <2>3, ReadInBounds DEF NumberKeys, ListKeys
    <3> HIDE DEF s, t
    <3>2. CASE key \in {"walk-speed", "idle-interval"}
      <4>1. t[key] = Clamp(two_places(s[key]), Lowest(key), Highest(key))
        BY <2>1, <3>1, <3>2 DEF Value, Written, Number
      <4>2. t[key] = two_places(s[key]) /\ two_places(two_places(s[key])) = two_places(s[key])
        BY <3>1, <3>2, <4>1, RoundingSettles
      <4> QED
        BY <3>1, <3>2, <4>2 DEF Written
    <3>3. CASE key \notin {"walk-speed", "idle-interval"}
      <4>1. t[key] = Clamp(s[key], Lowest(key), Highest(key))
        BY <2>1, <3>1, <3>3 DEF Value, Written, Number
      <4>2. Lowest(key) \in Int /\ Highest(key) \in Int
        BY <2>3 DEF Lowest, Highest, NumberKeys
      <4>3. t[key] = s[key]
        BY <3>1, <4>1, <4>2 DEF Clamp
      <4> QED
        BY <3>1, <3>3, <4>3 DEF Written
    <3> QED
      BY <3>2, <3>3
  <2> QED
    BY <2>2, <2>3 DEF Keys
<1>4. write_settings(t) = saved
  <2> HIDE DEF s, t
  <2>1. write_settings(t) = write_settings(s)
    BY <1>3, SameWords
  <2> QED
    BY <2>1
<1> QED
  BY <1>2, <1>4 DEF Settles

-----------------------------------------------------------------------------
(* The invariants *)

\* The settings program, and what it has saved.
ProgramInv ==
  /\ IsFile(file)
  /\ head \in {"linux", "windows"}
  /\ DOMAIN program = {"at", "settings", "saved", "edits"}
  /\ IsSettings(program.settings)
  /\ DOMAIN ticks = ListKeys /\ \A key \in ListKeys : ticks[key] \subseteq Known[key]
  /\ program.at = "beside" => head = "linux"
  /\ program.at = "writing" => head = "windows"
  /\ program.at = "saved" => file = write_settings(program.settings)
  /\ head = "linux" /\ program.at # "closed" => ticks = Shown(program.settings)
  /\ head = "windows" /\ program.at \in {"writing", "saved"} =>
       \A key \in ListKeys : program.settings[key] = Chosen(key)

\* What the boxes show are names there are boxes for.
LEMMA ShownIsKnown ==
  ASSUME NEW s
  PROVE  DOMAIN Shown(s) = ListKeys /\ \A key \in ListKeys : Shown(s)[key] \subseteq Known[key]
BY DEF Shown

LEMMA ProgramRests ==
  ASSUME ProgramInv, UNCHANGED <<file, head, program, ticks>>
  PROVE  ProgramInv'
BY DEF ProgramInv, IsFile, IsSettings, Chosen

LEMMA OpenKeeps ==
  ASSUME ProgramInv, Open
  PROVE  ProgramInv'
<1>1. PICK s : /\ s = IF head = "linux" THEN parse_settings(file) ELSE Showable(Parse(file))
               /\ program' = [program EXCEPT !.at = "open", !.settings = s,
                                             !.saved = IF head = "linux" THEN s ELSE @]
               /\ ticks' = Shown(s)
  BY DEF Open
<1>2. IsSettings(s)
  <2>1. IsSettings(parse_settings(file)) /\ IsSettings(Parse(file))
    BY ReadIsSettings DEF ProgramInv
  <2>2. IsSettings(Showable(Parse(file)))
    BY <2>1, DaemonAssumption DEF IsSettings, Showable, Clamp, Lowest
  <2> QED
    BY <1>1, <2>1, <2>2
<1>3. /\ DOMAIN program' = DOMAIN program
      /\ program'.at = "open" /\ program'.settings = s
      /\ UNCHANGED <<file, head>>
  BY <1>1 DEF ProgramInv, Open, fileVars
<1> QED
  BY <1>1, <1>2, <1>3, ShownIsKnown DEF ProgramInv

LEMMA EditKeeps ==
  ASSUME ProgramInv, NEW s, Edit(s), IsSettings(s),
         DOMAIN ticks' = ListKeys, \A key \in ListKeys : ticks'[key] \subseteq Known[key],
         head = "linux" => ticks' = Shown(s)
  PROVE  ProgramInv'
<1>1. /\ DOMAIN program' = DOMAIN program
      /\ program'.at = "open" /\ program'.settings = s
      /\ UNCHANGED <<file, head>>
  BY DEF ProgramInv, Edit, fileVars
<1> QED
  BY <1>1 DEF ProgramInv

LEMMA SetNumberKeeps ==
  ASSUME ProgramInv, NEW key \in DOMAIN Offered, NEW n \in Offered[key], SetNumber(key, n)
  PROVE  ProgramInv'
<1> DEFINE s == [program.settings EXCEPT ![key] = n]
<1>1. key \in NumberKeys /\ n \in Int
  BY DaemonAssumption
<1>2. IsSettings(s)
  BY <1>1 DEF ProgramInv, IsSettings
<1>3. s["mascots"] = program.settings["mascots"] /\ s["outputs"] = program.settings["outputs"]
  BY <1>1 DEF ProgramInv, IsSettings, NumberKeys
<1>4. Edit(s) /\ ticks' = ticks
  BY DEF SetNumber
<1>5. Shown(s) = Shown(program.settings)
  BY <1>3 DEF Shown, ListKeys
<1>6. head = "linux" => ticks' = Shown(s)
  BY <1>4, <1>5 DEF ProgramInv, Edit
<1> HIDE DEF s
<1> QED
  BY <1>2, <1>4, <1>6, EditKeeps DEF ProgramInv

LEMMA TickKeeps ==
  ASSUME ProgramInv, NEW key \in ListKeys, NEW name \in Known[key], Tick(key, name)
  PROVE  ProgramInv'
<1>1. CASE head = "linux"
  <2>1. PICK chosen : LET s == [program.settings EXCEPT ![key] = chosen]
                      IN  Edit(s) /\ ticks' = Shown(s)
    BY <1>1 DEF Tick
  <2> DEFINE s == [program.settings EXCEPT ![key] = chosen]
  <2>2. IsSettings(s)
    BY DEF ProgramInv, IsSettings, ListKeys, NumberKeys
  <2> HIDE DEF s
  <2>3. Edit(s) /\ ticks' = Shown(s)
    BY <2>1 DEF s
  <2> QED
    BY <2>2, <2>3, ShownIsKnown, EditKeeps
<1>2. CASE head # "linux"
  <2>1. PICK boxes : /\ boxes \in {ticks[key] \cup {name}, ticks[key] \ {name}}
                     /\ ticks' = [ticks EXCEPT ![key] = boxes]
    BY <1>2 DEF Tick
  <2>2. /\ program.at = "open" /\ program' = [program EXCEPT !.edits = @ + 1]
        /\ UNCHANGED <<file, head>>
    BY <1>2 DEF Tick, fileVars
  <2>3. /\ DOMAIN program' = DOMAIN program
        /\ program'.at = "open" /\ program'.settings = program.settings
    BY <2>2 DEF ProgramInv
  <2>4. DOMAIN ticks' = ListKeys /\ \A k \in ListKeys : ticks'[k] \subseteq Known[k]
    BY <2>1 DEF ProgramInv
  <2> QED
    BY <1>2, <2>2, <2>3, <2>4 DEF ProgramInv
<1> QED
  BY <1>1, <1>2

LEMMA DefaultsKeep ==
  ASSUME ProgramInv, Defaults
  PROVE  ProgramInv'
<1>1. IsSettings(Default)
  BY DEF IsSettings, Default, Keys, NumberKeys
<1> QED
  BY <1>1, EditKeeps, ShownIsKnown DEF Defaults

\* The window saves what its boxes say; the file is empty then.
LEMMA TruncateKeeps ==
  ASSUME ProgramInv, Truncate
  PROVE  ProgramInv'
<1> DEFINE chosen == [key \in Keys |-> IF key \in ListKeys THEN Chosen(key)
                                       ELSE program.settings[key]]
<1>1. IsSettings(chosen)
  BY DEF ProgramInv, IsSettings, Keys, NumberKeys, ListKeys
<1>2. \A key \in ListKeys : chosen[key] = Chosen(key)
  BY DEF Keys
<1> HIDE DEF chosen
<1>3. /\ head = "windows" /\ UNCHANGED <<head, ticks>>
      /\ program.at = "open"
      /\ \/ program' = [program EXCEPT !.at = "writing", !.settings = chosen] /\ file' = << >>
         \/ program' = [program EXCEPT !.settings = chosen] /\ file' = file
  BY DEF Truncate, chosen, fileVars
<1>4. /\ DOMAIN program' = DOMAIN program
      /\ program'.at \in {"writing", "open"} /\ program'.settings = chosen
  BY <1>3 DEF ProgramInv
<1>5. IsFile(file')
  BY <1>3 DEF ProgramInv, IsFile
<1>6. \A key \in ListKeys : Chosen(key)' = Chosen(key)
  BY <1>3 DEF Chosen
<1> QED
  BY <1>1, <1>2, <1>3, <1>4, <1>5, <1>6 DEF ProgramInv

LEMMA ProgramMoves ==
  ASSUME ProgramInv, NEW from, NEW to, ProgramGoes(from, to)
  PROVE  /\ DOMAIN program' = DOMAIN program
         /\ program.at = from /\ program'.at = to /\ program'.settings = program.settings
BY DEF ProgramInv, ProgramGoes

LEMMA SavingKeeps ==
  ASSUME ProgramInv, SavingStep \/ WriteBeside \/ Close
  PROVE  ProgramInv'
<1>1. CASE Rename
  <2>1. /\ program.at = "beside" /\ head = "linux" /\ UNCHANGED <<head, ticks>>
    BY <1>1 DEF Rename, ProgramGoes, ProgramInv
  <2>2. CASE /\ file' = write_settings(program.settings)
             /\ program' = [program EXCEPT !.at = "saved", !.saved = program.settings]
    <3>1. /\ DOMAIN program' = DOMAIN program
          /\ program'.at = "saved" /\ program'.settings = program.settings
      BY <2>2 DEF ProgramInv
    <3>2. IsFile(file')
      BY <2>2, WrittenIsFile DEF ProgramInv
    <3> QED
      BY <2>1, <2>2, <3>1, <3>2 DEF ProgramInv
  <2>3. CASE ProgramGoes("beside", "open") /\ UNCHANGED file
    BY <2>1, <2>3, ProgramMoves DEF ProgramInv
  <2> QED
    BY <1>1, <2>2, <2>3 DEF Rename, fileVars
<1>2. CASE FillIn
  <2>1. PICK n \in Cuts \cup {Len(write_settings(program.settings))} :
          /\ file' = SubSeq(write_settings(program.settings), 1, n)
          /\ ProgramGoes("writing",
               IF n = Len(write_settings(program.settings)) THEN "saved" ELSE "open")
    BY <1>2 DEF FillIn
  <2>2. /\ Len(write_settings(program.settings)) = 7 /\ n \in 0 .. 7
    BY <2>1, WrittenIsFile, DaemonAssumption DEF ProgramInv
  <2>3. IsFile(file')
    BY <2>1, <2>2, CutIsFile DEF ProgramInv
  <2>4. /\ DOMAIN program' = DOMAIN program
        /\ program.at = "writing" /\ program'.settings = program.settings
        /\ program'.at = IF n = 7 THEN "saved" ELSE "open"
    BY <2>1, <2>2, ProgramMoves
  <2>5. n = 7 => file' = write_settings(program.settings)
    <3> DEFINE w == write_settings(program.settings)
    <3>1. Len(w) = 7 /\ DOMAIN w = 1 .. 7
      BY WrittenLines
    <3>2. w = [i \in 1 .. 7 |-> w[i]]
      BY WrittenLines
    <3> QED
      BY <2>1, <3>1, <3>2
  <2>6. /\ head = "windows" /\ UNCHANGED <<head, ticks>>
        /\ \A key \in ListKeys : program.settings[key] = Chosen(key)
    BY <1>2, <2>4 DEF FillIn, ProgramInv
  <2>7. \A key \in ListKeys : Chosen(key)' = Chosen(key)
    BY <2>6 DEF Chosen
  <2> QED
    BY <2>2, <2>3, <2>4, <2>5, <2>6, <2>7 DEF ProgramInv
<1>3. ASSUME NEW from, NEW to, ProgramGoes(from, to), UNCHANGED <<file, head, ticks>>,
             to \in {"open", "telling", "closed"} \/ (to = "beside" /\ head = "linux"),
             from # "closed"
      PROVE  ProgramInv'
  BY <1>3, ProgramMoves DEF ProgramInv, Chosen
<1>4. CASE LookForDaemon
  BY <1>3, <1>4 DEF LookForDaemon, fileVars
<1>5. CASE Tell
  BY <1>3, <1>5 DEF Tell, fileVars
<1>6. CASE WriteBeside
  BY <1>3, <1>6 DEF WriteBeside, fileVars
<1>7. CASE Close
  <2>1. IsSettings(Default)
    BY DEF IsSettings, Default, Keys, NumberKeys
  <2>2. /\ UNCHANGED <<file, head>> /\ DOMAIN program' = DOMAIN program
        /\ program'.at = "closed" /\ program'.settings = Default
        /\ ticks' = [key \in ListKeys |-> {}]
    BY <1>7 DEF Close, fileVars, ProgramInv
  <2> QED
    BY <2>1, <2>2 DEF ProgramInv
<1> QED
  BY <1>1, <1>2, <1>4, <1>5, <1>6, <1>7 DEF SavingStep

LEMMA ProgramIsSound == Spec => []ProgramInv
<1>1. Init => ProgramInv
  <2> SUFFICES ASSUME Init PROVE ProgramInv
    OBVIOUS
  <2>1. IsSettings(Default)
    BY DEF IsSettings, Default, Keys, NumberKeys
  <2> QED
    BY <2>1, DaemonAssumption DEF Init, ProgramInv
<1>2. ProgramInv /\ [Next]_vars => ProgramInv'
  <2> SUFFICES ASSUME ProgramInv, [Next]_vars PROVE ProgramInv'
    OBVIOUS
  <2>1. CASE DaemonStep \/ Dispatch \/ Leave \/ Restart \/ AskReload \/ UNCHANGED vars
    <3>1. UNCHANGED <<file, head, program, ticks>>
      BY <2>1 DEF DaemonStep, TakeName, LoadAtStart, Populate, OpenControl, CheckReload,
         Reload, PumpReload, Pumped, Frame, Dispatch, Leave, Restart, AskReload, fileVars,
         programVars, vars
    <3> QED
      BY <3>1, ProgramRests
  <2>2. CASE Open
    BY <2>2, OpenKeeps
  <2>3. CASE SavingStep \/ WriteBeside \/ Close
    BY <2>3, SavingKeeps
  <2>4. CASE Defaults
    BY <2>4, DefaultsKeep
  <2>5. CASE Truncate
    BY <2>5, TruncateKeeps
  <2>6. ASSUME NEW key \in DOMAIN Offered, NEW n \in Offered[key], SetNumber(key, n)
        PROVE  ProgramInv'
    BY <2>6, SetNumberKeeps
  <2>7. ASSUME NEW key \in ListKeys, NEW name \in Known[key], Tick(key, name)
        PROVE  ProgramInv'
    BY <2>7, TickKeeps
  <2> QED
    BY <2>1, <2>2, <2>3, <2>4, <2>5, <2>6, <2>7 DEF Next
<1> QED
  BY <1>1, <1>2, PTL DEF Spec

\* Whatever is saved, cut short and edited, the two parsers read it alike.
THEOREM AlwaysReadAlike == Spec => []ParsersAgreeOnPlainValues
<1>1. AwkwardFilesReadAlike
  BY ParsersAgree, AwkwardFilesAssumption DEF AwkwardFilesReadAlike
<1>2. ProgramInv => ParsersAgreeOnPlainValues
  BY <1>1, ParsersAgree DEF ProgramInv, ParsersAgreeOnPlainValues
<1> QED  BY <1>2, ProgramIsSound, PTL

\* Two settings that need no respawn ask for one cast.
LEMMA SameCast ==
  ASSUME NEW old, NEW new, ~needs_respawn(old, new)
  PROVE  Cast(old) = Cast(new)
<1>1. /\ old["pets-per-mascot"] = new["pets-per-mascot"]
      /\ old["mascots"] = new["mascots"]
      /\ old["outputs"] = new["outputs"]
  BY DEF needs_respawn, CastKeys
<1> QED  BY <1>1 DEF Cast

\* A reload leaves the cast and the options those of what it has read.
LEMMA ApplyKeeps ==
  ASSUME NEW fresh, Apply(fresh), cast = Cast(settings)
  PROVE  cast' = Cast(settings') /\ options' = to_options(settings')
<1>1. CASE needs_respawn(settings, fresh)
  BY <1>1 DEF Apply, PopulateFrom
<1>2. CASE ~needs_respawn(settings, fresh)
  BY <1>2, SameCast DEF Apply
<1> QED  BY <1>1, <1>2

\* In the loop the pets alive are those the settings ask for, and the simulation
\* goes by the settings: although a reload spawns nobody unless it has to.
THEOREM CastFollowsSettings == Spec => []PetsAreTheCast
<1>1. Init => PetsAreTheCast
  BY DEF Init, PetsAreTheCast
<1>2. PetsAreTheCast /\ [Next]_vars => PetsAreTheCast'
  <2> SUFFICES ASSUME PetsAreTheCast, [Next]_vars
               PROVE  PetsAreTheCast'
    OBVIOUS
  <2>1. CASE UNCHANGED <<at, settings, options, cast>>
    <3>1. Cast(settings)' = Cast(settings) /\ to_options(settings)' = to_options(settings)
      BY <2>1 DEF Cast, to_options
    <3> QED  BY <2>1, <3>1 DEF PetsAreTheCast
  <2>2. CASE TakeName \/ LoadAtStart \/ Leave \/ Restart
    BY <2>2 DEF TakeName, LoadAtStart, Leave, Restart, Go, PetsAreTheCast
  <2>3. CASE Populate
    <3>1. settings' = settings /\ cast' = Cast(settings) /\ options' = to_options(settings)
      BY <2>3 DEF Populate, PopulateFrom
    <3> QED  BY <3>1 DEF PetsAreTheCast
  <2>4. CASE OpenControl \/ CheckReload \/ Pumped \/ Frame
    <3>1. at \in {"populated", "checking", "reloading", "deciding"}
      BY <2>4 DEF OpenControl, CheckReload, Pumped, Frame, Go
    <3>2. UNCHANGED <<settings, options, cast>>
      BY <2>4 DEF OpenControl, CheckReload, Pumped, Frame
    <3> QED  BY <3>1, <3>2 DEF PetsAreTheCast
  <2>5. CASE Reload \/ PumpReload
    <3>1. at \in {"populated", "checking", "reloading", "deciding"}
      BY <2>5 DEF Reload, PumpReload, Go
    <3>2. Apply(parse_settings(file))
      BY <2>5 DEF Reload, PumpReload
    <3> QED  BY <3>1, <3>2, ApplyKeeps DEF PetsAreTheCast
  <2>6. CASE Dispatch \/ AskReload
    BY <2>6, <2>1 DEF Dispatch, AskReload, daemonVars
  <2>7. CASE Open \/ Close \/ Defaults \/ WriteBeside \/ Truncate \/ SavingStep
    BY <2>7, <2>1 DEF Open, Close, Defaults, Edit, WriteBeside, Truncate, SavingStep,
       Rename, FillIn, LookForDaemon, Tell, daemonVars
  <2>8. CASE \E key \in DOMAIN Offered : \E n \in Offered[key] : SetNumber(key, n)
    BY <2>8, <2>1 DEF SetNumber, Edit, daemonVars
  <2>9. CASE \E key \in ListKeys : \E name \in Known[key] : Tick(key, name)
    BY <2>9, <2>1 DEF Tick, Edit, daemonVars
  <2>10. CASE UNCHANGED vars
    BY <2>10, <2>1 DEF vars, daemonVars
  <2> QED  BY <2>2, <2>3, <2>4, <2>5, <2>6, <2>7, <2>8, <2>9, <2>10 DEF Next, DaemonStep
<1> QED  BY <1>1, <1>2, PTL DEF Spec

\* Whatever was edited and saved, and wherever its writing broke off, what is saved
\* again is what is there.
THEOREM SavedIsSettled == Spec => []SavingSettles
<1>1. AwkwardFilesSettle
  BY EverythingSettles, AwkwardFilesAssumption DEF AwkwardFilesSettle
<1>2. ProgramInv => SavingSettles
  BY <1>1, EverythingSettles DEF ProgramInv, SavingSettles
<1> QED
  BY <1>2, ProgramIsSound, PTL

-----------------------------------------------------------------------------
(* The cast stays the cast *)

SameCastKeys(a, b) == \A key \in CastKeys : a[key] = b[key]

\* As long as nobody has changed the cast it is the one in the file, for the program
\* that shows it and for the daemon that has read it.
CastInv ==
  head = "linux" /\ ~touched =>
    /\ program.at # "closed" => SameCastKeys(program.settings, parse_settings(file))
    /\ pets_option = 0 /\ at \notin {"starting", "named", "gone"} =>
         SameCastKeys(settings, parse_settings(file))

\* Saving settings whose cast was read from a file keeps the cast.
LEMMA SavingKeepsCast ==
  ASSUME NEW f, IsFile(f), NEW s, SameCastKeys(s, parse_settings(f))
  PROVE  SameCastKeys(parse_settings(write_settings(s)), parse_settings(f))
<1> DEFINE saved == parse_settings(write_settings(s))
<1>1. ASSUME NEW key \in ListKeys
      PROVE  saved[key] = s[key]
  <2>1. saved[key] = Value(key, Written(s, key))
    BY ReadBack DEF Keys
  <2> HIDE DEF saved
  <2> QED
    BY <2>1 DEF Value, Written, Items
<1>2. saved["pets-per-mascot"] = s["pets-per-mascot"]
  <2> DEFINE key == "pets-per-mascot"
  <2>1. key \in NumberKeys /\ key \in Keys /\ key \notin ListKeys
    BY DEF Keys, NumberKeys, ListKeys
  <2>2. s[key] \in Lowest(key) .. Highest(key)
    BY <2>1, ReadInBounds DEF SameCastKeys, CastKeys
  <2>3. saved[key] = Value(key, Written(s, key))
    BY <2>1, ReadBack
  <2> HIDE DEF saved
  <2>4. Written(s, key) = Number(s[key])
    BY <2>1 DEF Written
  <2>5. saved[key] = Clamp(s[key], Lowest(key), Highest(key))
    BY <2>1, <2>3, <2>4 DEF Value, Number
  <2>6. Lowest(key) = 0 /\ Highest(key) = 64
    BY DEF Lowest, Highest
  <2> QED
    BY <2>2, <2>5, <2>6 DEF Clamp
<1> HIDE DEF saved
<1> QED
  BY <1>1, <1>2 DEF SameCastKeys, CastKeys, ListKeys, saved

LEMMA CastRests ==
  ASSUME CastInv, UNCHANGED <<head, pets_option, file, touched, program, at, settings>>
  PROVE  CastInv'
BY DEF CastInv

\* A step of the daemon.
LEMMA DaemonKeepsCast ==
  ASSUME CastInv, DaemonStep \/ Dispatch \/ Leave \/ Restart \/ AskReload
  PROVE  CastInv'
<1> DEFINE read == parse_settings(file)
           Loaded == at \notin {"starting", "named", "gone"}
<1>1. UNCHANGED <<head, file, touched, program>>
  BY DEF DaemonStep, TakeName, LoadAtStart, Populate, OpenControl, CheckReload,
     Reload, PumpReload, Pumped, Frame, Dispatch, Leave, Restart, AskReload, fileVars,
     programVars
<1>2. parse_settings(file') = read
  BY <1>1
<1>3. \/ at' \in {"starting", "named", "gone"}
      \/ UNCHANGED pets_option /\ settings' = Overridden(read)
      \/ UNCHANGED pets_option /\ settings' = read
      \/ UNCHANGED <<pets_option, settings>> /\ Loaded
      \/ UNCHANGED <<pets_option, settings, at>>
  <2>1. CASE LoadAtStart
    BY <2>1 DEF LoadAtStart
  <2>2. CASE TakeName \/ Leave \/ Restart
    BY <2>2 DEF TakeName, Leave, Restart, Go
  <2>3. CASE Populate \/ OpenControl \/ CheckReload \/ Pumped \/ Frame
    BY <2>3 DEF Populate, OpenControl, CheckReload, Pumped, Frame, Go
  <2>4. CASE Reload \/ PumpReload
    BY <2>4 DEF Reload, PumpReload, Apply
  <2>5. CASE Dispatch \/ AskReload
    BY <2>5 DEF Dispatch, AskReload, daemonVars
  <2> QED
    BY <2>1, <2>2, <2>3, <2>4, <2>5 DEF DaemonStep
<1>4. pets_option = 0 => Overridden(read) = read
  BY DEF Overridden
<1> HIDE DEF read
<1> QED
  BY <1>1, <1>2, <1>3, <1>4 DEF CastInv, SameCastKeys, read

\* A step of the settings program.
LEMMA EditKeepsCast ==
  ASSUME ProgramInv, CastInv, NEW s, Edit(s)
  PROVE  CastInv'
<1>1. /\ program.at = "open" /\ program'.settings = s
      /\ UNCHANGED <<head, pets_option, file, at, settings>>
      /\ touched' = (touched \/ \E key \in CastKeys : s[key] # program.settings[key])
  BY DEF ProgramInv, Edit, fileVars, daemonVars
<1>2. ~touched' => SameCastKeys(s, program.settings) /\ ~touched
  BY <1>1 DEF SameCastKeys
<1> QED
  BY <1>1, <1>2 DEF CastInv, SameCastKeys

LEMMA ProgramKeepsCast ==
  ASSUME ProgramInv, CastInv,
         \/ Open \/ Close \/ WriteBeside \/ Truncate \/ SavingStep
         \/ \E key \in ListKeys : \E name \in Known[key] : Tick(key, name)
  PROVE  CastInv'
<1> SUFFICES ASSUME head' = "linux", ~touched'
             PROVE  CastInv'
  BY DEF CastInv
<1>1. head = "linux" /\ UNCHANGED <<head, pets_option, at, settings>>
  <2>1. CASE Open \/ Close
    BY <2>1 DEF Open, Close, daemonVars
  <2>2. CASE WriteBeside \/ Truncate
    BY <2>2 DEF WriteBeside, Truncate, daemonVars
  <2>3. CASE SavingStep
    BY <2>3 DEF SavingStep, Rename, FillIn, LookForDaemon, Tell, daemonVars
  <2>4. CASE \E key \in ListKeys : \E name \in Known[key] : Tick(key, name)
    BY <2>4 DEF Tick, Edit, daemonVars
  <2> QED
    BY <2>1, <2>2, <2>3, <2>4
<1>2. CASE Open
  <2> DEFINE s == parse_settings(file)
  <2>1. program'.settings = s
    BY <1>1, <1>2 DEF Open, ProgramInv
  <2>2. UNCHANGED <<file, touched>>
    BY <1>2 DEF Open, fileVars
  <2> QED
    BY <1>1, <2>1, <2>2 DEF CastInv, SameCastKeys
<1>3. CASE Rename
  <2>1. UNCHANGED touched /\ program.at = "beside"
    BY <1>3 DEF Rename, ProgramGoes
  <2>2. CASE /\ file' = write_settings(program.settings)
             /\ program' = [program EXCEPT !.at = "saved", !.saved = program.settings]
    <3>1. program'.settings = program.settings
      BY <2>2 DEF ProgramInv
    <3>2. SameCastKeys(program.settings, parse_settings(file))
      BY <1>1, <2>1 DEF CastInv
    <3>3. SameCastKeys(parse_settings(file'), parse_settings(file))
      BY <2>2, <3>2, SavingKeepsCast DEF ProgramInv
    <3> QED
      BY <1>1, <2>1, <3>1, <3>2, <3>3 DEF CastInv, SameCastKeys
  <2>3. CASE ProgramGoes("beside", "open") /\ UNCHANGED file
    <3>1. program'.settings = program.settings
      BY <2>3, ProgramMoves
    <3> QED
      BY <1>1, <2>1, <2>3, <3>1 DEF CastInv
  <2> QED
    BY <1>3, <2>2, <2>3 DEF Rename, fileVars
<1>4. ASSUME NEW from, NEW to, ProgramGoes(from, to), UNCHANGED <<file, touched>>,
             from # "closed"
      PROVE  CastInv'
  <2>1. program.at = from /\ program'.settings = program.settings
    BY <1>4, ProgramMoves
  <2> QED
    BY <1>1, <1>4, <2>1 DEF CastInv
<1>5. CASE WriteBeside \/ LookForDaemon \/ Tell
  BY <1>4, <1>5 DEF WriteBeside, LookForDaemon, Tell, fileVars
<1>8. CASE Close
  <2>1. program'.at = "closed" /\ UNCHANGED <<file, touched>>
    BY <1>8 DEF Close, fileVars, ProgramInv
  <2> QED
    BY <1>1, <2>1 DEF CastInv
<1>6. ~Truncate /\ ~FillIn
  BY <1>1 DEF Truncate, FillIn, ProgramGoes, ProgramInv
<1>7. ASSUME NEW key \in ListKeys, NEW name \in Known[key], Tick(key, name)
      PROVE  CastInv'
  <2>1. PICK s : Edit(s)
    BY <1>1, <1>7 DEF Tick
  <2> QED
    BY <2>1, EditKeepsCast
<1> QED
  BY <1>2, <1>3, <1>5, <1>6, <1>7, <1>8 DEF SavingStep

LEMMA CastIsKept == Spec => []CastInv
<1>1. Init => CastInv
  BY DEF Init, CastInv
<1>2. ProgramInv /\ CastInv /\ [Next]_vars => CastInv'
  <2> SUFFICES ASSUME ProgramInv, CastInv, [Next]_vars PROVE CastInv'
    OBVIOUS
  <2>1. CASE UNCHANGED vars
    BY <2>1, CastRests DEF vars, fileVars, programVars, daemonVars
  <2>2. CASE DaemonStep \/ Dispatch \/ Leave \/ Restart \/ AskReload
    BY <2>2, DaemonKeepsCast
  <2>3. CASE \/ Open \/ Close \/ WriteBeside \/ Truncate \/ SavingStep
             \/ \E key \in ListKeys : \E name \in Known[key] : Tick(key, name)
    BY <2>3, ProgramKeepsCast
  <2>4. CASE Defaults
    BY <2>4, EditKeepsCast DEF Defaults
  <2>5. ASSUME NEW key \in DOMAIN Offered, NEW n \in Offered[key], SetNumber(key, n)
        PROVE  CastInv'
    BY <2>5, EditKeepsCast DEF SetNumber
  <2> QED
    BY <2>1, <2>2, <2>3, <2>4, <2>5 DEF Next
<1> QED
  BY <1>1, <1>2, ProgramIsSound, PTL DEF Spec

\* From the module's slider through the file to the reload, nobody is put back to the
\* top unless somebody has changed the cast: whatever the file was, whatever else is
\* saved and asked for meanwhile, and however often.
THEOREM NobodyIsMoved == Spec => SpeedAloneMovesNobody
<1> DEFINE Moved ==
      head = "linux" /\ pets_option = 0 /\ at = "reloading" /\ strolled /\ ~strolled'
        => touched
<1>1. ASSUME CastInv, Next PROVE Moved
  <2> SUFFICES ASSUME head = "linux", pets_option = 0, at = "reloading", strolled,
                      ~strolled', ~touched
               PROVE  FALSE
    OBVIOUS
  <2>1. SameCastKeys(settings, parse_settings(file))
    BY <1>1 DEF CastInv
  <2>2. ~needs_respawn(settings, parse_settings(file))
    BY <2>1 DEF SameCastKeys, needs_respawn
  <2>3. ~Reload
    BY <2>2 DEF Reload, Apply
  <2>4. UNCHANGED strolled \/ strolled'
    <3>1. CASE DaemonStep
      BY <2>3, <3>1 DEF DaemonStep, TakeName, LoadAtStart, Populate, OpenControl,
         CheckReload, PumpReload, Pumped, Frame, Go
    <3>2. CASE Dispatch \/ Leave \/ Restart \/ AskReload
      BY <3>2 DEF Dispatch, Leave, Restart, AskReload, Go, daemonVars
    <3>3. CASE Open \/ Close \/ Defaults \/ WriteBeside \/ Truncate \/ SavingStep
      BY <3>3 DEF Open, Close, Defaults, Edit, WriteBeside, Truncate, SavingStep, Rename,
         FillIn, LookForDaemon, Tell, daemonVars
    <3>4. CASE \E key \in DOMAIN Offered : \E n \in Offered[key] : SetNumber(key, n)
      BY <3>4 DEF SetNumber, Edit, daemonVars
    <3>5. CASE \E key \in ListKeys : \E name \in Known[key] : Tick(key, name)
      BY <3>5 DEF Tick, Edit, daemonVars
    <3> QED
      BY <1>1, <3>1, <3>2, <3>3, <3>4, <3>5 DEF Next
  <2> QED
    BY <2>4
<1>2. CastInv /\ [Next]_vars => [Moved]_vars
  BY <1>1
<1> QED
  BY <1>2, CastIsKept, PTL DEF Spec, SpeedAloneMovesNobody

-----------------------------------------------------------------------------
(* What is ticked *)

\* A sequence in which nothing is there twice can be put in order: each element goes
\* to the place that says how many are not greater.
LEMMA CanBeSorted ==
  ASSUME NEW n \in Nat, NEW s \in [1 .. n -> Int],
         \A i, j \in 1 .. n : s[i] = s[j] => i = j
  PROVE  \E p \in Bijection(1 .. n, 1 .. n) :
           \A i, j \in 1 .. n : i < j => s[p[i]] <= s[p[j]]
<1> DEFINE D == 1 .. n
           UpTo(i) == {k \in D : s[k] <= s[i]}
           q == [i \in D |-> Cardinality(UpTo(i))]
<1>1. IsFiniteSet(D) /\ Cardinality(D) = n
  BY FS_Interval
<1>2. ASSUME NEW i \in D
      PROVE  /\ IsFiniteSet(UpTo(i)) /\ Cardinality(UpTo(i)) \in Nat
             /\ Cardinality(UpTo(i)) >= 1 /\ Cardinality(UpTo(i)) <= n
  <2>1. UpTo(i) \in SUBSET D /\ i \in UpTo(i)
    OBVIOUS
  <2> HIDE DEF UpTo, D
  <2>2. IsFiniteSet(UpTo(i)) /\ Cardinality(UpTo(i)) <= n
    BY <1>1, <2>1, FS_Subset
  <2>3. Cardinality(UpTo(i)) \in Nat /\ Cardinality(UpTo(i)) # 0
    BY <2>1, <2>2, FS_CardinalityType, FS_EmptySet
  <2> QED
    BY <2>2, <2>3
<1>3. ASSUME NEW i \in D, NEW j \in D, s[i] < s[j]
      PROVE  q[i] < q[j]
  <2>1. UpTo(i) \in SUBSET UpTo(j) /\ j \in UpTo(j) /\ j \notin UpTo(i)
    BY <1>3
  <2> HIDE DEF UpTo
  <2>2. /\ Cardinality(UpTo(i)) <= Cardinality(UpTo(j))
        /\ Cardinality(UpTo(j)) # Cardinality(UpTo(i))
    BY <1>2, <2>1, FS_Subset
  <2> QED
    BY <1>2, <2>2
<1>4. q \in [D -> D]
  <2>1. ASSUME NEW i \in D PROVE Cardinality(UpTo(i)) \in D
    <3> HIDE DEF UpTo
    <3> QED
      BY <1>2
  <2> HIDE DEF UpTo, D
  <2> QED
    BY <2>1
<1>5. \A i, j \in D : q[i] = q[j] => i = j
  <2> SUFFICES ASSUME NEW i \in D, NEW j \in D, q[i] = q[j], i # j
               PROVE  FALSE
    OBVIOUS
  <2>1. s[i] < s[j] \/ s[j] < s[i]
    OBVIOUS
  <2>2. q[i] \in Int /\ q[j] \in Int
    BY <1>4
  <2> HIDE DEF q
  <2> QED
    BY <1>3, <2>1, <2>2
<1> HIDE DEF q
<1>6. q \in Injection(D, D)
  BY <1>4, <1>5 DEF Injection, IsInjective
<1>7. q \in Surjection(D, D)
  BY <1>1, <1>6, FS_Injection
<1> DEFINE p == [i \in D |-> CHOOSE j \in D : q[j] = i]
<1>8. \A i \in D : p[i] \in D /\ q[p[i]] = i
  BY <1>7 DEF Surjection
<1>9. p \in [D -> D]
  BY <1>8
<1> HIDE DEF p
<1>10. p \in Injection(D, D)
  BY <1>8, <1>9 DEF Injection, IsInjective
<1>11. p \in Bijection(D, D)
  BY <1>1, <1>10, FS_Injection DEF Bijection
<1>12. ASSUME NEW i \in D, NEW j \in D, i < j
       PROVE  s[p[i]] <= s[p[j]]
  <2>1. s[p[i]] \in Int /\ s[p[j]] \in Int /\ p[i] \in D /\ p[j] \in D
    BY <1>8
  <2>2. ~(s[p[j]] < s[p[i]])
    <3>1. ASSUME s[p[j]] < s[p[i]] PROVE FALSE
      <4>1. q[p[j]] < q[p[i]]
        BY <1>3, <2>1, <3>1
      <4> QED
        BY <1>8, <1>12, <4>1
    <3> QED
      BY <3>1
  <2> QED
    BY <2>1, <2>2
<1> QED
  BY <1>11, <1>12

\* A finite set of names, put in order, has the names of the set and no others.
LEMMA InOrderHasThemAll ==
  ASSUME NEW T \in SUBSET Int, IsFiniteSet(T), NEW name
  PROVE  Contains(InOrder(SetToSeq(T)), name) <=> name \in T
<1> DEFINE n == Cardinality(T)
           s == SetToSeq(T)
           D == 1 .. n
           Orders(p) == \A i, j \in D : i < j => s[p[i]] <= s[p[j]]
           places == CHOOSE p \in Bijection(D, D) : Orders(p)
<1>1. n \in Nat /\ \E f \in Bijection(D, T) : TRUE
  BY FS_CardinalityType DEF ExistsBijection
<1>2. s \in [D -> T] /\ IsInjective(s)
  <2>1. PICK f \in [D -> T] : IsInjective(f)
    BY <1>1 DEF Bijection, Injection
  <2> QED
    BY <2>1 DEF SetToSeq
<1>3. s \in Injection(D, T)
  BY <1>2 DEF Injection
<1>4. s \in Surjection(D, T)
  <2>1. Cardinality(D) = n
    BY <1>1, FS_Interval
  <2> QED
    BY <1>3, <2>1, FS_Injection
<1>5. \A i, j \in D : s[i] = s[j] => i = j
  BY <1>2 DEF IsInjective
<1> HIDE DEF s
<1>6. s \in [D -> Int] /\ DOMAIN s = D
  BY <1>2
<1>7. \E p \in Bijection(D, D) : Orders(p)
  <2> HIDE DEF n
  <2> QED
    BY <1>1, <1>5, <1>6, CanBeSorted
<1>8. places \in Bijection(D, D)
  BY <1>7
<1>9. InOrder(s) = [i \in D |-> s[places[i]]]
  BY <1>6 DEF InOrder
<1> HIDE DEF places
<1>10. /\ \A i \in D : places[i] \in D
       /\ \A j \in D : \E i \in D : places[i] = j
  BY <1>8 DEF Bijection, Injection, Surjection
<1>11. Len(InOrder(s)) = n
  BY <1>1, <1>9
<1>12. Contains(InOrder(s), name) <=> \E i \in D : s[places[i]] = name
  BY <1>9, <1>11 DEF Contains
<1>13. name \in T <=> \E j \in D : s[j] = name
  BY <1>2, <1>4 DEF Surjection
<1> QED
  BY <1>10, <1>12, <1>13 DEF s

\* However many boxes were ticked and unticked before it is saved, what the daemon will
\* read is what is ticked, on both builds; and in the window no box ticked is the empty
\* list.
THEOREM WhatIsTickedIsRead == Spec => []TicksAreHeeded
<1>1. ProgramInv => TicksAreHeeded
  <2> SUFFICES ASSUME ProgramInv, program.at = "saved", NEW key \in ListKeys
               PROVE  IF head = "windows" /\ ticks[key] = {}
                        THEN parse_settings(file)[key] = << >>
                        ELSE \A name \in Known[key] :
                               wants(parse_settings(file)[key], name) <=> name \in ticks[key]
    BY DEF TicksAreHeeded
  <2>1. parse_settings(file)[key] = program.settings[key]
    <3>1. file = write_settings(program.settings)
      BY DEF ProgramInv
    <3>2. parse_settings(write_settings(program.settings))[key] =
            Value(key, Written(program.settings, key))
      BY ReadBack DEF Keys
    <3> QED
      BY <3>1, <3>2 DEF Value, Written, Items
  <2>2. CASE head = "linux"
    <3>1. ticks[key] = {n \in Known[key] : wants(program.settings[key], n)}
      BY <2>2 DEF ProgramInv, Shown
    <3> QED
      BY <2>1, <2>2, <3>1
  <2>3. CASE head = "windows"
    <3>1. /\ program.settings[key] = Chosen(key)
          /\ ticks[key] \subseteq Known[key]
      BY <2>3 DEF ProgramInv
    <3>2. ticks[key] \in SUBSET Int /\ IsFiniteSet(ticks[key])
      BY <3>1, DaemonAssumption, FS_Subset
    <3>3. PICK listed : listed = InOrder(SetToSeq(ticks[key]))
      OBVIOUS
    <3>4. \A n : Contains(listed, n) <=> n \in ticks[key]
      BY <3>2, <3>3, InOrderHasThemAll
    <3>5. CASE ticks[key] = Known[key]
      BY <2>1, <3>1, <3>5 DEF Chosen, wants
    <3>6. CASE ticks[key] = {} /\ ticks[key] # Known[key]
      <4>1. SetToSeq({}) = << >>
        BY FS_EmptySet DEF SetToSeq, IsInjective
      <4>2. InOrder(<< >>) = << >>
        BY DEF InOrder
      <4> QED
        BY <2>1, <2>3, <3>1, <3>6, <4>1, <4>2 DEF Chosen
    <3>7. CASE ticks[key] # {} /\ ticks[key] # Known[key]
      <4>1. listed # << >>
        <5>1. \A n : ~Contains(<< >>, n)
          BY DEF Contains
        <5> QED
          BY <3>4, <3>7, <5>1
      <4> QED
        BY <2>1, <3>1, <3>3, <3>4, <3>7, <4>1 DEF Chosen, wants
    <3> QED
      BY <3>5, <3>6, <3>7
  <2> QED
    BY <2>2, <2>3 DEF ProgramInv
<1> QED
  BY <1>1, ProgramIsSound, PTL
=============================================================================
