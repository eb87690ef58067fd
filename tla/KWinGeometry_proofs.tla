------------------------ MODULE KWinGeometry_proofs ------------------------
(***************************************************************************)
(* The provider that listens to KWin.  Whatever KWin reports and the bus   *)
(* delays, refuses or loses, one thread at a time publishes, with the      *)
(* number of the snapshot that is current; reports arrive in the order     *)
(* they were made in, so that the world is never set back; and none that   *)
(* the bus took is dropped on its way to the world.                        *)
(***************************************************************************)
EXTENDS KWinGeometry, SequenceTheorems, TLAPS

\* Where run_pets has not started the bus, and where nothing is published yet.
BeforeBus == {"opening", "connected", "publishing", "parsing", "calling", "primed"}
BeforePrime == {"opening", "connected", "publishing", "parsing"}

\* Who is where: there is no bus thread before start has published, and whoever
\* calls the handler does so with the version that was published last.
OneAtATime ==
  /\ DOMAIN at = {Main, Bus} /\ DOMAIN number = {Main, Bus} /\ DOMAIN holding = {Main, Bus}
  /\ at[Main] \in BeforeBus => at[Bus] = "unborn"
  /\ at[Main] \in BeforePrime <=> version = 0
  /\ version \in Nat /\ snapshot.version = version
  /\ \A t \in {Main, Bus} :
       /\ at[t] = "calling" => number[t] = version
       /\ at[t] # "calling" => number[t] = 0
  /\ holding[Main] = EmptyReport

\* What a report may say.
AreasOfScreens == UNION {[S -> Areas \cup {NoArea}] : S \in SUBSET Screens}

Reports == [areas : AreasOfScreens, windows : Nat]

TypeOK ==
  /\ plugged \subseteq Screens
  /\ area \in [Screens -> Areas \cup {NoArea}]
  /\ changes \in 0 .. MaxChanges
  /\ calls \in Seq(Reports)
  /\ holding[Bus] \in Reports
  /\ snapshot.windows \in Nat

\* What a snapshot shows is no newer than what is to come.
NoNewer(windows) == snapshot.windows # Unreported => snapshot.windows <= windows

\* Reports arrive in the order they were made in, from KWin through the bus and the
\* thread that applies them to the snapshot.
InOrderOfTelling ==
  /\ \A i \in DOMAIN calls : calls[i].windows <= changes /\ NoNewer(calls[i].windows)
  /\ \A i, j \in DOMAIN calls : i < j => calls[i].windows <= calls[j].windows
  /\ snapshot.windows <= changes \/ snapshot.windows = Unreported
  /\ at[Bus] = "parsing" =>
       /\ holding[Bus].windows <= changes /\ NoNewer(holding[Bus].windows)
       /\ \A i \in DOMAIN calls : holding[Bus].windows <= calls[i].windows
  /\ at[Main] \in BeforePrime => snapshot.windows = Unreported
  /\ at[Main] \in {"opening", "connected"} => DOMAIN outputs = {}

IInv == TypeOK /\ OneAtATime /\ InOrderOfTelling

LEMMA EmptyIsReport == EmptyReport \in Reports
<1>1. [s \in {} |-> Bounds] \in [{} -> Areas \cup {NoArea}] /\ {} \in SUBSET Screens
  OBVIOUS
<1>2. [s \in {} |-> Bounds] \in AreasOfScreens
  BY <1>1 DEF AreasOfScreens
<1> QED
  BY <1>2, AreasAssumption DEF EmptyReport, Reports, Unreported

LEMMA InitIInv == Init => IInv
<1> SUFFICES ASSUME Init PROVE IInv
  OBVIOUS
<1>1. OneAtATime
  BY DEF Init, OneAtATime, BeforeBus, BeforePrime, Main, Bus
<1>2. EmptyReport \in Reports
  BY EmptyIsReport
<1>3. TypeOK
  BY <1>2, AreasAssumption DEF Init, TypeOK, Main, Bus, Unreported
<1>4. InOrderOfTelling
  BY AreasAssumption DEF Init, InOrderOfTelling, BeforePrime, Main, Bus, EmptyReport
<1> QED
  BY <1>1, <1>3, <1>4 DEF IInv

\* A report is of the desktop as it is after the step.
LEMMA ReportIsReport ==
  ASSUME plugged' \subseteq Screens, area' \in [Screens -> Areas \cup {NoArea}],
         changes' \in Nat
  PROVE  Report \in Reports /\ Report.windows = changes'
<1>1. [s \in plugged' |-> area'[s]] \in [plugged' -> Areas \cup {NoArea}]
  OBVIOUS
<1>2. plugged' \in SUBSET Screens
  OBVIOUS
<1>3. [s \in plugged' |-> area'[s]] \in AreasOfScreens
  BY <1>1, <1>2 DEF AreasOfScreens
<1> QED
  BY <1>3 DEF Report, Reports

LEMMA CallsAreReports ==
  ASSUME TypeOK
  PROVE  \A i \in DOMAIN calls : calls[i] \in Reports /\ calls[i].windows \in Nat
<1>1. \A i \in DOMAIN calls : calls[i] \in Reports
  BY DEF TypeOK
<1>2. \A r \in Reports : r.windows \in Nat
  BY DEF Reports
<1> QED
  BY <1>1, <1>2

\* KWin and its script: a report goes to the end of the queue, or nowhere.
LEMMA TellingKeeps ==
  ASSUME IInv, plugged' \subseteq Screens, area' \in [Screens -> Areas \cup {NoArea}],
         changes' \in changes .. MaxChanges,
         Send \/ UNCHANGED calls,
         UNCHANGED <<snapshot, holding, outputs, number, version>>,
         DOMAIN at' = {Main, Bus}, at'[Bus] = at[Bus],
         at'[Main] = at[Main] \/ (at[Main] \notin BeforeBus /\ at'[Main] \notin BeforeBus)
  PROVE  IInv'
<1>1. /\ changes \in Nat /\ changes' \in Nat /\ MaxChanges \in Nat
      /\ changes <= changes' /\ changes' <= MaxChanges
      /\ snapshot.windows \in Nat /\ snapshot'.windows = snapshot.windows
  BY AreasAssumption DEF IInv, TypeOK
<1>2. OneAtATime'
  BY DEF IInv, OneAtATime, BeforeBus, BeforePrime
<1>3. CASE UNCHANGED calls
  <2>1. TypeOK'
    BY <1>1, <1>3 DEF IInv, TypeOK
  <2>2. \A i \in DOMAIN calls : calls[i].windows \in Nat
    BY CallsAreReports DEF IInv
  <2>3. holding[Bus].windows \in Nat
    BY DEF IInv, TypeOK, Reports
  <2>4. InOrderOfTelling'
    BY <1>1, <1>3, <2>2, <2>3 DEF IInv, InOrderOfTelling, NoNewer, Unreported, BeforeBus,
       BeforePrime
  <2> QED
    BY <1>2, <2>1, <2>4 DEF IInv
<1>4. CASE calls' = Append(calls, Report)
  <2> DEFINE n == Len(calls)
  <2>1. Report \in Reports /\ Report.windows = changes'
    BY <1>1, ReportIsReport
  <2>2. /\ calls' \in Seq(Reports) /\ n \in Nat /\ DOMAIN calls = 1 .. n
        /\ DOMAIN calls' = 1 .. n + 1
        /\ calls'[n + 1] = Report /\ \A i \in 1 .. n : calls'[i] = calls[i]
    BY <1>4, <2>1 DEF IInv, TypeOK
  <2>3. TypeOK'
    BY <1>1, <2>2 DEF IInv, TypeOK
  <2>4. \A i \in 1 .. n : calls[i].windows \in Nat /\ calls[i].windows <= changes
    BY <2>2, CallsAreReports DEF IInv, InOrderOfTelling
  <2>5. \A i, j \in 1 .. n : i < j => calls[i].windows <= calls[j].windows
    BY <2>2 DEF IInv, InOrderOfTelling
  <2>6. \A i \in 1 .. n : NoNewer(calls[i].windows)
    BY <2>2 DEF IInv, InOrderOfTelling
  <2>7. snapshot.windows <= changes \/ snapshot.windows = Unreported
    BY DEF IInv, InOrderOfTelling
  <2> HIDE DEF n
  <2>8. \A i \in DOMAIN calls' : i \in 1 .. n \/ i = n + 1
    BY <2>2
  <2>9. ASSUME NEW i \in DOMAIN calls'
        PROVE  calls'[i].windows <= changes' /\ NoNewer(calls[i].windows)'
    <3>1. CASE i \in 1 .. n
      BY <1>1, <2>2, <2>4, <2>6, <3>1 DEF NoNewer, Unreported
    <3>2. CASE i = n + 1
      BY <1>1, <2>1, <2>2, <2>7, <3>2 DEF NoNewer, Unreported
    <3> QED
      BY <2>8, <3>1, <3>2
  <2>10. ASSUME NEW i \in DOMAIN calls', NEW j \in DOMAIN calls', i < j
         PROVE  calls'[i].windows <= calls'[j].windows
    <3>1. i \in 1 .. n
      BY <2>2, <2>8, <2>10
    <3>2. CASE j \in 1 .. n
      BY <2>2, <2>5, <2>10, <3>1, <3>2
    <3>3. CASE j = n + 1
      BY <1>1, <2>1, <2>2, <2>4, <3>1, <3>3
    <3> QED
      BY <2>8, <3>2, <3>3
  <2>11. ASSUME at'[Bus] = "parsing"
         PROVE  /\ holding'[Bus].windows <= changes' /\ NoNewer(holding[Bus].windows)'
                /\ \A i \in DOMAIN calls' : holding'[Bus].windows <= calls'[i].windows
    <3>1. /\ holding[Bus].windows <= changes /\ NoNewer(holding[Bus].windows)
          /\ \A i \in 1 .. n : holding[Bus].windows <= calls[i].windows
      BY <2>2, <2>11 DEF IInv, InOrderOfTelling
    <3>2. holding[Bus].windows \in Nat
      BY DEF IInv, TypeOK, Reports
    <3>3. holding'[Bus].windows <= changes' /\ NoNewer(holding[Bus].windows)'
      BY <1>1, <3>1, <3>2 DEF NoNewer, Unreported
    <3>4. ASSUME NEW i \in DOMAIN calls'
          PROVE  holding'[Bus].windows <= calls'[i].windows
      BY <1>1, <2>1, <2>2, <2>8, <3>1, <3>2
    <3> QED
      BY <3>3, <3>4
  <2>12. snapshot'.windows <= changes' \/ snapshot'.windows = Unreported
    BY <1>1, <2>7 DEF Unreported
  <2>13. /\ at'[Main] \in BeforePrime => snapshot'.windows = Unreported
         /\ at'[Main] \in {"opening", "connected"} => DOMAIN outputs' = {}
    BY DEF IInv, InOrderOfTelling, BeforePrime, BeforeBus
  <2>14. InOrderOfTelling'
    BY <2>9, <2>10, <2>11, <2>12, <2>13 DEF InOrderOfTelling, Unreported
  <2> QED
    BY <1>2, <2>3, <2>14 DEF IInv
<1> QED
  BY <1>3, <1>4 DEF Send

\* The bus hands over what it has held longest.
LEMMA ReceiveKeeps ==
  ASSUME IInv, Receive
  PROVE  IInv'
<1> DEFINE n == Len(calls)
<1>1. /\ calls \in Seq(Reports) /\ calls # << >> /\ calls' = Tail(calls)
  BY DEF IInv, TypeOK, Receive
<1>2. /\ n \in Nat /\ n > 0 /\ DOMAIN calls = 1 .. n /\ Head(calls) = calls[1]
      /\ calls' \in Seq(Reports) /\ DOMAIN calls' = 1 .. n - 1
      /\ \A i \in 1 .. n - 1 : calls'[i] = calls[i + 1]
  BY <1>1
<1> HIDE DEF n
<1>3. 1 \in 1 .. n /\ \A i \in 1 .. n - 1 : i + 1 \in 1 .. n /\ 1 < i + 1
  BY <1>2
<1>4. /\ \A i \in 1 .. n : calls[i] \in Reports /\ calls[i].windows \in Nat
                           /\ calls[i].windows <= changes /\ NoNewer(calls[i].windows)
      /\ \A i, j \in 1 .. n : i < j => calls[i].windows <= calls[j].windows
  BY <1>1, <1>2, CallsAreReports DEF IInv, InOrderOfTelling
<1>5. /\ at[Bus] = "processing" /\ at' = [at EXCEPT ![Bus] = "parsing"]
      /\ holding' = [holding EXCEPT ![Bus] = calls[1]]
      /\ UNCHANGED <<plugged, area, changes, snapshot, outputs, number, version>>
  BY <1>2 DEF Receive, Go, kwinVars
<1>6. /\ holding'[Bus] = calls[1] /\ at'[Bus] = "parsing" /\ at'[Main] = at[Main]
      /\ DOMAIN at' = DOMAIN at /\ DOMAIN holding' = DOMAIN holding
  BY <1>5 DEF IInv, OneAtATime, Main, Bus
<1>7. TypeOK'
  BY <1>2, <1>3, <1>4, <1>5, <1>6 DEF IInv, TypeOK
<1>8. OneAtATime'
  BY <1>5, <1>6 DEF IInv, OneAtATime, BeforeBus, BeforePrime, Main, Bus
<1>9. ASSUME NEW i \in 1 .. n - 1
      PROVE  /\ calls'[i].windows <= changes' /\ NoNewer(calls[i].windows)'
             /\ holding'[Bus].windows <= calls'[i].windows
  BY <1>2, <1>3, <1>4, <1>5, <1>6 DEF NoNewer, Unreported
<1>10. ASSUME NEW i \in 1 .. n - 1, NEW j \in 1 .. n - 1, i < j
       PROVE  calls'[i].windows <= calls'[j].windows
  <2>1. i + 1 < j + 1
    BY <1>2, <1>10
  <2> QED
    BY <1>2, <1>3, <1>4, <2>1
<1>11. holding'[Bus].windows <= changes' /\ NoNewer(holding[Bus].windows)'
  BY <1>3, <1>4, <1>5, <1>6 DEF NoNewer, Unreported
<1>12. InOrderOfTelling'
  BY <1>2, <1>5, <1>6, <1>9, <1>10, <1>11 DEF IInv, InOrderOfTelling, Unreported
<1> QED
  BY <1>7, <1>8, <1>12 DEF IInv

\* A report is applied: by the main thread before there is another, and then by the
\* bus thread alone.
LEMMA MergeKeeps ==
  ASSUME IInv, NEW t \in {Main, Bus}, Merge(t)
  PROVE  IInv'
<1>1. /\ at[t] = "parsing" /\ at' = [at EXCEPT ![t] = "calling"]
      /\ number' = [number EXCEPT ![t] = version + 1] /\ version' = version + 1
      /\ snapshot'.version = version + 1 /\ snapshot'.windows = holding[t].windows
      /\ UNCHANGED <<plugged, area, changes, calls, holding>>
  BY DEF Merge, Go, kwinVars, busVars
<1>2. /\ at'[t] = "calling" /\ \A u \in {Main, Bus} \ {t} : at'[u] = at[u]
      /\ number'[t] = version + 1 /\ \A u \in {Main, Bus} \ {t} : number'[u] = number[u]
      /\ DOMAIN at' = DOMAIN at /\ DOMAIN number' = DOMAIN number
  BY <1>1 DEF IInv, OneAtATime
<1>3. Main # Bus /\ version \in Nat
  BY DEF IInv, OneAtATime, Main, Bus
<1>4. \A u \in {Main, Bus} \ {t} : at[u] # "calling"
  BY <1>1, <1>3 DEF IInv, OneAtATime, BeforeBus, BeforePrime
<1>5. OneAtATime'
  <2>1. at'[Main] \in BeforeBus => at'[Bus] = "unborn"
    BY <1>1, <1>2, <1>3 DEF IInv, OneAtATime, BeforeBus
  <2>2. at'[Main] \notin BeforePrime
    BY <1>1, <1>2, <1>3 DEF IInv, OneAtATime, BeforeBus, BeforePrime
  <2> QED
    BY <1>1, <1>2, <1>3, <1>4, <2>1, <2>2 DEF IInv, OneAtATime
<1>6. CASE t = Main
  <2>1. at'[Bus] = "unborn" /\ snapshot'.windows = holding[Main].windows
    BY <1>1, <1>2, <1>3, <1>6 DEF IInv, OneAtATime, BeforeBus
  <2>2. holding[Main] = EmptyReport
    BY <1>6 DEF IInv, OneAtATime
  <2>3. snapshot'.windows = Unreported /\ Unreported \in Nat
    BY <2>1, <2>2, AreasAssumption DEF EmptyReport, Unreported
  <2>4. TypeOK'
    BY <1>1, <2>3 DEF IInv, TypeOK
  <2>5. InOrderOfTelling'
    BY <1>1, <1>2, <1>6, <2>1, <2>3 DEF IInv, InOrderOfTelling, NoNewer, BeforePrime, Unreported
  <2> QED
    BY <1>5, <2>4, <2>5 DEF IInv
<1>7. CASE t = Bus
  <2>1. /\ snapshot'.windows = holding[Bus].windows /\ at'[Bus] = "calling"
        /\ at'[Main] = at[Main] /\ at[Main] \notin BeforeBus
    BY <1>1, <1>2, <1>3, <1>7 DEF IInv, OneAtATime
  <2>2. /\ holding[Bus].windows <= changes
        /\ \A i \in DOMAIN calls : holding[Bus].windows <= calls[i].windows
    BY <1>1, <1>7 DEF IInv, InOrderOfTelling
  <2>3. holding[Bus].windows \in Nat
    BY DEF IInv, TypeOK, Reports
  <2>4. TypeOK'
    BY <1>1, <2>1, <2>3 DEF IInv, TypeOK
  <2>5. InOrderOfTelling'
    BY <1>1, <2>1, <2>2, <2>3 DEF IInv, InOrderOfTelling, NoNewer, BeforePrime, BeforeBus,
       Unreported
  <2> QED
    BY <1>5, <2>4, <2>5 DEF IInv
<1> QED
  BY <1>6, <1>7

LEMMA CalledKeeps ==
  ASSUME IInv, NEW t \in {Main, Bus}, Called(t)
  PROVE  IInv'
<1> DEFINE next == IF t = Main THEN "primed" ELSE "checking"
<1>1. /\ at[t] = "calling" /\ at' = [at EXCEPT ![t] = next]
      /\ number' = [number EXCEPT ![t] = 0] /\ holding' = [holding EXCEPT ![t] = EmptyReport]
      /\ UNCHANGED <<plugged, area, changes, calls, outputs, snapshot, version>>
  BY DEF Called, Go, kwinVars, busVars
<1>2. /\ at'[t] = next /\ \A u \in {Main, Bus} \ {t} : at'[u] = at[u]
      /\ number'[t] = 0 /\ \A u \in {Main, Bus} \ {t} : number'[u] = number[u]
      /\ holding'[t] = EmptyReport /\ \A u \in {Main, Bus} \ {t} : holding'[u] = holding[u]
      /\ DOMAIN at' = DOMAIN at /\ DOMAIN number' = DOMAIN number
      /\ DOMAIN holding' = DOMAIN holding
  BY <1>1 DEF IInv, OneAtATime
<1>3. Main # Bus /\ EmptyReport \in Reports
  BY EmptyIsReport DEF Main, Bus
<1>4. TypeOK'
  BY <1>1, <1>2, <1>3 DEF IInv, TypeOK
<1>5. OneAtATime'
  BY <1>1, <1>2, <1>3 DEF IInv, OneAtATime, BeforeBus, BeforePrime
<1>6. InOrderOfTelling'
  BY <1>1, <1>2, <1>3 DEF IInv, InOrderOfTelling, NoNewer, BeforePrime, Unreported
<1> QED
  BY <1>4, <1>5, <1>6 DEF IInv

\* A thread goes on, and nothing is told or applied.
LEMMA GoingOnKeeps ==
  ASSUME IInv,
         UNCHANGED <<plugged, area, changes, calls, holding, number, version, snapshot>>,
         DOMAIN at' = {Main, Bus},
         \A t \in {Main, Bus} : (at'[t] = "calling" <=> at[t] = "calling"),
         at'[Bus] = "parsing" => at[Bus] = "parsing",
         at'[Main] \in BeforeBus => at'[Bus] = "unborn",
         at'[Main] \in BeforePrime <=> at[Main] \in BeforePrime,
         at'[Main] \in {"opening", "connected"} => DOMAIN outputs' = {}
  PROVE  IInv'
<1>1. TypeOK'
  BY DEF IInv, TypeOK
<1>2. OneAtATime'
  BY DEF IInv, OneAtATime
<1>3. InOrderOfTelling'
  BY DEF IInv, InOrderOfTelling, NoNewer, Unreported
<1> QED
  BY <1>1, <1>2, <1>3 DEF IInv

LEMMA NextIInv == IInv /\ [Next]_vars => IInv'
<1> SUFFICES ASSUME IInv, [Next]_vars PROVE IInv'
  OBVIOUS
<1> USE DEF kwinVars, scriptVars, busVars, providerVars
<1>1. /\ Main # Bus /\ DOMAIN at = {Main, Bus} /\ plugged \subseteq Screens
      /\ area \in [Screens -> Areas \cup {NoArea}]
      /\ changes \in Nat /\ MaxChanges \in Nat /\ changes <= MaxChanges
      /\ at[Main] \in BeforeBus => at[Bus] = "unborn"
  BY AreasAssumption DEF IInv, TypeOK, OneAtATime, Main, Bus
<1>2. ASSUME NEW watched \in BOOLEAN, Changes(watched), plugged' \subseteq Screens,
             area' \in [Screens -> Areas \cup {NoArea}]
      PROVE  IInv'
  <2>1. changes' \in changes .. MaxChanges
    BY <1>1, <1>2 DEF Changes
  <2>2. Send \/ UNCHANGED calls
    BY <1>2 DEF Changes
  <2>3. UNCHANGED <<snapshot, holding, outputs, number, version, at>>
    BY <1>2 DEF Changes
  <2> QED
    BY <1>1, <1>2, <2>1, <2>2, <2>3, TellingKeeps
<1>3. CASE WindowsChange
  BY <1>1, <1>2, <1>3 DEF WindowsChange
<1>4. ASSUME NEW s \in Screens, PlugOrUnplug(s)
      PROVE  IInv'
  <2>1. plugged' \subseteq Screens /\ area' = area /\ Changes(TRUE)
    BY <1>1, <1>4 DEF PlugOrUnplug
  <2> QED
    BY <1>1, <1>2, <2>1
<1>5. ASSUME NEW s \in Screens, NEW a \in Areas \cup {NoArea}, AreaChanges(s, a)
      PROVE  IInv'
  <2>1. PICK watched \in BOOLEAN : Changes(watched)
    BY <1>5 DEF AreaChanges
  <2>2. plugged' = plugged /\ area' \in [Screens -> Areas \cup {NoArea}]
    BY <1>1, <1>5 DEF AreaChanges
  <2> QED
    BY <1>1, <1>2, <2>1, <2>2
<1>6. CASE Heartbeat
  <2>1. /\ Send /\ changes' \in changes .. MaxChanges
        /\ UNCHANGED <<plugged, area, snapshot, holding, outputs, number, version, at>>
    BY <1>1, <1>6 DEF Heartbeat
  <2> QED
    BY <1>1, <2>1, TellingKeeps
<1>7. CASE Load
  <2>1. /\ Send /\ changes' \in changes .. MaxChanges
        /\ UNCHANGED <<plugged, area, snapshot, holding, outputs, number, version>>
    BY <1>1, <1>7 DEF Load
  <2>2. /\ at[Main] = "loading" /\ at'[Main] = "running" /\ at'[Bus] = at[Bus]
        /\ DOMAIN at' = {Main, Bus}
    BY <1>1, <1>7 DEF Load, Go
  <2>3. at[Main] \notin BeforeBus /\ at'[Main] \notin BeforeBus
    BY <2>2 DEF BeforeBus
  <2> QED
    BY <1>1, <2>1, <2>2, <2>3, TellingKeeps
<1>8. CASE \E t \in {Main, Bus} : Merge(t) \/ Called(t)
  BY <1>8, MergeKeeps, CalledKeeps
<1>9. CASE Receive
  BY <1>9, ReceiveKeeps
<1>10. CASE CheckStopping \/ NothingToProcess \/ Wake \/ ConnectionLost
  <2>1. PICK from \in {"checking", "processing", "waiting"},
             to \in {"ended", "processing", "waiting", "checking"} : Go(Bus, from, to)
    BY <1>10 DEF CheckStopping, NothingToProcess, Wake, ConnectionLost
  <2>2. UNCHANGED <<plugged, area, changes, calls, holding, number, version, snapshot, outputs>>
    BY <1>10 DEF CheckStopping, NothingToProcess, Wake, ConnectionLost
  <2>3. /\ at'[Main] = at[Main] /\ at[Bus] = from /\ at'[Bus] = to
        /\ DOMAIN at' = {Main, Bus}
    BY <1>1, <2>1 DEF Go
  <2>4. at[Main] \notin BeforeBus
    BY <1>1, <2>1, <2>3
  <2> QED
    BY <1>1, <2>1, <2>2, <2>3, <2>4, GoingOnKeeps DEF BeforeBus, IInv, InOrderOfTelling
<1>11. CASE OpenBus \/ SetOutputs \/ Start
  <2>1. PICK from \in {"opening", "connected", "publishing"},
             to \in {"connected", "publishing", "parsing"} :
               Go(Main, from, to) /\ (to = "connected" => from = "opening" /\ UNCHANGED outputs)
    BY <1>11 DEF OpenBus, SetOutputs, Start
  <2>2. UNCHANGED <<plugged, area, changes, calls, holding, number, version, snapshot>>
    BY <1>11 DEF OpenBus, SetOutputs, Start
  <2>3. /\ at'[Bus] = at[Bus] /\ at[Main] = from /\ at'[Main] = to
        /\ DOMAIN at' = {Main, Bus}
    BY <1>1, <2>1 DEF Go
  <2>4. to = "connected" => DOMAIN outputs' = {}
    BY <2>1, <2>3 DEF IInv, InOrderOfTelling
  <2> QED
    BY <1>1, <2>1, <2>2, <2>3, <2>4, GoingOnKeeps DEF BeforeBus, BeforePrime
<1>12. CASE StartBus
  <2>1. UNCHANGED <<plugged, area, changes, calls, holding, number, version, snapshot, outputs>>
    BY <1>12 DEF StartBus
  <2>2. /\ at[Main] = "primed" /\ at'[Main] = "asking" /\ DOMAIN at' = {Main, Bus}
        /\ at[Bus] = "unborn" /\ at'[Bus] = "checking"
    BY <1>1, <1>12 DEF StartBus, BeforeBus
  <2> QED
    BY <2>1, <2>2, GoingOnKeeps DEF BeforeBus, BeforePrime
<1>13. CASE NothingToLoad \/ Unload \/ LoadFails \/ Stop \/ Join
  <2>1. PICK from \in {"asking", "loading", "running", "joining"},
             to \in {"running", "loading", "joining", "gone"} : Go(Main, from, to)
    BY <1>13 DEF NothingToLoad, Unload, LoadFails, Stop, Join
  <2>2. UNCHANGED <<plugged, area, changes, calls, holding, number, version, snapshot, outputs>>
    BY <1>13 DEF NothingToLoad, Unload, LoadFails, Stop, Join
  <2>3. /\ at'[Bus] = at[Bus] /\ at[Main] = from /\ at'[Main] = to
        /\ DOMAIN at' = {Main, Bus}
    BY <1>1, <2>1 DEF Go
  <2> QED
    BY <2>1, <2>2, <2>3, GoingOnKeeps DEF BeforeBus, BeforePrime
<1>14. CASE UNCHANGED vars
  BY <1>14 DEF vars, IInv, TypeOK, OneAtATime, InOrderOfTelling, NoNewer, Unreported
<1> QED
  BY <1>3, <1>4, <1>5, <1>6, <1>7, <1>8, <1>9, <1>10, <1>11, <1>12, <1>13, <1>14
     DEF Next, MainStep, BusStep, Finished

LEMMA InductiveInvariant == Spec => []IInv
BY InitIInv, NextIInv, PTL DEF Spec

\* All that publishes is Merge, and Called is all that comes back from the handler.
LEMMA OthersPublishNothing ==
  ASSUME IInv, [Next]_vars, \A t \in {Main, Bus} : ~Merge(t) /\ ~Called(t)
  PROVE  /\ UNCHANGED <<snapshot, number>>
         /\ UNCHANGED outputs \/ DOMAIN outputs = {}
<1> USE DEF providerVars
<1>1. CASE WindowsChange \/ Heartbeat \/ Load
  BY <1>1 DEF WindowsChange, Changes, Heartbeat, Load
<1>2. CASE \E s \in Screens : PlugOrUnplug(s) \/ \E a \in Areas \cup {NoArea} : AreaChanges(s, a)
  BY <1>2 DEF PlugOrUnplug, AreaChanges, Changes
<1>3. CASE Receive \/ CheckStopping \/ NothingToProcess \/ Wake \/ ConnectionLost
  BY <1>3 DEF Receive, CheckStopping, NothingToProcess, Wake, ConnectionLost
<1>4. CASE OpenBus \/ Start \/ StartBus \/ NothingToLoad \/ Unload \/ LoadFails \/ Stop \/ Join
  BY <1>4 DEF OpenBus, Start, StartBus, NothingToLoad, Unload, LoadFails, Stop, Join
<1>5. CASE SetOutputs
  BY <1>5 DEF SetOutputs, Go, IInv, InOrderOfTelling
<1>6. CASE UNCHANGED vars
  BY <1>6 DEF vars
<1> QED
  BY <1>1, <1>2, <1>3, <1>4, <1>5, <1>6 DEF Next, MainStep, BusStep, Finished

\* Whatever KWin reports and the bus delays, refuses or loses, the world is never set
\* back to an older report nor to the floors of the start, and a floor moves only to
\* where a report says it is.
THEOREM WorldFollows == Spec => TheWorldFollowsKWin
<1> DEFINE Follows ==
      /\ snapshot.windows # Unreported =>
           /\ snapshot'.windows # Unreported
           /\ snapshot'.windows >= snapshot.windows
      /\ \A s \in DOMAIN outputs :
           outputs'[s] # outputs[s] =>
             \E t \in {Main, Bus} :
               s \in DOMAIN holding[t].areas /\ outputs'[s] = holding[t].areas[s]
<1>1. ASSUME IInv, [Next]_vars PROVE Follows
  <2>1. CASE \A t \in {Main, Bus} : ~Merge(t) /\ ~Called(t)
    <3>1. UNCHANGED snapshot /\ (UNCHANGED outputs \/ DOMAIN outputs = {})
      BY <1>1, <2>1, OthersPublishNothing
    <3> QED
      BY <1>1, <3>1 DEF IInv, TypeOK
  <2>2. CASE \E t \in {Main, Bus} : Called(t)
    BY <1>1, <2>2 DEF Called, IInv, TypeOK
  <2>3. ASSUME NEW t \in {Main, Bus}, Merge(t) PROVE Follows
    <3>1. /\ at[t] = "parsing" /\ outputs' = Merged(holding[t])
          /\ snapshot'.windows = holding[t].windows
      BY <2>3 DEF Merge, Go
    <3>2. \A s \in DOMAIN outputs :
            outputs'[s] # outputs[s] =>
              s \in DOMAIN holding[t].areas /\ outputs'[s] = holding[t].areas[s]
      BY <3>1 DEF Merged
    <3>3. CASE t = Main
      <4>1. snapshot.windows = Unreported
        BY <1>1, <3>1, <3>3 DEF IInv, InOrderOfTelling, BeforePrime
      <4> QED
        BY <3>2, <4>1
    <3>4. CASE t = Bus
      <4>1. /\ snapshot'.windows \in Nat /\ snapshot'.windows <= MaxChanges
            /\ snapshot.windows \in Nat /\ NoNewer(snapshot'.windows)
        BY <1>1, <3>1, <3>4, AreasAssumption DEF IInv, TypeOK, InOrderOfTelling, Reports
      <4> QED
        BY <3>2, <4>1, AreasAssumption DEF NoNewer, Unreported
    <3> QED
      BY <3>3, <3>4
  <2> QED
    BY <2>1, <2>2, <2>3
<1>2. IInv /\ [Next]_vars => [Follows]_vars
  BY <1>1
<1> QED
  BY <1>2, InductiveInvariant, PTL DEF Spec, TheWorldFollowsKWin

\* The thread that starts the provider and the one that hears KWin publish the way a
\* provider must: one at a time, each snapshot under a number of its own, and the
\* handler is called with the one that is current.
THEOREM Refinement == Spec => ImplementsProvider
<1> DEFINE Carrying == IF Carried(Main) # 0 THEN Carried(Main) ELSE Carried(Bus)
<1>1. Init => Provider!Init
  BY DEF Init, Provider!Init, Carried, Main, Bus
<1>2. ASSUME IInv, [Next]_vars
      PROVE  [Provider!Next]_<<snapshot.version, Carrying>>
  <2> USE DEF Carried
  <2>1. CASE \A t \in {Main, Bus} : ~Merge(t) /\ ~Called(t)
    BY <1>2, <2>1, OthersPublishNothing
  <2>2. Main # Bus /\ DOMAIN number = {Main, Bus} /\ version \in Nat /\ snapshot.version = version
    BY <1>2 DEF IInv, OneAtATime, Main, Bus
  <2>3. ASSUME NEW t \in {Main, Bus}, Merge(t)
        PROVE  Provider!Next
    <3>1. /\ at[t] = "parsing" /\ snapshot'.version = version + 1
          /\ number' = [number EXCEPT ![t] = version + 1]
      BY <2>3 DEF Merge, Go
    <3>2. \A u \in {Main, Bus} : number[u] = 0
      BY <1>2, <2>2, <3>1 DEF IInv, OneAtATime, BeforeBus, BeforePrime
    <3>3. Carrying = 0 /\ Carrying' = version + 1
      BY <2>2, <3>1, <3>2
    <3>4. CASE t = Main
      <4>1. version = 0
        BY <1>2, <3>1, <3>4 DEF IInv, OneAtATime, BeforePrime
      <4> QED
        BY <2>2, <3>1, <3>3, <4>1 DEF Provider!Next, Provider!Prime
    <3>5. CASE t = Bus
      <4>1. version # 0
        BY <1>2, <3>1, <3>5 DEF IInv, OneAtATime, BeforePrime, BeforeBus
      <4> QED
        BY <2>2, <3>1, <3>3, <4>1 DEF Provider!Next, Provider!Publish
    <3> QED
      BY <3>4, <3>5
  <2>4. ASSUME NEW t \in {Main, Bus}, Called(t)
        PROVE  Provider!Next
    <3>1. /\ at[t] = "calling" /\ snapshot' = snapshot /\ number' = [number EXCEPT ![t] = 0]
      BY <2>4 DEF Called, Go
    <3>2. number[t] = version /\ version # 0
      BY <1>2, <3>1 DEF IInv, OneAtATime, BeforePrime, BeforeBus
    <3>3. \A u \in {Main, Bus} \ {t} : number[u] = 0
      BY <1>2, <3>1 DEF IInv, OneAtATime, BeforeBus, Main, Bus
    <3>4. Carrying # 0 /\ Carrying' = 0
      BY <2>2, <3>1, <3>2, <3>3
    <3> QED
      BY <3>1, <3>4 DEF Provider!Next, Provider!Delivered
  <2> QED
    BY <2>1, <2>3, <2>4
<1>3. IInv /\ [Next]_vars => [Provider!Next]_<<snapshot.version, Carrying>>
  BY <1>2
<1> QED
  BY <1>1, <1>3, InductiveInvariant, PTL DEF Spec, ImplementsProvider, Provider!Spec

\* The world shows what a report says, of the screens both know.
Shown(report) ==
  /\ snapshot.windows = report.windows
  /\ \A s \in DOMAIN outputs \cap DOMAIN report.areas : outputs[s] = report.areas[s]

\* The last report the bus took is the last in the queue, or in the bus thread's
\* hands, or in the world; and what has a floor is what has an area.
Told ==
  /\ IF calls # << >> THEN calls[Len(calls)] = said
     ELSE IF at[Bus] = "parsing" THEN holding[Bus] = said
     ELSE Shown(said)
  /\ at[Bus] = "unborn" /\ calls = << >> => said = EmptyReport
  /\ version > 0 => snapshot.floors = Floors(outputs)

LEMMA SendTells ==
  ASSUME IInv, Told, Send, Report \in Reports,
         UNCHANGED <<holding, outputs, snapshot, version>>, UNCHANGED at[Bus]
  PROVE  Told'
<1>1. CASE UNCHANGED <<calls, said>>
  BY <1>1 DEF Told, Shown
<1>2. CASE calls' = Append(calls, Report) /\ said' = Report
  <2>1. calls' # << >> /\ calls'[Len(calls')] = Report
    BY <1>2 DEF IInv, TypeOK
  <2> QED
    BY <1>2, <2>1 DEF Told
<1> QED
  BY <1>1, <1>2 DEF Send

LEMMA MergeTells ==
  ASSUME IInv, Told, NEW t \in {Main, Bus}, Merge(t)
  PROVE  Told'
<1>1. /\ at[t] = "parsing" /\ at' = [at EXCEPT ![t] = "calling"]
      /\ outputs' = Merged(holding[t]) /\ version' = version + 1
      /\ snapshot'.windows = holding[t].windows /\ snapshot'.floors = Floors(outputs')
      /\ UNCHANGED <<calls, said, holding>>
  BY DEF Merge, Go, busVars, kwinVars, Floors
<1>2. Main # Bus /\ DOMAIN at = {Main, Bus}
  BY DEF IInv, OneAtATime, Main, Bus
<1>3. Shown(holding[t])'
  BY <1>1 DEF Shown, Merged
<1>4. CASE t = Bus
  BY <1>1, <1>2, <1>3, <1>4 DEF Told, Shown
<1>5. CASE t = Main
  <2>1. at[Bus] = "unborn" /\ at'[Bus] = "unborn"
    BY <1>1, <1>2, <1>5 DEF IInv, OneAtATime, BeforeBus
  <2>2. holding[t] = EmptyReport
    BY <1>5 DEF IInv, OneAtATime
  <2> QED
    BY <1>1, <1>2, <1>3, <2>1, <2>2 DEF Told, Shown
<1> QED
  BY <1>4, <1>5

\* Of a queue of one the first is the last; of a longer one the last stays the last.
LEMMA LastOne ==
  ASSUME NEW S, NEW s \in Seq(S), s # << >>, Tail(s) = << >>
  PROVE  Head(s) = s[Len(s)]
<1>1. Len(Tail(s)) = Len(s) - 1 /\ Len(s) \in Nat
  BY HeadTailProperties, LenProperties
<1>2. Len(Tail(s)) = 0
  BY EmptySeq
<1>3. Len(s) = 1
  BY <1>1, <1>2
<1> QED
  BY <1>3

LEMMA LastStays ==
  ASSUME NEW S, NEW s \in Seq(S), s # << >>, Tail(s) # << >>
  PROVE  Tail(s)[Len(Tail(s))] = s[Len(s)]
<1>1. /\ Len(Tail(s)) = Len(s) - 1 /\ Len(s) \in Nat
      /\ \A i \in 1 .. Len(Tail(s)) : Tail(s)[i] = s[i + 1]
  BY HeadTailProperties, LenProperties
<1>2. Len(Tail(s)) \in Nat \ {0}
  BY HeadTailProperties, EmptySeq
<1>3. Tail(s)[Len(Tail(s))] = s[Len(Tail(s)) + 1]
  BY <1>1, <1>2
<1>4. Len(Tail(s)) + 1 = Len(s)
  BY <1>1
<1> QED
  BY <1>3, <1>4

LEMMA ReceiveTells ==
  ASSUME IInv, Told, Receive
  PROVE  Told'
<1>1. /\ calls # << >> /\ calls' = Tail(calls) /\ at[Bus] = "processing"
      /\ at' = [at EXCEPT ![Bus] = "parsing"]
      /\ holding' = [holding EXCEPT ![Bus] = Head(calls)]
      /\ UNCHANGED <<said, outputs, snapshot, version>>
  BY DEF Receive, Go
<1>2. at'[Bus] = "parsing" /\ holding'[Bus] = Head(calls)
  BY <1>1 DEF IInv, OneAtATime
<1>3. calls[Len(calls)] = said /\ calls \in Seq(Reports)
  BY <1>1 DEF Told, IInv, TypeOK
<1>4. CASE calls' = << >>
  <2>1. Head(calls) = calls[Len(calls)]
    BY <1>1, <1>3, <1>4, LastOne
  <2> QED
    BY <1>1, <1>2, <1>3, <1>4, <2>1 DEF Told
<1>5. CASE calls' # << >>
  <2>1. calls'[Len(calls')] = calls[Len(calls)]
    BY <1>1, <1>3, <1>5, LastStays
  <2> QED
    BY <1>1, <1>2, <1>3, <1>5, <2>1 DEF Told
<1> QED
  BY <1>4, <1>5

LEMMA NextTold ==
  ASSUME IInv, Told, [Next]_vars
  PROVE  Told'
<1> USE DEF kwinVars, scriptVars, busVars, providerVars
<1>1. /\ Main # Bus /\ DOMAIN at = {Main, Bus} /\ plugged \subseteq Screens
      /\ area \in [Screens -> Areas \cup {NoArea}] /\ changes \in Nat
      /\ at[Main] \in BeforeBus => at[Bus] = "unborn"
  BY DEF IInv, TypeOK, OneAtATime, Main, Bus
<1>2. ASSUME Send \/ UNCHANGED busVars, plugged' \subseteq Screens,
             area' \in [Screens -> Areas \cup {NoArea}], changes' \in Nat,
             UNCHANGED <<holding, outputs, snapshot, version>>,
             at'[Bus] = at[Bus]
      PROVE  Told'
  <2>1. Report \in Reports
    BY <1>2, ReportIsReport
  <2>2. CASE Send
    BY <1>2, <2>1, <2>2, SendTells
  <2>3. CASE UNCHANGED busVars
    BY <1>2, <2>3 DEF Told, Shown
  <2> QED
    BY <1>2, <2>2, <2>3
<1>3. CASE WindowsChange
  BY <1>1, <1>2, <1>3 DEF WindowsChange, Changes
<1>4. ASSUME NEW s \in Screens, PlugOrUnplug(s)
      PROVE  Told'
  BY <1>1, <1>2, <1>4 DEF PlugOrUnplug, Changes
<1>5. ASSUME NEW s \in Screens, NEW a \in Areas \cup {NoArea}, AreaChanges(s, a)
      PROVE  Told'
  BY <1>1, <1>2, <1>5 DEF AreaChanges, Changes
<1>6. CASE Heartbeat
  BY <1>1, <1>2, <1>6 DEF Heartbeat
<1>7. CASE Load
  BY <1>1, <1>2, <1>7 DEF Load, Go
<1>8. CASE \E t \in {Main, Bus} : Merge(t)
  BY <1>8, MergeTells
<1>9. CASE Receive
  BY <1>9, ReceiveTells
<1>10. ASSUME NEW t \in {Main, Bus}, Called(t)
       PROVE  Told'
  <2>1. /\ at[t] = "calling" /\ holding' = [holding EXCEPT ![t] = EmptyReport]
        /\ at' = [at EXCEPT ![t] = IF t = Main THEN "primed" ELSE "checking"]
        /\ UNCHANGED <<calls, said, outputs, snapshot, version>>
    BY <1>10 DEF Called, Go
  <2>2. /\ at'[Bus] = "parsing" <=> at[Bus] = "parsing"
        /\ at'[Bus] = "unborn" <=> at[Bus] = "unborn"
        /\ at[Bus] = "parsing" => holding'[Bus] = holding[Bus]
    BY <1>1, <2>1
  <2> QED
    BY <2>1, <2>2 DEF Told, Shown
<1>11. CASE SetOutputs
  <2>1. /\ at[Main] = "connected" /\ at'[Bus] = at[Bus]
        /\ UNCHANGED <<calls, said, snapshot, version, holding>>
    BY <1>1, <1>11 DEF SetOutputs, Go
  <2>2. at[Bus] = "unborn" /\ version = 0
    BY <2>1 DEF IInv, OneAtATime, BeforeBus, BeforePrime
  <2>3. EmptyReport.areas = [s \in {} |-> Bounds]
    BY DEF EmptyReport
  <2> QED
    BY <2>1, <2>2, <2>3 DEF Told, Shown
<1>12. CASE \/ CheckStopping \/ NothingToProcess \/ Wake \/ ConnectionLost
            \/ OpenBus \/ Start \/ NothingToLoad \/ Unload
            \/ LoadFails \/ Stop \/ Join
  <2>1. UNCHANGED <<calls, said, holding, outputs, snapshot, version>>
    BY <1>12 DEF CheckStopping, NothingToProcess, Wake, ConnectionLost,
       OpenBus, Start, NothingToLoad, Unload, LoadFails, Stop,
       Join
  <2>2. PICK t \in {Main, Bus}, from \in {"checking", "processing", "waiting", "opening",
               "publishing", "asking", "loading", "running", "joining"},
             to \in {"ended", "processing", "waiting", "checking", "connected", "parsing",
               "running", "loading", "joining", "gone"} :
          Go(t, from, to) /\ (to = "parsing" => t = Main)
    BY <1>1, <1>12 DEF CheckStopping, NothingToProcess, Wake,
       ConnectionLost, OpenBus, Start, NothingToLoad, Unload,
       LoadFails, Stop, Join
  <2>3. /\ at'[Bus] = "parsing" <=> at[Bus] = "parsing"
        /\ at'[Bus] = "unborn" => at[Bus] = "unborn"
    BY <1>1, <2>2 DEF Go
  <2> QED
    BY <2>1, <2>3 DEF Told, Shown
<1>13. CASE StartBus
  <2>1. /\ UNCHANGED <<calls, said, holding, outputs, snapshot, version>>
        /\ at'[Bus] = "checking" /\ at[Bus] = "unborn"
    BY <1>1, <1>13 DEF StartBus, BeforeBus
  <2> QED
    BY <2>1 DEF Told, Shown
<1>14. CASE UNCHANGED vars
  BY <1>14 DEF vars, Told, Shown
<1> QED
  BY <1>3, <1>4, <1>5, <1>6, <1>7, <1>8, <1>9, <1>10, <1>11, <1>12, <1>13, <1>14
     DEF Next, MainStep, BusStep, Finished

\* No report the bus took is dropped or outdone on its way: once nothing is under way
\* the world shows the last one, and the floors are those of the screens it knows.
THEOREM ReportsAreApplied ==
  Spec => [](calls = << >> /\ at[Bus] # "parsing" /\ version > 0
                           => Shown(said) /\ snapshot.floors = Floors(outputs))
<1>1. Init => Told
  BY DEF Init, Told, Shown, EmptyReport, Main, Bus
<1>2. IInv /\ Told /\ [Next]_vars => Told'
  BY NextTold
<1>3. Told => (calls = << >> /\ at[Bus] # "parsing" /\ version > 0
                 => Shown(said) /\ snapshot.floors = Floors(outputs))
  BY DEF Told
<1> QED
  BY <1>1, <1>2, <1>3, InductiveInvariant, PTL DEF Spec
=============================================================================
