------------------------- MODULE HandlerSlot_proofs -------------------------
(***************************************************************************)
(* What HandlerSlot promises, for every number of setters, callers and     *)
(* registrations.                                                          *)
(***************************************************************************)
EXTENDS HandlerSlot, FiniteSetTheorems, TLAPS

\* The callers whose call is counted.
Active == {c \in Callers : InCall(c)}

\* Counting one call more and one call less.
LEMMA ActiveFinite == IsFiniteSet(Active)
BY SlotAssumption, FS_Subset DEF Active

LEMMA CountType == Cardinality(Active) \in Nat
BY ActiveFinite, FS_CardinalityType

\* A count of zero means no caller is in a call.
LEMMA ZeroIsNobody ==
  ASSUME InFlightCounts, in_flight = 0
  PROVE  \A c \in Callers : ~InCall(c)
<1>1. Cardinality(Active) = 0
  BY DEF InFlightCounts, Active
<1>2. Active = {}
  BY <1>1, ActiveFinite, FS_EmptySet
<1> QED
  BY <1>2 DEF Active

-----------------------------------------------------------------------------
LEMMA InitIInv == Init => IInv
<1> SUFFICES ASSUME Init PROVE IInv
  OBVIOUS
<1>1. TypeOK
  BY DEF Init, TypeOK, SetterAt, CallerAt
<1>2. \A c \in Callers : ~InCall(c)
  BY DEF Init, InCall
<1>3. InFlightCounts
  <2>1. {c \in Callers : InCall(c)} = {}
    BY <1>2
  <2> QED
    BY <2>1, FS_EmptySet DEF InFlightCounts, Init
<1>4. CopyHeldInCall /\ EndingWhileInSet /\ InstalledIsLive /\ NoCallAfterClear
  BY <1>2 DEF Init, CopyHeldInCall, EndingWhileInSet, InstalledIsLive,
              NoCallAfterClear
<1> QED
  BY <1>1, <1>3, <1>4 DEF IInv

\* A step that moves no caller in or out of a call keeps the count right.
LEMMA CountKept ==
  ASSUME InFlightCounts, in_flight' = in_flight,
         \A c \in Callers : InCall(c)' <=> InCall(c)
  PROVE  InFlightCounts'
<1>1. {c \in Callers : InCall(c)'} = {c \in Callers : InCall(c)}
  OBVIOUS
<1> QED
  BY <1>1 DEF InFlightCounts

LEMMA SetIInv ==
  ASSUME IInv, NEW s \in Setters, NEW h \in Handlers \cup {None}, Set(s, h)
  PROVE  IInv'
<1> USE SlotAssumption
<1>1. TypeOK'
  BY DEF IInv, TypeOK, Set, Go, SetterAt, CallerAt
<1>2. \A c \in Callers : InCall(c)' <=> InCall(c)
  BY DEF IInv, TypeOK, Set, Go, InCall
<1>3. InFlightCounts'
  BY <1>2, CountKept DEF IInv, Set
<1>4. CopyHeldInCall'
  BY <1>2 DEF IInv, CopyHeldInCall, Set
<1>5. EndingWhileInSet'
  BY DEF IInv, TypeOK, EndingWhileInSet, Set, Go
<1>6. InstalledIsLive'
  BY DEF IInv, TypeOK, InstalledIsLive, Set, Fresh, EndingWhileInSet, Go
<1>7. NoCallAfterClear'
  <2>1. CASE in_flight = 0
    BY <2>1, <1>2, ZeroIsNobody DEF IInv, NoCallAfterClear
  <2>2. CASE in_flight # 0
    BY <2>2, <1>2 DEF IInv, NoCallAfterClear, Set
  <2> QED
    BY <2>1, <2>2
<1> QED
  BY <1>1, <1>3, <1>4, <1>5, <1>6, <1>7 DEF IInv

LEMMA RecheckIInv ==
  ASSUME IInv, NEW s \in Setters, Recheck(s)
  PROVE  IInv'
<1> USE SlotAssumption
<1>1. TypeOK'
  BY DEF IInv, TypeOK, Recheck, Go, SetterAt, CallerAt
<1>2. \A c \in Callers : InCall(c)' <=> InCall(c)
  BY DEF IInv, TypeOK, Recheck, Go, InCall
<1>3. InFlightCounts'
  BY <1>2, CountKept DEF IInv, Recheck
<1>4. CopyHeldInCall'
  BY <1>2 DEF IInv, CopyHeldInCall, Recheck
<1>5. EndingWhileInSet'
  BY DEF IInv, TypeOK, EndingWhileInSet, Recheck, Go
<1>6. InstalledIsLive'
  BY DEF IInv, TypeOK, InstalledIsLive, Recheck
<1>7. NoCallAfterClear'
  <2>1. CASE in_flight = 0
    BY <2>1, <1>2, ZeroIsNobody DEF IInv, NoCallAfterClear
  <2>2. CASE in_flight # 0
    BY <2>2, <1>2 DEF IInv, NoCallAfterClear, Recheck
  <2> QED
    BY <2>1, <2>2
<1> QED
  BY <1>1, <1>3, <1>4, <1>5, <1>6, <1>7 DEF IInv

\* Entering the handler and waking setters move nobody across the count.
LEMMA QuietIInv ==
  ASSUME IInv,
         \/ \E s \in Setters : SpuriousWake(s)
         \/ \E c \in Callers : Invoke(c) \/ NotifyAll(c) \/ CallNobody(c)
  PROVE  IInv'
<1> USE SlotAssumption
<1>1. TypeOK'
  BY DEF IInv, TypeOK, SpuriousWake, Invoke, NotifyAll, CallNobody, slotVars,
         Go, SetterAt, CallerAt
<1>2. \A c \in Callers : InCall(c)' <=> InCall(c)
  BY DEF IInv, TypeOK, SpuriousWake, Invoke, NotifyAll, CallNobody, slotVars,
         Go, InCall
<1>3. UNCHANGED <<handler, in_flight, copy, ending, retired>>
  BY DEF SpuriousWake, Invoke, NotifyAll, CallNobody, slotVars
<1>4. InFlightCounts'
  BY <1>2, <1>3, CountKept DEF IInv
<1>5. \A s \in Setters : at'[s] = "out" => at[s] = "out"
  BY DEF IInv, TypeOK, SpuriousWake, Invoke, NotifyAll, CallNobody, slotVars, Go
<1>6. CopyHeldInCall' /\ InstalledIsLive' /\ NoCallAfterClear'
  BY <1>2, <1>3 DEF IInv, CopyHeldInCall, InstalledIsLive, NoCallAfterClear
<1>7. EndingWhileInSet'
  BY <1>3, <1>5 DEF IInv, EndingWhileInSet
<1> QED
  BY <1>1, <1>4, <1>6, <1>7 DEF IInv

LEMMA BeginCallIInv ==
  ASSUME IInv, NEW c \in Callers, BeginCall(c)
  PROVE  IInv'
<1> USE SlotAssumption
<1>1. TypeOK'
  BY DEF IInv, TypeOK, BeginCall, Go, SetterAt, CallerAt
<1>2. \A d \in Callers : InCall(d)' <=> d = c \/ InCall(d)
  BY DEF IInv, TypeOK, BeginCall, Go, InCall
<1>3. InFlightCounts'
  <2>1. {d \in Callers : InCall(d)'} = Active \cup {c}
    BY <1>2 DEF Active
  <2>2. c \notin Active
    BY DEF Active, InCall, BeginCall
  <2>3. Cardinality(Active \cup {c}) = Cardinality(Active) + 1
    BY <2>2, ActiveFinite, FS_AddElement
  <2> QED
    BY <2>1, <2>3 DEF IInv, InFlightCounts, Active, BeginCall
<1>4. CopyHeldInCall'
  BY <1>2 DEF IInv, TypeOK, CopyHeldInCall, BeginCall
<1>5. EndingWhileInSet'
  BY DEF IInv, TypeOK, EndingWhileInSet, BeginCall, Go
<1>6. InstalledIsLive'
  BY DEF IInv, InstalledIsLive, BeginCall
<1>7. NoCallAfterClear'
  BY <1>2 DEF IInv, TypeOK, NoCallAfterClear, InstalledIsLive, BeginCall
<1> QED
  BY <1>1, <1>3, <1>4, <1>5, <1>6, <1>7 DEF IInv

LEMMA EndCallIInv ==
  ASSUME IInv, NEW c \in Callers, EndCall(c)
  PROVE  IInv'
<1> USE SlotAssumption
<1>1. \A d \in Callers : InCall(d)' <=> d # c /\ InCall(d)
  BY DEF IInv, TypeOK, EndCall, Go, InCall
<1>2. in_flight' = Cardinality(Active \ {c}) /\ in_flight' \in Nat
  <2>1. c \in Active
    BY DEF Active, InCall, EndCall
  <2>2. Cardinality(Active \ {c}) = Cardinality(Active) - 1
    BY <2>1, ActiveFinite, FS_RemoveElement
  <2>3. Cardinality(Active \ {c}) \in Nat
    BY ActiveFinite, FS_RemoveElement, FS_CardinalityType
  <2> QED
    BY <2>2, <2>3 DEF IInv, InFlightCounts, Active, EndCall
<1>3. TypeOK'
  BY <1>2 DEF IInv, TypeOK, EndCall, Go, SetterAt, CallerAt
<1>4. InFlightCounts'
  <2>1. {d \in Callers : InCall(d)'} = Active \ {c}
    BY <1>1 DEF Active
  <2> QED
    BY <2>1, <1>2 DEF InFlightCounts
<1>5. CopyHeldInCall'
  BY <1>1 DEF IInv, TypeOK, CopyHeldInCall, EndCall
<1>6. EndingWhileInSet'
  BY DEF IInv, TypeOK, EndingWhileInSet, EndCall, Go
<1>7. InstalledIsLive'
  BY DEF IInv, InstalledIsLive, EndCall
<1>8. NoCallAfterClear'
  BY <1>1 DEF IInv, TypeOK, NoCallAfterClear, EndCall
<1> QED
  BY <1>3, <1>4, <1>5, <1>6, <1>7, <1>8 DEF IInv

LEMMA StutterIInv == IInv /\ UNCHANGED slotVars => IInv'
<1> SUFFICES ASSUME IInv, UNCHANGED slotVars PROVE IInv'
  OBVIOUS
<1> USE DEF slotVars
<1>1. \A c \in Callers : InCall(c)' <=> InCall(c)
  BY DEF InCall
<1>2. InFlightCounts'
  BY <1>1, CountKept DEF IInv
<1>3. TypeOK' /\ EndingWhileInSet' /\ InstalledIsLive'
  BY DEF IInv, TypeOK, EndingWhileInSet, InstalledIsLive
<1>4. CopyHeldInCall' /\ NoCallAfterClear'
  BY <1>1 DEF IInv, CopyHeldInCall, NoCallAfterClear
<1> QED
  BY <1>2, <1>3, <1>4 DEF IInv

\* IInv is inductive: it holds at the start and every step of set and of call
\* keeps it.
THEOREM InductiveInvariant == Spec => []IInv
<1>1. Init => IInv
  BY InitIInv
<1>2. IInv /\ [Next]_slotVars => IInv'
  <2> SUFFICES ASSUME IInv, [Next]_slotVars PROVE IInv'
    OBVIOUS
  <2>1. ASSUME NEW s \in Setters, SetterStep(s) PROVE IInv'
    BY <2>1, SetIInv, RecheckIInv, QuietIInv DEF SetterStep
  <2>2. ASSUME NEW c \in Callers, CallerStep(c) PROVE IInv'
    BY <2>2, BeginCallIInv, EndCallIInv, QuietIInv DEF CallerStep
  <2>3. CASE UNCHANGED slotVars
    BY <2>3, StutterIInv
  <2> QED
    BY <2>1, <2>2, <2>3 DEF Next
<1> QED
  BY <1>1, <1>2, PTL DEF Spec

\* Once a set that ended a registration has returned, no caller is inside that
\* handler or about to enter it: what lets PetHost be destroyed after run.
THEOREM ClearedIsQuiet == Spec => []NoCallAfterClear
<1>1. IInv => NoCallAfterClear
  BY DEF IInv
<1> QED
  BY <1>1, InductiveInvariant, PTL

-----------------------------------------------------------------------------
\* Notifying after the unlock loses no wake-up: every blocked setter has either
\* a call still in flight or a caller about to notify.
THEOREM NoWakeupLost == Spec => []NoLostWakeup
<1> USE SlotAssumption
<1>1. Init => NoLostWakeup
  BY DEF Init, NoLostWakeup
<1>2. IInv /\ NoLostWakeup /\ [Next]_slotVars => NoLostWakeup'
  <2> SUFFICES ASSUME IInv, NoLostWakeup, [Next]_slotVars,
                      NEW s \in Setters, at'[s] = "waiting", in_flight' = 0
               PROVE  \E c \in Callers : at'[c] = "notifying"
    BY DEF NoLostWakeup
  <2> USE DEF IInv, TypeOK, Go
  <2>1. CASE UNCHANGED slotVars
    BY <2>1 DEF slotVars, NoLostWakeup
  <2>2. ASSUME NEW t \in Setters, SetterStep(t)
        PROVE  \E c \in Callers : at'[c] = "notifying"
    <3>1. \A c \in Callers : at'[c] = at[c]
      BY <2>2 DEF SetterStep, Set, Recheck, SpuriousWake
    <3>2. in_flight = 0 /\ at[s] = "waiting"
      BY <2>2 DEF SetterStep, Set, Recheck, SpuriousWake
    <3> QED
      BY <3>1, <3>2 DEF NoLostWakeup
  <2>3. ASSUME NEW c \in Callers, CallerStep(c)
        PROVE  \E d \in Callers : at'[d] = "notifying"
    <3>1. CASE CallNobody(c)
      BY <3>1 DEF CallNobody, slotVars, NoLostWakeup
    <3>2. CASE BeginCall(c)
      BY <3>2 DEF BeginCall
    <3>3. CASE Invoke(c)
      BY <3>3 DEF Invoke, NoLostWakeup
    <3>4. CASE EndCall(c)
      BY <3>4 DEF EndCall
    <3>5. CASE NotifyAll(c)
      BY <3>5 DEF NotifyAll
    <3> QED
      BY <2>3, <3>1, <3>2, <3>3, <3>4, <3>5 DEF CallerStep
  <2> QED
    BY <2>1, <2>2, <2>3 DEF Next
<1> QED
  BY <1>1, <1>2, InductiveInvariant, PTL DEF Spec
-----------------------------------------------------------------------------
InSet == {s \in Setters : at[s] # "out"}

\* With nothing in flight no caller holds a handler.
LEMMA ZeroHoldsNothing ==
  ASSUME IInv, in_flight = 0
  PROVE  \A c \in Callers : copy[c] = None
BY ZeroIsNobody DEF IInv, CopyHeldInCall

LEMMA SetRefines ==
  ASSUME IInv, NEW s \in Setters, NEW h \in Handlers \cup {None}, Set(s, h)
  PROVE  Contract!Replace(s, h) \/ Contract!ReplaceAndReturn(s, h)
<1> USE SlotAssumption DEF IInv, TypeOK
<1>1. s \notin InSet /\ (h = None \/ Contract!Fresh(h))
  BY DEF InSet, Set, Fresh, Contract!Fresh
<1>2. CASE in_flight = 0
  <2>1. handler # None => \A c \in Callers : copy[c] # handler
    BY <1>2, ZeroHoldsNothing
  <2>2. handler' = h /\ UNCHANGED <<copy, at, ending>>
    BY <1>2 DEF Set
  <2>3. InSet' = InSet
    BY <2>2 DEF InSet
  <2> QED
    BY <1>1, <2>1, <2>2, <2>3 DEF Contract!ReplaceAndReturn, InSet
<1>3. CASE in_flight # 0
  <2>1. InSet' = InSet \cup {s}
    BY <1>3 DEF InSet, Set, Go
  <2>2. /\ handler' = h
        /\ ending' = [ending EXCEPT ![s] = {handler} \ {None}]
        /\ UNCHANGED copy
    BY <1>3 DEF Set
  <2> QED
    BY <1>1, <2>1, <2>2 DEF Contract!Replace, InSet
<1> QED
  BY <1>2, <1>3

LEMMA RecheckRefines ==
  ASSUME IInv, NEW s \in Setters, Recheck(s)
  PROVE  Contract!Return(s) \/ UNCHANGED Contract!contractVars
<1> USE SlotAssumption DEF IInv, TypeOK
<1>1. CASE in_flight = 0
  <2>1. \A c \in Callers : copy[c] \notin ending[s]
    BY <1>1, ZeroHoldsNothing
  <2>2. s \in InSet /\ InSet' = InSet \ {s}
    BY <1>1 DEF InSet, Recheck, Go
  <2>3. /\ ending' = [ending EXCEPT ![s] = {}]
        /\ UNCHANGED <<handler, copy>>
    BY <1>1 DEF Recheck
  <2> QED
    BY <2>1, <2>2, <2>3 DEF Contract!Return, InSet
<1>2. CASE in_flight # 0
  <2>1. InSet' = InSet
    BY <1>2 DEF InSet, Recheck, Go
  <2> QED
    BY <1>2, <2>1 DEF InSet, Recheck, Contract!contractVars
<1> QED
  BY <1>1, <1>2

LEMMA CallerRefines ==
  ASSUME IInv, NEW c \in Callers, CallerStep(c)
  PROVE  \/ Contract!BeginCall(c)
         \/ Contract!EndCall(c)
         \/ UNCHANGED Contract!contractVars
<1> USE SlotAssumption DEF IInv, TypeOK
<1>1. InSet' = InSet
  BY DEF InSet, CallerStep, CallNobody, BeginCall, Invoke, EndCall, NotifyAll,
         slotVars, Go, SetterAt
<1>2. CASE BeginCall(c)
  <2>1. copy[c] = None
    BY <1>2 DEF BeginCall, CopyHeldInCall, InCall
  <2> QED
    BY <1>1, <1>2, <2>1 DEF BeginCall, Contract!BeginCall, InSet
<1>3. CASE EndCall(c)
  <2>1. copy[c] # None
    BY <1>3 DEF EndCall, CopyHeldInCall, InCall
  <2> QED
    BY <1>1, <1>3, <2>1 DEF EndCall, Contract!EndCall, InSet
<1>4. CASE CallNobody(c) \/ Invoke(c) \/ NotifyAll(c)
  BY <1>1, <1>4 DEF CallNobody, Invoke, NotifyAll, slotVars,
                    Contract!contractVars, InSet
<1> QED
  BY <1>2, <1>3, <1>4 DEF CallerStep

\* The slot implements its promise: every step of the lock, the count and the
\* condition variable is a step of HandlerContract, or changes nothing of it.
THEOREM Refinement == Spec => ImplementsContract
<1>1. Init => Contract!Init
  BY SlotAssumption DEF Init, Contract!Init
<1>2. IInv /\ [Next]_slotVars => [Contract!Next]_(Contract!contractVars)
  <2> SUFFICES ASSUME IInv, [Next]_slotVars
               PROVE  [Contract!Next]_(Contract!contractVars)
    OBVIOUS
  <2>1. ASSUME NEW s \in Setters, SetterStep(s)
        PROVE  [Contract!Next]_(Contract!contractVars)
    <3>1. ASSUME NEW h \in Handlers \cup {None}, Set(s, h)
          PROVE  Contract!Next
      BY <3>1, SetRefines DEF Contract!Next
    <3>2. CASE Recheck(s)
      BY <3>2, RecheckRefines DEF Contract!Next
    <3>3. CASE SpuriousWake(s)
      <4>1. InSet' = InSet
        BY <3>3 DEF SpuriousWake, Go, InSet, IInv, TypeOK
      <4> QED
        BY <3>3, <4>1 DEF SpuriousWake, InSet, Contract!contractVars
    <3> QED
      BY <2>1, <3>1, <3>2, <3>3 DEF SetterStep
  <2>2. ASSUME NEW c \in Callers, CallerStep(c)
        PROVE  [Contract!Next]_(Contract!contractVars)
    BY <2>2, CallerRefines DEF Contract!Next
  <2>3. CASE UNCHANGED slotVars
    BY <2>3 DEF slotVars, Contract!contractVars
  <2> QED
    BY <2>1, <2>2, <2>3 DEF Next
<1> QED
  BY <1>1, <1>2, InductiveInvariant, PTL DEF Spec, ImplementsContract, Contract!Spec
=============================================================================
