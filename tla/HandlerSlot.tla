---------------------------- MODULE HandlerSlot ----------------------------
(***************************************************************************)
(* core/dragonperch/handler_slot.hpp: the changed-handler of a provider, a *)
(* mutex, a count of the calls in flight and a condition variable.         *)
(*                                                                         *)
(* A critical section of mutex_ blocks nowhere inside, so each is one step.*)
(* What the lock does not cover are steps of their own: invoking the       *)
(* handler, notify_all after the unlock, and the wait, which gives the     *)
(* lock up.  A setter is either blocked in idle_.wait or, after a          *)
(* notification, on its way to evaluating the predicate again.             *)
(*                                                                         *)
(* The handler must not call set from inside itself (handler_slot.hpp      *)
(* lines 25-26): Setters and Callers are disjoint.                         *)
(***************************************************************************)
EXTENDS Naturals, FiniteSets

CONSTANTS Setters, Callers, Handlers, None

ASSUME SlotAssumption ==
  /\ IsFiniteSet(Callers)
  /\ Setters \cap Callers = {}
  /\ None \notin Handlers

VARIABLES
  handler,     \* handler_
  in_flight,   \* in_flight_
  at,          \* where each thread is
  copy,        \* the caller's local copy of handler_
  ending,      \* history: ending[s] are the registrations s's set ends
  retired      \* history: registrations whose ending set has returned

slotVars == <<handler, in_flight, at, copy, ending, retired>>

SetterAt == {"out", "waiting", "woken"}
CallerAt == {"out", "copied", "inside", "notifying"}

Init ==
  /\ handler = None
  /\ in_flight = 0
  /\ at = [t \in Setters \cup Callers |-> "out"]
  /\ copy = [c \in Callers |-> None]
  /\ ending = [s \in Setters |-> {}]
  /\ retired = {}

Go(t, place) == at' = [at EXCEPT ![t] = place]

-----------------------------------------------------------------------------
(* set *)

\* A registration is a std::function of its own: not the installed one, not
\* one a call still holds, and not one an unfinished set is ending.
Fresh(h) ==
  /\ h # handler
  /\ \A c \in Callers : copy[c] # h
  /\ \A s \in Setters : h \notin ending[s]

\* Mutation of Set: it returns without waiting, as both providers' did.
Set_NoWait(s, h) ==
  /\ at[s] = "out"
  /\ h = None \/ Fresh(h)
  /\ handler' = h
  /\ retired' = (retired \ {h}) \cup ({handler} \ {None})
  /\ UNCHANGED <<in_flight, at, copy, ending>>

\* The lock, the move into handler_, and the first look at the predicate.
Set(s, h) ==
  /\ at[s] = "out"
  /\ h = None \/ Fresh(h)
  /\ handler' = h
  /\ IF in_flight = 0
       THEN /\ retired' = (retired \ {h}) \cup ({handler} \ {None})
            /\ UNCHANGED <<at, ending>>
       ELSE /\ Go(s, "waiting")
            /\ ending' = [ending EXCEPT ![s] = {handler} \ {None}]
            /\ retired' = retired \ {h}
  /\ UNCHANGED <<in_flight, copy>>

\* Mutation of Recheck: the wait has no predicate, so that any wake-up ends it.
Recheck_NoPredicate(s) ==
  /\ at[s] = "woken"
  /\ Go(s, "out")
  /\ retired' = retired \cup ending[s]
  /\ ending' = [ending EXCEPT ![s] = {}]
  /\ UNCHANGED <<handler, in_flight, copy>>

\* Back from the condition variable with the lock: return, or wait again.
Recheck(s) ==
  /\ at[s] = "woken"
  /\ IF in_flight = 0
       THEN /\ Go(s, "out")
            /\ retired' = retired \cup ending[s]
            /\ ending' = [ending EXCEPT ![s] = {}]
       ELSE /\ Go(s, "waiting")
            /\ UNCHANGED <<retired, ending>>
  /\ UNCHANGED <<handler, in_flight, copy>>

\* std::condition_variable may wake a waiter for no reason at all.
SpuriousWake(s) ==
  /\ at[s] = "waiting"
  /\ Go(s, "woken")
  /\ UNCHANGED <<handler, in_flight, copy, ending, retired>>

-----------------------------------------------------------------------------
(* call *)

\* No handler: call returns from inside its first critical section.
CallNobody(c) ==
  /\ at[c] = "out"
  /\ handler = None
  /\ UNCHANGED slotVars

BeginCall(c) ==
  /\ at[c] = "out"
  /\ handler # None
  /\ copy' = [copy EXCEPT ![c] = handler]
  /\ in_flight' = in_flight + 1
  /\ Go(c, "copied")
  /\ UNCHANGED <<handler, ending, retired>>

Invoke(c) ==
  /\ at[c] = "copied"
  /\ Go(c, "inside")
  /\ UNCHANGED <<handler, in_flight, copy, ending, retired>>

\* Mutation of EndCall: notify_all is forgotten.
EndCall_Silent(c) ==
  /\ at[c] = "inside"
  /\ in_flight' = in_flight - 1
  /\ copy' = [copy EXCEPT ![c] = None]
  /\ Go(c, "out")
  /\ UNCHANGED <<handler, ending, retired>>

\* The handler has returned; the second critical section takes the count back.
EndCall(c) ==
  /\ at[c] = "inside"
  /\ in_flight' = in_flight - 1
  /\ copy' = [copy EXCEPT ![c] = None]
  /\ Go(c, "notifying")
  /\ UNCHANGED <<handler, ending, retired>>

\* notify_all, after the unlock.
NotifyAll(c) ==
  /\ at[c] = "notifying"
  /\ at' = [t \in Setters \cup Callers |->
              IF t = c THEN "out"
              ELSE IF t \in Setters /\ at[t] = "waiting" THEN "woken"
              ELSE at[t]]
  /\ UNCHANGED <<handler, in_flight, copy, ending, retired>>

-----------------------------------------------------------------------------
SetterStep(s) ==
  \/ \E h \in Handlers \cup {None} : Set(s, h)
  \/ Recheck(s)
  \/ SpuriousWake(s)

CallerStep(c) ==
  \/ CallNobody(c)
  \/ BeginCall(c)
  \/ Invoke(c)
  \/ EndCall(c)
  \/ NotifyAll(c)

Next ==
  \/ \E s \in Setters : SetterStep(s)
  \/ \E c \in Callers : CallerStep(c)

\* A thread that has started a call goes on with it, and a woken setter gets
\* the lock in the end.  Nobody has to call set or call, and nobody is woken
\* except by notify_all.
Fairness ==
  /\ \A s \in Setters : WF_slotVars(Recheck(s))
  /\ \A c \in Callers : WF_slotVars(Invoke(c) \/ EndCall(c) \/ NotifyAll(c))

Spec == Init /\ [][Next]_slotVars

FairSpec == Spec /\ Fairness

-----------------------------------------------------------------------------
(* Properties *)

InCall(c) == at[c] \in {"copied", "inside"}

TypeOK ==
  /\ handler \in Handlers \cup {None}
  /\ in_flight \in Nat
  /\ at \in [Setters \cup Callers -> SetterAt \cup CallerAt]
  /\ \A s \in Setters : at[s] \in SetterAt
  /\ \A c \in Callers : at[c] \in CallerAt
  /\ copy \in [Callers -> Handlers \cup {None}]
  /\ ending \in [Setters -> SUBSET Handlers]
  /\ retired \in SUBSET Handlers

\* "The handler will not be called again": once a set that ended a registration
\* has returned, no caller is inside that handler or about to enter it, however
\* sets and calls of several threads overlap (handler_slot.hpp lines 21-23).
NoCallAfterClear ==
  \A c \in Callers : InCall(c) => copy[c] \notin retired

\* The count set waits on counts the calls in flight, and only those.
InFlightCounts == in_flight = Cardinality({c \in Callers : InCall(c)})

\* What is installed has not been ended, and nobody is ending it.
InstalledIsLive ==
  handler # None =>
    /\ handler \notin retired
    /\ \A s \in Setters : handler \notin ending[s]

\* A caller holds a handler exactly while its call is counted.
CopyHeldInCall == \A c \in Callers : InCall(c) <=> copy[c] # None

\* Only a set under way is ending anything.
EndingWhileInSet ==
  \A s \in Setters : at[s] = "out" => ending[s] = {}

IInv ==
  /\ TypeOK
  /\ InFlightCounts
  /\ CopyHeldInCall
  /\ EndingWhileInSet
  /\ InstalledIsLive
  /\ NoCallAfterClear

\* No wake-up is lost: a setter blocked in the condition variable with nothing
\* left in flight always has a caller on its way to notify_all, although the
\* notification is made after the unlock.
NoLostWakeup ==
  \A s \in Setters :
    at[s] = "waiting" /\ in_flight = 0 =>
      \E c \in Callers : at[c] = "notifying"

\* Clearing ends: a set(nullptr) that has to wait returns, unless somebody
\* installs a handler meanwhile (a publisher could then keep the count above
\* zero for ever).  This is what PetHost::run's way out blocks on.
ClearReturns ==
  \A s \in Setters :
    (at[s] # "out" /\ handler = None) ~> (at[s] = "out" \/ handler # None)

Contract == INSTANCE HandlerContract WITH
  running <- copy,
  setting <- {s \in Setters : at[s] # "out"}

\* The lock, the count and the condition variable implement the promise: waiting
\* for every call to finish is enough to wait for those of the old handler.
ImplementsContract == Contract!Spec
=============================================================================
