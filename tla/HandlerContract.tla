-------------------------- MODULE HandlerContract --------------------------
(***************************************************************************)
(* What IWorldProvider::set_changed_handler promises (world.hpp, the       *)
(* comment above HandlerSlot in handler_slot.hpp): a provider may call the *)
(* installed handler from its own threads at any time, and once a call of  *)
(* set that ended a registration has returned, no call of the handler that *)
(* registration named is running.  Nothing is said of how that is done: no *)
(* lock, no count, no condition variable.                                  *)
(***************************************************************************)
CONSTANTS Setters,   \* threads that install and clear the handler
          Callers,   \* threads that publish
          Handlers,  \* registrations: one value per std::function installed
          None       \* the empty std::function

VARIABLES handler,   \* the installed handler
          running,   \* running[c]: the handler caller c is inside, or None
          setting,   \* setters inside a call of set
          ending     \* ending[s]: the registrations s's call of set ends

contractVars == <<handler, running, setting, ending>>

Init ==
  /\ handler = None
  /\ running = [c \in Callers |-> None]
  /\ setting = {}
  /\ ending = [s \in Setters |-> {}]

\* The registrations nobody inside a call of set is responsible for, and that
\* no call is running: a new std::function is none of the others.
Fresh(h) ==
  /\ h # handler
  /\ \A c \in Callers : running[c] # h
  /\ \A s \in Setters : h \notin ending[s]

Replace(s, h) ==
  /\ s \notin setting
  /\ h = None \/ Fresh(h)
  /\ handler' = h
  /\ setting' = setting \cup {s}
  /\ ending' = [ending EXCEPT ![s] = {handler} \ {None}]
  /\ UNCHANGED running

Return(s) ==
  /\ s \in setting
  /\ \A c \in Callers : running[c] \notin ending[s]
  /\ setting' = setting \ {s}
  /\ ending' = [ending EXCEPT ![s] = {}]
  /\ UNCHANGED <<handler, running>>

\* A set that finds nothing of the old registration running returns at once.
ReplaceAndReturn(s, h) ==
  /\ s \notin setting
  /\ h = None \/ Fresh(h)
  /\ handler # None => \A c \in Callers : running[c] # handler
  /\ handler' = h
  /\ UNCHANGED <<running, setting, ending>>

BeginCall(c) ==
  /\ running[c] = None
  /\ handler # None
  /\ running' = [running EXCEPT ![c] = handler]
  /\ UNCHANGED <<handler, setting, ending>>

EndCall(c) ==
  /\ running[c] # None
  /\ running' = [running EXCEPT ![c] = None]
  /\ UNCHANGED <<handler, setting, ending>>

Next ==
  \/ \E s \in Setters, h \in Handlers \cup {None} :
        Replace(s, h) \/ ReplaceAndReturn(s, h)
  \/ \E s \in Setters : Return(s)
  \/ \E c \in Callers : BeginCall(c) \/ EndCall(c)

Spec == Init /\ [][Next]_contractVars
=============================================================================
