--------------------------- MODULE DocumentCustody ---------------------------
(***************************************************************************)
(* What the system promises about holding a user's document, without a     *)
(* word on handlers, workers or queues: a document is stored before its    *)
(* task is registered, data are derived only for a registered task, the    *)
(* document goes before the registration does, and what was erased or      *)
(* discarded never comes back.                                             *)
(***************************************************************************)
CONSTANT Task

VARIABLES
  life,     \* where each task is in its life
  derived   \* tasks with derived data (findings, segments, rewrite options)

custodyVars == <<life, derived>>

Life == {"new", "stored", "registered", "stripped", "erased", "discarded"}

CustodyTypeOK == life \in [Task -> Life] /\ derived \subseteq Task

Init ==
  /\ life = [t \in Task |-> "new"]
  /\ derived = {}

Pass(t, from, to) ==
  /\ life[t] = from
  /\ life' = [life EXCEPT ![t] = to]

Store(t)    == Pass(t, "new", "stored") /\ UNCHANGED derived
Refuse(t)   == Pass(t, "new", "discarded") /\ UNCHANGED derived
Discard(t)  == Pass(t, "stored", "discarded") /\ UNCHANGED derived
Register(t) == Pass(t, "stored", "registered") /\ UNCHANGED derived
Strip(t)    == Pass(t, "registered", "stripped") /\ UNCHANGED derived
Erase(t)    == Pass(t, "stripped", "erased") /\ derived' = derived \ {t}

Derive(t) ==
  /\ life[t] \in {"registered", "stripped"}
  /\ derived' \in {derived \cup {t}, derived \ {t}}
  /\ UNCHANGED life

Next ==
  \E t \in Task : \/ Store(t) \/ Refuse(t) \/ Discard(t) \/ Register(t)
                  \/ Strip(t) \/ Erase(t) \/ Derive(t)

Spec == Init /\ [][Next]_custodyVars

=============================================================================
