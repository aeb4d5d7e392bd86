--------------------------- MODULE ConnectionPool ---------------------------
(***************************************************************************)
(* What a server of lab53 promises, whatever call it waits with: it serves *)
(* at most Limit clients at a time, answers a client it serves once per    *)
(* request, and lets go of a client only when that one has left and none   *)
(* of its requests is unanswered.                                          *)
(***************************************************************************)
EXTENDS FiniteSets, Naturals

CONSTANTS Clients, Limit

VARIABLES
  present,  \* clients that hold their end of a connection open
  asked,    \* clients with a request that is not answered
  pool      \* clients the server serves

poolVars == <<present, asked, pool>>

Init == present = {} /\ asked = {} /\ pool = {}

Come(c) ==
  /\ c \notin present \cup pool
  /\ present' = present \cup {c} /\ UNCHANGED <<asked, pool>>

Ask(c) ==
  /\ c \in present \ asked
  /\ asked' = asked \cup {c} /\ UNCHANGED <<present, pool>>

Leave(c) ==
  /\ c \in present
  /\ present' = present \ {c} /\ UNCHANGED <<asked, pool>>

(* A client may have left before it is accepted.                           *)
Serve(c) ==
  /\ c \notin pool /\ Cardinality(pool) < Limit
  /\ pool' = pool \cup {c} /\ UNCHANGED <<present, asked>>

Answer(c) ==
  /\ c \in pool \cap asked
  /\ asked' = asked \ {c} /\ UNCHANGED <<present, pool>>

LetGo(c) ==
  /\ c \in pool \ (present \cup asked)
  /\ pool' = pool \ {c} /\ UNCHANGED <<present, asked>>

Next ==
  \E c \in Clients :
    Come(c) \/ Ask(c) \/ Leave(c) \/ Serve(c) \/ Answer(c) \/ LetGo(c)

Spec == Init /\ [][Next]_poolVars
=============================================================================
