---------------------------- MODULE Destination -----------------------------
(***************************************************************************)
(* What the Mac promises as a scan destination, whatever the agents, the   *)
(* printer and the network do meanwhile: it has one server at a time, it   *)
(* passes from one server to the next only through having none, and a scan *)
(* lands only on the Desktop of a user who was the server when it was      *)
(* taken up.                                                               *)
(***************************************************************************)
CONSTANTS Users, NoUser

VARIABLES
    server,     \* the user whose agent is the destination, or NoUser
    busy,       \* the users whose agents are fetching a scan
    landed      \* the users on whose Desktop a scan has landed

vars == <<server, busy, landed>>

Init == server = NoUser /\ busy = {} /\ landed = {}

Claim(u) == server = NoUser /\ server' = u /\ UNCHANGED <<busy, landed>>

Release == server' = NoUser /\ UNCHANGED <<busy, landed>>

Accept(u) ==
    /\ server = u
    /\ busy' = busy \cup {u}
    /\ UNCHANGED <<server, landed>>

\* A scan is saved, or given up; nobody needs to be the server any more.
Land(u) ==
    /\ u \in busy
    /\ busy' = busy \ {u} /\ landed' = landed \cup {u}
    /\ UNCHANGED server

Drop(u) == u \in busy /\ busy' = busy \ {u} /\ UNCHANGED <<server, landed>>

\* An agent dies: as the server, with its scan, or both.
Die(u) ==
    /\ server' = (IF server = u THEN NoUser ELSE server)
    /\ busy' = busy \ {u}
    /\ UNCHANGED landed

Next ==
    \/ Release
    \/ \E u \in Users : Claim(u) \/ Accept(u) \/ Land(u) \/ Drop(u) \/ Die(u)

Spec == Init /\ [][Next]_vars
=============================================================================
