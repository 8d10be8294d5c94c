----------------------------- MODULE Transfer -------------------------------
(***************************************************************************)
(* What Download promises its caller about the pages in the feeder: they   *)
(* are taken over one at a time, in order and whole.  Only a scan that is  *)
(* stopped, or a printer that dies, cuts a page short, and nothing comes   *)
(* after such a page.  A transfer that ends well has every page, unless it *)
(* was stopped.                                                            *)
(***************************************************************************)
EXTENDS Naturals, Sequences

CONSTANT Feeders

VARIABLES
    feeder,     \* the pages to be scanned, each a sequence of strips
    taken,      \* the pages taken over so far
    stopped,    \* somebody pressed Stop
    dead,       \* the printer is gone
    outcome     \* "none" while the transfer runs, then "ok" or an error

vars == <<feeder, taken, stopped, dead, outcome>>

Init ==
    /\ feeder \in Feeders /\ taken = <<>>
    /\ stopped = FALSE /\ dead = FALSE /\ outcome = "none"

Take ==
    /\ outcome = "none"
    /\ Len(taken) < Len(feeder) /\ taken = SubSeq(feeder, 1, Len(taken))
    /\ LET page == feeder[Len(taken) + 1] IN
         \E n \in 1..Len(page) :
           /\ n = Len(page) \/ stopped \/ dead
           /\ taken' = Append(taken, SubSeq(page, 1, n))
    /\ UNCHANGED <<feeder, stopped, dead, outcome>>

Stop == stopped' = TRUE /\ UNCHANGED <<feeder, taken, dead, outcome>>
Die  == dead' = TRUE /\ UNCHANGED <<feeder, taken, stopped, outcome>>

Finish ==
    /\ outcome = "none"
    /\ \/ outcome' = "ok" /\ (taken = feeder \/ stopped)
       \/ outcome' \in {"io", "limit"}
    /\ UNCHANGED <<feeder, taken, stopped, dead>>

Next == Take \/ Stop \/ Die \/ Finish

Spec == Init /\ [][Next]_vars
=============================================================================
