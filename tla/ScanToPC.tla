------------------------------ MODULE ScanToPC ------------------------------
(***************************************************************************)
(* The samsung-scan daemon (cmd/samsung-scan/main.go with the HTTP and     *)
(* SNMP clients it calls) and the printer it serves.                       *)
(*                                                                         *)
(* Every user logged in on the Mac runs one agent, the loop of run().  All *)
(* agents send the same UserID and the same UniqueID (a hash of the host   *)
(* name), so the printer holds at most one Scan-to-PC entry for the Mac.   *)
(* An agent registers that entry while its user owns the console, polls    *)
(* the printer's state through the InstanceID it was given, announces its  *)
(* profile when the scan menu opens, and downloads what the user confirms. *)
(*                                                                         *)
(* A network exchange is one step: the agent blocks on it, and what it     *)
(* reads before the exchange may be stale after it.  pc[u] names the       *)
(* exchange agent u does next.                                             *)
(*                                                                         *)
(* Left out: logging and the registerFailures counter that throttles it,   *)
(* the resolution (it reaches only the TCP client's request, like the      *)
(* format), file names, and the bytes of a scan.                           *)
(***************************************************************************)
EXTENDS ScanToPCState

-----------------------------------------------------------------------------
(***************************************************************************)
(* Bugs the daemon does not have.  No action uses these operators: each is *)
(* an operator below with one plausible mistake in it, and put in its      *)
(* place it makes a property fail, which shows that the property can.      *)
(***************************************************************************)
\* Tripped: one failed poll too many is tolerated.
TrippedLate(failures) == failures > Threshold

\* Answers: every poll asks for the one OID of the Mac.
AnswersAnybody(u) == entry # 0

\* Reaction: Ready is acted on only when it is first seen.
ReactionReadyEdge(state, last) ==
    CASE state = "triggered" /\ last # "triggered" -> "applist"
      [] state = "ready" /\ last # "ready" -> "userselect"
      [] OTHER -> "select"

\* Reaction: the profile is announced only when the menu opens from Idle.
ReactionFromIdle(state, last) ==
    CASE state = "triggered" /\ last = "idle" -> "applist"
      [] state = "ready" -> "userselect"
      [] OTHER -> "select"

\* RegisterFails: the Result of the answer is not looked at, and
\* DUPLICATE_USER, which names the entry there is, passes for ADD_OK.
RegisterIgnoresResult(u) ==
    /\ pc[u] = "register"
    /\ Reachable /\ entry # 0
    /\ instanceID' = [instanceID EXCEPT ![u] = entry]
    /\ registered' = [registered EXCEPT ![u] = TRUE]
    /\ Goto(u, "select")
    /\ UNCHANGED <<lastState, consecutiveFailures, scan, macVars, panelVars,
                   networkVars, entry, nextID>>

\* Handover: the failed polls before it are still counted after it.
HandoverKeepsCount(u) ==
    /\ pc[u] = "handover"
    /\ Deregister
    /\ Unregister(u)
    /\ UNCHANGED <<instanceID, consecutiveFailures, scan, macVars, sel, power,
                   link, nextID>>

\* Handover: the printer is not told.
HandoverSilently(u) ==
    /\ pc[u] = "handover"
    /\ Unregister(u)
    /\ consecutiveFailures' = [consecutiveFailures EXCEPT ![u] = 0]
    /\ UNCHANGED <<instanceID, scan, macVars, panelVars, networkVars, entry,
                   nextID>>

\* Recover: the printer is not told.
RecoverSilently(u) ==
    /\ pc[u] = "recover"
    /\ Unregister(u)
    /\ UNCHANGED <<instanceID, consecutiveFailures, scan, macVars, panelVars,
                   networkVars, entry, nextID>>

\* UserSelectOurs: the file format is the advertised profile's.
UserSelectOfProfile(u) ==
    /\ pc[u] = "userselect" /\ Reachable /\ sel.ours
    /\ scan' = [scan EXCEPT ![u] =
                  TheScan([sel EXCEPT !.format = "PDF"], NoSelection, 0)]
    /\ Goto(u, "download")
    /\ UNCHANGED <<registered, instanceID, lastState, consecutiveFailures,
                   macVars, panelVars, networkVars, entry, nextID>>

-----------------------------------------------------------------------------
(***************************************************************************)
(* An agent's process.                                                     *)
(***************************************************************************)
\* launchd starts the agent (RunAtLoad, KeepAlive).
Launch(u) ==
    /\ pc[u] = "off"
    /\ Goto(u, "startup")
    /\ UNCHANGED <<registered, instanceID, lastState, consecutiveFailures,
                   scan, macVars, panelVars, networkVars, entry, nextID>>

\* The start of run(): clear a stale entry, then the locals.
Startup(u) ==
    /\ pc[u] = "startup"
    /\ Deregister
    /\ registered' = [registered EXCEPT ![u] = FALSE]
    /\ instanceID' = [instanceID EXCEPT ![u] = 0]
    /\ lastState' = [lastState EXCEPT ![u] = "idle"]
    /\ consecutiveFailures' = [consecutiveFailures EXCEPT ![u] = 0]
    /\ Goto(u, "select")
    /\ UNCHANGED <<scan, macVars, sel, power, link, nextID>>

\* A tick: isActive is sampled here, and the exchange that follows is chosen
\* by it.
TickRegister(u) ==
    /\ pc[u] = "select" /\ ~registered[u] /\ console = u
    /\ Goto(u, IF Guarded THEN "guard" ELSE "register")
    /\ UNCHANGED <<registered, instanceID, lastState, consecutiveFailures,
                   scan, macVars, panelVars, networkVars, entry, nextID>>

TickHandover(u) ==
    /\ pc[u] = "select" /\ registered[u] /\ console # u
    /\ Goto(u, "handover")
    /\ UNCHANGED <<registered, instanceID, lastState, consecutiveFailures,
                   scan, macVars, panelVars, networkVars, entry, nextID>>

TickPoll(u) ==
    /\ pc[u] = "select" /\ registered[u] /\ console = u
    /\ Goto(u, "poll")
    /\ UNCHANGED <<registered, instanceID, lastState, consecutiveFailures,
                   scan, macVars, panelVars, networkVars, entry, nextID>>

TickIdle(u) ==
    /\ pc[u] = "select" /\ ~registered[u] /\ console # u
    /\ UNCHANGED vars

\* The ARP guard.  A lookup that fails lets the registration go on, and so
\* does a match, which a cached answer may give for a printer that is gone;
\* no answer and a wrong answer (another network) end the tick.
LookupARP(u) ==
    /\ pc[u] = "guard"
    /\ \/ Goto(u, "register") /\ UNCHANGED faults
       \/ ~Reachable /\ Goto(u, "select") /\ UNCHANGED faults
       \/ Fault("loss") /\ Goto(u, "select")
    /\ UNCHANGED <<registered, instanceID, lastState, consecutiveFailures,
                   scan, macVars, panelVars, power, link, late, entry, nextID>>

\* httpclient.Register answered ADD_OK.
RegisterOK(u) ==
    /\ pc[u] = "register" /\ Reachable /\ entry = 0
    /\ entry' = nextID
    /\ nextID' = nextID + 1
    /\ instanceID' = [instanceID EXCEPT ![u] = nextID]
    /\ registered' = [registered EXCEPT ![u] = TRUE]
    /\ lastState' = [lastState EXCEPT ![u] = "idle"]
    /\ consecutiveFailures' = [consecutiveFailures EXCEPT ![u] = 0]
    /\ Goto(u, "applist")
    /\ UNCHANGED <<scan, macVars, panelVars, networkVars>>

\* httpclient.Register failed: DUPLICATE_USER while the printer holds an
\* entry for our UniqueID, no connection, or no answer in time.
RegisterFails(u) ==
    /\ pc[u] = "register"
    /\ \/ Reachable /\ entry # 0 /\ UNCHANGED <<late, faults>>
       \/ ~Reachable /\ UNCHANGED <<late, faults>>
       \/ Delayed("ADD")
    /\ Goto(u, "select")
    /\ UNCHANGED <<registered, instanceID, lastState, consecutiveFailures,
                   scan, macVars, panelVars, power, link, entry, nextID>>

\* httpclient.PostAppList, after a registration and on the triggered edge.
PostAppList(u) ==
    /\ pc[u] = "applist"
    /\ \/ Reachable /\ HandleAppList /\ UNCHANGED <<late, faults>>
       \/ ~Reachable /\ UNCHANGED <<available, late, faults>>
       \/ Delayed("APPLIST") /\ UNCHANGED available
    /\ Goto(u, "select")
    /\ UNCHANGED <<registered, instanceID, lastState, consecutiveFailures,
                   scan, macVars, menu, sel, power, link, entry, nextID>>

\* The user switched away: give the entry up.
Handover(u) ==
    /\ pc[u] = "handover"
    /\ Deregister
    /\ Unregister(u)
    /\ consecutiveFailures' = [consecutiveFailures EXCEPT ![u] = 0]
    /\ UNCHANGED <<instanceID, scan, macVars, sel, power, link, nextID>>

\* The printer has a value for the OID of agent u's InstanceID.
Answers(u) == entry # 0 /\ instanceID[u] = entry

\* What an agent does about a state it has polled: it announces the profile
\* when the menu has been opened, and fetches whenever a scan is ready.
Reaction(state, last) ==
    CASE state = "triggered" /\ last # "triggered" -> "applist"
      [] state = "ready" -> "userselect"
      [] OTHER -> "select"

\* snmp.Poll returned a state.  lastState takes it on every path from here.
PollAnswered(u) ==
    /\ pc[u] = "poll" /\ Reachable /\ Answers(u)
    /\ consecutiveFailures' = [consecutiveFailures EXCEPT ![u] = 0]
    /\ lastState' = [lastState EXCEPT ![u] = menu]
    /\ Goto(u, Reaction(menu, lastState[u]))
    /\ UNCHANGED <<registered, instanceID, scan, macVars, panelVars,
                   networkVars, entry, nextID>>

\* So many failed polls in a row end the registration.
Tripped(failures) == failures >= Threshold

\* snmp.Poll failed: no connection, a lost datagram, or no value for our OID.
PollFails(u) ==
    /\ pc[u] = "poll"
    /\ \/ ~(Reachable /\ Answers(u)) /\ UNCHANGED faults
       \/ Fault("loss")
    /\ consecutiveFailures' =
           [consecutiveFailures EXCEPT ![u] = consecutiveFailures[u] + 1]
    /\ Goto(u, IF Tripped(consecutiveFailures[u] + 1) THEN "recover" ELSE "select")
    /\ UNCHANGED <<registered, instanceID, lastState, scan, macVars, panelVars,
                   power, link, late, entry, nextID>>

\* Too many polls failed: clear the entry and fall back to registering.  The
\* failure count stays where it is.
Recover(u) ==
    /\ pc[u] = "recover"
    /\ Deregister
    /\ Unregister(u)
    /\ UNCHANGED <<instanceID, consecutiveFailures, scan, macVars, sel, power,
                   link, nextID>>

\* httpclient.GetUserSelect returned a selection of our AppIndex.
UserSelectOurs(u) ==
    /\ pc[u] = "userselect" /\ Reachable /\ sel.ours
    /\ scan' = [scan EXCEPT ![u] = TheScan(sel, NoSelection, 0)]
    /\ Goto(u, "download")
    /\ UNCHANGED <<registered, instanceID, lastState, consecutiveFailures,
                   macVars, panelVars, networkVars, entry, nextID>>

\* It failed, or the selection is for another AppIndex.
UserSelectSkipped(u) ==
    /\ pc[u] = "userselect"
    /\ \/ ~(Reachable /\ sel.ours) /\ UNCHANGED faults
       \/ Fault("loss")
    /\ Goto(u, "select")
    /\ UNCHANGED <<registered, instanceID, lastState, consecutiveFailures,
                   scan, macVars, panelVars, power, link, late, entry, nextID>>

\* tcp.Download returned n pages; no pages at all is a fault of the scan.
DownloadOK(u) ==
    /\ pc[u] = "download" /\ Reachable /\ menu = "ready"
    /\ \E n \in 0..MaxPages :
         /\ IF n = 0 THEN Fault("scan") ELSE UNCHANGED faults
         /\ scan' = [scan EXCEPT ![u] = TheScan(scan[u].read, sel, n)]
    /\ menu' = "idle" /\ available' = FALSE
    /\ Goto(u, "save")
    /\ UNCHANGED <<registered, instanceID, lastState, consecutiveFailures,
                   macVars, sel, power, link, late, entry, nextID>>

\* tcp.Download failed; the printer stays Ready or gives the scan up.
DownloadFails(u) ==
    /\ pc[u] = "download"
    /\ \/ ~(Reachable /\ menu = "ready") /\ UNCHANGED <<menu, available, faults>>
       \/ /\ Fault("scan")
          /\ \/ UNCHANGED <<menu, available>>
             \/ menu' = "idle" /\ available' = FALSE
    /\ scan' = [scan EXCEPT ![u] = NoScan]
    /\ Goto(u, "select")
    /\ UNCHANGED <<registered, instanceID, lastState, consecutiveFailures,
                   macVars, sel, power, link, late, entry, nextID>>

\* AssembleStrips, PagesToPDF or PageToJPEG, WriteFile.  A scan without pages
\* still makes a PDF; as a JPEG it panics and run()'s deferred call follows.
Save(u) ==
    /\ pc[u] = "save"
    /\ LET panics == scan[u].pages = 0 /\ scan[u].read.format = "JPEG" IN
         \/ /\ ~panics
            /\ saved' = [saved EXCEPT ![u] = @ \cup {scan[u].taken.by}]
            /\ Goto(u, "select") /\ UNCHANGED faults
         \/ ~panics /\ Fault("scan") /\ Goto(u, "select") /\ UNCHANGED saved
         \/ panics /\ Goto(u, "exit") /\ UNCHANGED <<saved, faults>>
    /\ scan' = [scan EXCEPT ![u] = NoScan]
    /\ UNCHANGED <<registered, instanceID, lastState, consecutiveFailures,
                   console, panelVars, power, link, late, entry, nextID>>

\* SIGTERM cancels the context, which only the select statement looks at.
Terminate(u) ==
    /\ pc[u] = "select" /\ Fault("term")
    /\ Goto(u, "exit")
    /\ UNCHANGED <<registered, instanceID, lastState, consecutiveFailures,
                   scan, macVars, panelVars, power, link, late, entry, nextID>>

\* run()'s deferred call, then the process is gone.
Exit(u) ==
    /\ pc[u] = "exit"
    /\ \/ registered[u] /\ Deregister
       \/ ~registered[u] /\ UNCHANGED <<entry, menu, available, late, faults>>
    /\ registered' = [registered EXCEPT ![u] = FALSE]
    /\ Goto(u, "off")
    /\ UNCHANGED <<instanceID, lastState, consecutiveFailures, scan, macVars,
                   sel, power, link, nextID>>

\* SIGKILL, or a crash, anywhere.  (instanceID is dead here; the model keeps
\* its value until Startup.)
Kill(u) ==
    /\ pc[u] # "off" /\ Fault("kill")
    /\ registered' = [registered EXCEPT ![u] = FALSE]
    /\ scan' = [scan EXCEPT ![u] = NoScan]
    /\ Goto(u, "off")
    /\ UNCHANGED <<instanceID, lastState, consecutiveFailures, macVars,
                   panelVars, power, link, late, entry, nextID>>

-----------------------------------------------------------------------------
(***************************************************************************)
(* The environment: the people, the printer's power and the network.       *)
(***************************************************************************)
SwitchConsole ==
    /\ Fault("switch")
    /\ \E u \in (Users \cup {NoUser}) \ {console} : console' = u
    /\ UNCHANGED <<agentVars, saved, panelVars, power, link, late, entry,
                   nextID>>

\* The Scan-to-PC table is in the printer's memory.  The counter behind the
\* InstanceIDs may or may not survive.
PowerOff ==
    /\ power /\ Fault("power")
    /\ power' = FALSE
    /\ entry' = 0 /\ menu' = "idle" /\ available' = FALSE
    /\ sel' = NoSelection /\ late' = {}
    /\ \/ UNCHANGED nextID
       \/ "idreset" \in Faults /\ nextID' = 1
    /\ UNCHANGED <<agentVars, macVars, link>>

PowerOn ==
    /\ ~power /\ power' = TRUE
    /\ UNCHANGED <<agentVars, macVars, panelVars, link, late, faults, entry,
                   nextID>>

\* The Mac leaves the printer's network; the printer keeps its table.
LinkDown ==
    /\ link /\ Fault("link") /\ link' = FALSE
    /\ UNCHANGED <<agentVars, macVars, panelVars, power, late, entry, nextID>>

LinkUp ==
    /\ ~link /\ link' = TRUE
    /\ UNCHANGED <<agentVars, macVars, panelVars, power, late, faults, entry,
                   nextID>>

\* The printer handles a request whose sender has given up.
LateADD ==
    /\ "ADD" \in late /\ late' = late \ {"ADD"}
    /\ \/ entry = 0 /\ entry' = nextID /\ nextID' = nextID + 1
       \/ entry # 0 /\ UNCHANGED <<entry, nextID>>
    /\ UNCHANGED <<agentVars, macVars, panelVars, power, link, faults>>

LateDELETE ==
    /\ "DELETE" \in late /\ late' = late \ {"DELETE"}
    /\ HandleDelete
    /\ UNCHANGED <<agentVars, macVars, sel, power, link, faults, nextID>>

LateAPPLIST ==
    /\ "APPLIST" \in late /\ late' = late \ {"APPLIST"}
    /\ HandleAppList
    /\ UNCHANGED <<agentVars, macVars, menu, sel, power, link, faults, entry,
                   nextID>>

\* Somebody at the LCD opens the scan menu, confirms the Mac, or leaves.
OpenMenu ==
    /\ power /\ entry # 0 /\ menu = "idle"
    /\ menu' = "triggered"
    /\ UNCHANGED <<agentVars, macVars, available, sel, networkVars, entry,
                   nextID>>

Confirm ==
    /\ power /\ menu = "triggered" /\ available
    /\ menu' = "ready"
    /\ \E ours \in BOOLEAN, format \in Formats :
         sel' = [ours |-> ours, format |-> format, by |-> console]
    /\ UNCHANGED <<agentVars, macVars, available, networkVars, entry, nextID>>

CloseMenu ==
    /\ menu # "idle"
    /\ menu' = "idle" /\ available' = FALSE
    /\ UNCHANGED <<agentVars, macVars, sel, networkVars, entry, nextID>>

\* Somebody on the Mac runs samsung-scan --cleanup: one DELETE with the
\* UniqueID of the agents, and the process is over.
Cleanup ==
    /\ "cleanup" \in Faults
    /\ \/ Reachable /\ Fault("cleanup") /\ HandleDelete /\ UNCHANGED late
       \/ Delayed("DELETE") /\ UNCHANGED <<entry, menu, available>>
    /\ UNCHANGED <<agentVars, macVars, sel, power, link, nextID>>

-----------------------------------------------------------------------------
Tick(u) == TickRegister(u) \/ TickHandover(u) \/ TickPoll(u) \/ TickIdle(u)
Register(u)   == RegisterOK(u) \/ RegisterFails(u)
Poll(u)       == PollAnswered(u) \/ PollFails(u)
UserSelect(u) == UserSelectOurs(u) \/ UserSelectSkipped(u)
Download(u)   == DownloadOK(u) \/ DownloadFails(u)

\* What agent u's process does by itself.
Agent(u) ==
    \/ Startup(u) \/ Tick(u) \/ LookupARP(u) \/ Register(u) \/ PostAppList(u)
    \/ Handover(u) \/ Poll(u) \/ Recover(u) \/ UserSelect(u) \/ Download(u)
    \/ Save(u) \/ Exit(u)

Network == PowerOff \/ PowerOn \/ LinkDown \/ LinkUp
           \/ LateADD \/ LateDELETE \/ LateAPPLIST
People  == SwitchConsole \/ OpenMenu \/ Confirm \/ CloseMenu \/ Cleanup

Next ==
    \/ \E u \in Users : Launch(u) \/ Agent(u) \/ Terminate(u) \/ Kill(u)
    \/ Network
    \/ People

Spec == Init /\ [][Next]_vars

\* An agent that runs keeps running (its ticker fires and every call it makes
\* has a timeout), launchd restarts one that ended, and a printer switched off
\* or out of reach comes back.  Nothing is assumed of people, faults or
\* delayed requests.
Fairness ==
    /\ \A u \in Users : WF_vars(Agent(u)) /\ WF_vars(Launch(u))
    /\ WF_vars(PowerOn) /\ WF_vars(LinkUp)

FairSpec == Spec /\ Fairness

-----------------------------------------------------------------------------
(***************************************************************************)
(* Properties.                                                             *)
(***************************************************************************)
Alive(u) == pc[u] \notin {"off", "startup"}

\* The printer's entry is the one agent u polls: the Mac is on the LCD and u
\* is who will fetch a scan.
Serves(u) == registered[u] /\ entry # 0 /\ instanceID[u] = entry

\* Exactly one scan target (main.go, header): never do two agents believe the
\* entry to be theirs, or both would fetch the same scan.
AtMostOneServing == \A u, v \in Users : Serves(u) /\ Serves(v) => u = v

\* The agents together are one destination: the server is the agent that
\* serves, an agent is busy from the poll that saw Ready to the end of the
\* download it led to, and a scan has landed once a Desktop holds a file.
Serving  == {u \in Users : Serves(u)}
OneOf(S) == IF S = {} THEN NoUser ELSE CHOOSE u \in S : TRUE
Server   == OneOf(Serving)

Busy   == {u \in Users : pc[u] \in {"userselect", "download", "save"}}
Landed == {u \in Users : saved[u] # {}}

D == INSTANCE Destination WITH server <- Server, busy <- Busy, landed <- Landed

\* The destination is never handed from one agent straight to another, and no
\* agent saves a scan it was not the server for when it took it up.
OneDestination == D!Spec

\* The failure count and the registration agree: a registered agent is below
\* the threshold unless it is about to give the registration up, and an agent
\* without one has either never failed or holds the count that tripped it,
\* which tells a recovery from a handover.
FailureCountConsistent ==
    \A u \in Users : Alive(u) =>
      /\ registered[u] => (consecutiveFailures[u] < Threshold <=> pc[u] # "recover")
      /\ ~registered[u] => consecutiveFailures[u] \in {0, Threshold}

\* As long as every request reaches the printer or the printer is off, an
\* entry in its table has an owner that will remove it: the agent that is
\* registered under it, or one that died and clears it when it starts.
NoOrphanEntry ==
    entry # 0 => \E u \in Users :
        instanceID[u] = entry /\ (registered[u] \/ ~Alive(u))

\* A scan is saved in the format its owner confirmed, although the format is
\* read in one exchange and the scan taken in another: a new selection needs
\* a new menu, and a menu only accepts one once the agent has announced.
SelectionFresh ==
    \A u \in Users : pc[u] = "save" => scan[u].read = scan[u].taken

\* "Scans always land on the active user's Desktop" (README, user switching).
OwnScan == \A u \in Users : saved[u] \subseteq {u}

\* The destination comes back by itself: whoever stays the console user ends
\* up serving and stays so, whatever happened before.
Recovers ==
    \A u \in Users : <>[](console = u) => <>[]Serves(u)

\* A confirmed scan does not stay on the printer: Ready is acted upon on every
\* poll until the printer leaves it, not only when it is first seen.
ReadyIsServed ==
    \A u \in Users :
      Serves(u) /\ menu = "ready" /\ sel.ours
        ~> menu # "ready" \/ ~Serves(u) \/ console # u

\* A menu the agent has not seen yet is announced to, so that the Mac becomes
\* Available, unless the menu is left first.
Announced ==
    \A u \in Users :
      Serves(u) /\ menu = "triggered" /\ lastState[u] # "triggered"
        ~> available \/ menu # "triggered" \/ ~Serves(u) \/ console # u
=============================================================================
