--------------------------- MODULE ScanToPCState ----------------------------
(***************************************************************************)
(* The state of the samsung-scan daemon and of the printer it serves, and  *)
(* what the printer does with the requests the daemon sends it.  Module    *)
(* ScanToPC holds the actions and the properties.                          *)
(***************************************************************************)
EXTENDS Naturals, FiniteSets

CONSTANTS
    Users,          \* users logged in on the Mac, one agent each
    NoUser,         \* nobody: the login window owns the console
    Threshold,      \* reRegisterAfterFailures
    Guarded,        \* TRUE when --enable-network-guard is in force
    Formats,        \* the file formats the LCD offers
    MaxPages,       \* bound on the pages of one scan
    Faults,         \* the kinds of fault the environment may produce
    MaxFaults       \* bound on how many faults one behaviour has

FaultKinds == {"switch", "power", "idreset", "link", "late", "loss", "scan",
               "kill", "term", "cleanup"}

ASSUME NoUserAssumption    == NoUser \notin Users
ASSUME ThresholdAssumption == Threshold \in Nat \ {0}
ASSUME BoundsAssumption    == MaxPages \in Nat /\ MaxFaults \in Nat
ASSUME GuardedAssumption   == Guarded \in BOOLEAN
ASSUME FormatsAssumption   == "PDF" \in Formats /\ Formats \subseteq {"PDF", "JPEG"}
ASSUME FaultsAssumption    == Faults \subseteq FaultKinds

VARIABLES
    \* The agents, run()'s locals.
    pc,                     \* where in the loop agent u is
    registered,             \* registered
    instanceID,             \* instanceID, 0 before the first registration
    lastState,              \* lastState
    consecutiveFailures,    \* consecutiveFailures
    scan,                   \* the scan agent u is fetching
    \* The Mac.
    console,                \* the user who owns /dev/console
    saved,                  \* saved[u]: whose scans lie on u's Desktop
    \* The printer and the network.
    power, link,            \* is it on, is it on the Mac's network
    entry,                  \* InstanceID of the Mac's entry, 0 when none
    nextID,                 \* the InstanceID the next ADD gets
    menu,                   \* the state the OID of the entry reports
    available,              \* the LCD shows the Mac as Available
    sel,                    \* what UserSelect.xml reports
    late,                   \* requests whose sender gave up waiting
    faults                  \* how many faults have happened

agentVars   == <<pc, registered, instanceID, lastState, consecutiveFailures,
                 scan>>
macVars     == <<console, saved>>
panelVars   == <<menu, available, sel>>
networkVars == <<power, link, late, faults>>
vars        == <<agentVars, macVars, panelVars, networkVars, entry, nextID>>

-----------------------------------------------------------------------------
(***************************************************************************)
(* States.                                                                 *)
(***************************************************************************)
\* snmp.Idle, snmp.Triggered, snmp.Ready
States == {"idle", "triggered", "ready"}

\* S2PC_Select: whether its AppIndex is ours, its file format, and, as a
\* history of the model, the user who confirmed it on the LCD.
Selection   == [ours : BOOLEAN, format : Formats, by : Users \cup {NoUser}]
NoSelection == [ours |-> FALSE, format |-> "PDF", by |-> NoUser]

\* A scan in flight: the selection read from UserSelect.xml, the selection
\* that was in force when the pages were taken, and their number.
Scan   == [read : Selection, taken : Selection, pages : 0..MaxPages]
TheScan(read, taken, pages) ==
    [read |-> read, taken |-> taken, pages |-> pages]
NoScan == TheScan(NoSelection, NoSelection, 0)

Labels == {"off", "startup", "select", "guard", "register", "applist",
           "handover", "poll", "recover", "userselect", "download", "save",
           "exit"}
Requests == {"ADD", "DELETE", "APPLIST"}

AgentTypeOK ==
    /\ pc \in [Users -> Labels]
    /\ registered \in [Users -> BOOLEAN]
    /\ instanceID \in [Users -> Nat]
    /\ lastState \in [Users -> States]
    /\ consecutiveFailures \in [Users -> 0..Threshold]
    /\ scan \in [Users -> Scan]

MacTypeOK ==
    /\ console \in Users \cup {NoUser}
    /\ saved \in [Users -> SUBSET (Users \cup {NoUser})]

PrinterTypeOK ==
    /\ entry \in Nat /\ nextID \in Nat \ {0}
    /\ menu \in States /\ sel \in Selection
    /\ late \subseteq Requests
    /\ faults \in 0..MaxFaults

FlagsOK == power \in BOOLEAN /\ link \in BOOLEAN /\ available \in BOOLEAN

TypeOK == AgentTypeOK /\ MacTypeOK /\ PrinterTypeOK /\ FlagsOK

Init ==
    /\ pc = [u \in Users |-> "off"]
    /\ registered = [u \in Users |-> FALSE]
    /\ instanceID = [u \in Users |-> 0]
    /\ lastState = [u \in Users |-> "idle"]
    /\ consecutiveFailures = [u \in Users |-> 0]
    /\ scan = [u \in Users |-> NoScan]
    /\ console \in Users
    /\ saved = [u \in Users |-> {}]
    /\ power = TRUE /\ link = TRUE
    /\ entry = 0 /\ nextID = 1
    /\ menu = "idle" /\ available = FALSE /\ sel = NoSelection
    /\ late = {}
    /\ faults = 0

-----------------------------------------------------------------------------
(***************************************************************************)
(* The printer, as the daemon's requests find it.                          *)
(***************************************************************************)
Reachable == power /\ link

\* A fault of kind k happens.
Fault(k) == k \in Faults /\ faults < MaxFaults /\ faults' = faults + 1

\* The sender of request r gives up before the answer comes; the printer may
\* handle r at any later time, or never.  At most one request of each kind is
\* under way like this.
Delayed(r) ==
    Reachable /\ Fault("late") /\ r \notin late /\ late' = late \cup {r}

\* The printer handles S2PC_Regi DELETE: the entry and its menu go.
HandleDelete ==
    entry' = 0 /\ menu' = "idle" /\ available' = FALSE

\* The printer handles S2PC_AppList, which it ignores outside the menu.
HandleAppList ==
    available' = (available \/ (entry # 0 /\ menu = "triggered"))

\* httpclient.Deregister.  Every caller goes on the same way whatever the
\* outcome.
Deregister ==
    \/ Reachable /\ HandleDelete /\ UNCHANGED <<late, faults>>
    \/ ~Reachable /\ UNCHANGED <<entry, menu, available, late, faults>>
    \/ Delayed("DELETE") /\ UNCHANGED <<entry, menu, available>>

\* Agent u goes on at label.
Goto(u, label) == pc' = [pc EXCEPT ![u] = label]

\* Agent u no longer counts as registered; the tick ends.
Unregister(u) ==
    /\ registered' = [registered EXCEPT ![u] = FALSE]
    /\ lastState' = [lastState EXCEPT ![u] = "idle"]
    /\ Goto(u, "select")
=============================================================================
