--------------------------- MODULE ScanToPCProofs ---------------------------
(***************************************************************************)
(* Theorems about ScanToPC, for any number of users, any threshold and any *)
(* number and mixture of faults unless a theorem says otherwise.           *)
(***************************************************************************)
EXTENDS ScanToPC, TLAPS

(***************************************************************************)
(* Type correctness, with the failure count.                               *)
(***************************************************************************)

\* Where an agent can be in the loop, given its registration.
Control ==
    \A u \in Users :
      /\ registered[u] => pc[u] \notin {"off", "startup", "guard", "register"}
      /\ ~registered[u] => pc[u] \notin {"applist", "handover", "poll",
                             "recover", "userselect", "download", "save"}

\* The count is a type question too: it stays in 0..Threshold only because an
\* agent that polls is below the threshold.
AgentInv == TypeOK /\ Control /\ FailureCountConsistent

LEMMA SelectionTypes == NoSelection \in Selection /\ NoScan \in Scan
BY FormatsAssumption, BoundsAssumption
DEF NoSelection, Selection, NoScan, TheScan, Scan

LEMMA ScanTypes ==
  ASSUME NEW read \in Selection, NEW taken \in Selection,
         NEW n \in 0..MaxPages
  PROVE  TheScan(read, taken, n) \in Scan
BY DEF TheScan, Scan

LEMMA ScanFields ==
  ASSUME NEW s \in Scan
  PROVE  s.read \in Selection /\ s.taken \in Selection /\ s.pages \in 0..MaxPages
BY DEF Scan

LEMMA FaultTypes ==
  ASSUME PrinterTypeOK, NEW k, Fault(k)
  PROVE  faults' \in 0..MaxFaults
BY BoundsAssumption DEF PrinterTypeOK, Fault

LEMMA DelayedTypes ==
  ASSUME PrinterTypeOK, NEW r \in Requests, Delayed(r)
  PROVE  late' \subseteq Requests /\ faults' \in 0..MaxFaults
BY FaultTypes DEF PrinterTypeOK, Delayed

\* What a Deregister can do to the variables it may change.
LEMMA DeregisterTypes ==
  ASSUME PrinterTypeOK, Deregister
  PROVE  /\ entry' \in Nat /\ menu' \in States
         /\ late' \subseteq Requests /\ faults' \in 0..MaxFaults
<1>1. CASE Reachable /\ HandleDelete /\ UNCHANGED <<late, faults>>
  BY <1>1 DEF HandleDelete, PrinterTypeOK, States
<1>2. CASE ~Reachable /\ UNCHANGED <<entry, menu, available, late, faults>>
  BY <1>2 DEF PrinterTypeOK
<1>3. CASE Delayed("DELETE") /\ UNCHANGED <<entry, menu, available>>
  BY <1>3, DelayedTypes DEF PrinterTypeOK, Requests
<1> QED BY <1>1, <1>2, <1>3 DEF Deregister

LEMMA DeregisterFlags ==
  ASSUME FlagsOK, Deregister
  PROVE  available' \in BOOLEAN
BY DEF FlagsOK, Deregister, HandleDelete

LEMMA AgentInvInit == Init => AgentInv
<1> SUFFICES ASSUME Init PROVE AgentInv
  OBVIOUS
<1>1. TypeOK
  <2>1. AgentTypeOK
    BY SelectionTypes, ThresholdAssumption DEF Init, AgentTypeOK, Labels, States
  <2>2. MacTypeOK
    BY DEF Init, MacTypeOK
  <2>3. PrinterTypeOK
    BY SelectionTypes, BoundsAssumption DEF Init, PrinterTypeOK, States
  <2>4. FlagsOK
    BY DEF Init, FlagsOK
  <2> QED BY <2>1, <2>2, <2>3, <2>4 DEF TypeOK
<1>2. Control /\ FailureCountConsistent
  BY DEF Init, Control, FailureCountConsistent, Alive
<1> QED BY <1>1, <1>2 DEF AgentInv

\* The steps of an agent that change neither its count nor its registration
\* and say nothing of a scan.
LEMMA AgentInvLocal ==
  ASSUME AgentInv, NEW u \in Users,
         \/ Launch(u) \/ Tick(u) \/ LookupARP(u) \/ RegisterFails(u)
         \/ PostAppList(u) \/ Terminate(u)
  PROVE  AgentInv'
<1> USE ThresholdAssumption, BoundsAssumption DEF AgentInv
<1>1. CASE Launch(u)
  <2>1. AgentTypeOK' /\ MacTypeOK' /\ PrinterTypeOK'
    BY <1>1
    DEF Launch, Goto, TypeOK, AgentTypeOK, MacTypeOK, PrinterTypeOK, Labels,
       macVars, panelVars, networkVars
  <2>2. FlagsOK'
    BY <1>1 DEF Launch, TypeOK, macVars, panelVars, networkVars, FlagsOK
  <2>3. Control' /\ FailureCountConsistent'
    BY <1>1
    DEF Launch, Goto, TypeOK, AgentTypeOK, Control, FailureCountConsistent,
       Alive
  <2> QED BY <2>1, <2>2, <2>3 DEF TypeOK
<1>2. CASE TickRegister(u)
  <2>1. AgentTypeOK' /\ MacTypeOK' /\ PrinterTypeOK'
    BY <1>2
    DEF TickRegister, Goto, TypeOK, AgentTypeOK, MacTypeOK, PrinterTypeOK,
       Labels, macVars, panelVars, networkVars
  <2>2. FlagsOK'
    BY <1>2 DEF TickRegister, TypeOK, macVars, panelVars, networkVars, FlagsOK
  <2>3. Control' /\ FailureCountConsistent'
    BY <1>2
    DEF TickRegister, Goto, TypeOK, AgentTypeOK, Control,
       FailureCountConsistent, Alive
  <2> QED BY <2>1, <2>2, <2>3 DEF TypeOK
<1>3. CASE TickHandover(u)
  <2>1. AgentTypeOK' /\ MacTypeOK' /\ PrinterTypeOK'
    BY <1>3
    DEF TickHandover, Goto, TypeOK, AgentTypeOK, MacTypeOK, PrinterTypeOK,
       Labels, macVars, panelVars, networkVars
  <2>2. FlagsOK'
    BY <1>3 DEF TickHandover, TypeOK, macVars, panelVars, networkVars, FlagsOK
  <2>3. Control' /\ FailureCountConsistent'
    BY <1>3
    DEF TickHandover, Goto, TypeOK, AgentTypeOK, Control,
       FailureCountConsistent, Alive
  <2> QED BY <2>1, <2>2, <2>3 DEF TypeOK
<1>4. CASE TickPoll(u)
  <2>1. AgentTypeOK' /\ MacTypeOK' /\ PrinterTypeOK'
    BY <1>4
    DEF TickPoll, Goto, TypeOK, AgentTypeOK, MacTypeOK, PrinterTypeOK, Labels,
       macVars, panelVars, networkVars
  <2>2. FlagsOK'
    BY <1>4 DEF TickPoll, TypeOK, macVars, panelVars, networkVars, FlagsOK
  <2>3. Control' /\ FailureCountConsistent'
    BY <1>4
    DEF TickPoll, Goto, TypeOK, AgentTypeOK, Control, FailureCountConsistent,
       Alive
  <2> QED BY <2>1, <2>2, <2>3 DEF TypeOK
<1>5. CASE LookupARP(u)
  <2>1. AgentTypeOK' /\ MacTypeOK' /\ PrinterTypeOK'
    BY <1>5, FaultTypes
    DEF LookupARP, Goto, TypeOK, AgentTypeOK, MacTypeOK, PrinterTypeOK,
       Labels, macVars, panelVars
  <2>2. FlagsOK'
    BY <1>5 DEF LookupARP, TypeOK, macVars, panelVars, FlagsOK
  <2>3. Control' /\ FailureCountConsistent'
    BY <1>5
    DEF LookupARP, Goto, TypeOK, AgentTypeOK, Control, FailureCountConsistent,
       Alive
  <2> QED BY <2>1, <2>2, <2>3 DEF TypeOK
<1>6. CASE RegisterFails(u)
  <2>1. AgentTypeOK' /\ MacTypeOK' /\ PrinterTypeOK'
    BY <1>6, DelayedTypes
    DEF RegisterFails, Goto, TypeOK, AgentTypeOK, MacTypeOK, PrinterTypeOK,
       Labels, Requests, macVars, panelVars
  <2>2. FlagsOK'
    BY <1>6 DEF RegisterFails, TypeOK, macVars, panelVars, FlagsOK
  <2>3. Control' /\ FailureCountConsistent'
    BY <1>6
    DEF RegisterFails, Goto, TypeOK, AgentTypeOK, Control,
       FailureCountConsistent, Alive
  <2> QED BY <2>1, <2>2, <2>3 DEF TypeOK
<1>7. CASE PostAppList(u)
  <2>1. AgentTypeOK' /\ MacTypeOK' /\ PrinterTypeOK'
    BY <1>7, DelayedTypes
    DEF PostAppList, Goto, TypeOK, AgentTypeOK, MacTypeOK, PrinterTypeOK,
       Labels, Requests, HandleAppList, macVars
  <2>2. FlagsOK'
    BY <1>7 DEF PostAppList, TypeOK, macVars, FlagsOK, HandleAppList
  <2>3. Control' /\ FailureCountConsistent'
    BY <1>7
    DEF PostAppList, Goto, TypeOK, AgentTypeOK, Control,
       FailureCountConsistent, Alive
  <2> QED BY <2>1, <2>2, <2>3 DEF TypeOK
<1>8. CASE Terminate(u)
  <2>1. AgentTypeOK' /\ MacTypeOK' /\ PrinterTypeOK'
    BY <1>8, FaultTypes
    DEF Terminate, Goto, TypeOK, AgentTypeOK, MacTypeOK, PrinterTypeOK,
       Labels, macVars, panelVars
  <2>2. FlagsOK'
    BY <1>8 DEF Terminate, TypeOK, macVars, panelVars, FlagsOK
  <2>3. Control' /\ FailureCountConsistent'
    BY <1>8
    DEF Terminate, Goto, TypeOK, AgentTypeOK, Control, FailureCountConsistent,
       Alive
  <2> QED BY <2>1, <2>2, <2>3 DEF TypeOK
<1>9. CASE TickIdle(u)
  BY <1>9 DEF TickIdle, TypeOK, AgentTypeOK, MacTypeOK, PrinterTypeOK, FlagsOK, Control,
     FailureCountConsistent, Alive, vars, agentVars, macVars, panelVars,
     networkVars
<1> QED BY <1>1, <1>2, <1>3, <1>4, <1>5, <1>6, <1>7, <1>8, <1>9 DEF Tick

\* The steps that begin or end a registration.
LEMMA AgentInvRegistration ==
  ASSUME AgentInv, NEW u \in Users,
         \/ Startup(u) \/ RegisterOK(u) \/ Handover(u) \/ Recover(u) \/ Exit(u)
         \/ Kill(u)
  PROVE  AgentInv'
<1> USE ThresholdAssumption, BoundsAssumption DEF AgentInv
<1>1. CASE Startup(u)
  <2>1. AgentTypeOK' /\ MacTypeOK' /\ PrinterTypeOK'
    BY <1>1, DeregisterTypes
    DEF Startup, Goto, TypeOK, AgentTypeOK, MacTypeOK, PrinterTypeOK, Labels,
       States, macVars
  <2>2. FlagsOK'
    BY <1>1, DeregisterFlags DEF Startup, TypeOK, macVars, FlagsOK
  <2>3. Control' /\ FailureCountConsistent'
    BY <1>1
    DEF Startup, Goto, TypeOK, AgentTypeOK, Control, FailureCountConsistent,
       Alive
  <2> QED BY <2>1, <2>2, <2>3 DEF TypeOK
<1>2. CASE RegisterOK(u)
  <2>1. AgentTypeOK' /\ MacTypeOK' /\ PrinterTypeOK'
    BY <1>2
    DEF RegisterOK, Goto, TypeOK, AgentTypeOK, MacTypeOK, PrinterTypeOK,
       Labels, States, macVars, panelVars, networkVars
  <2>2. FlagsOK'
    BY <1>2 DEF RegisterOK, TypeOK, macVars, panelVars, networkVars, FlagsOK
  <2>3. Control' /\ FailureCountConsistent'
    BY <1>2
    DEF RegisterOK, Goto, TypeOK, AgentTypeOK, Control,
       FailureCountConsistent, Alive
  <2> QED BY <2>1, <2>2, <2>3 DEF TypeOK
<1>3. CASE Handover(u)
  <2>1. AgentTypeOK' /\ MacTypeOK' /\ PrinterTypeOK'
    BY <1>3, DeregisterTypes
    DEF Handover, Unregister, Goto, TypeOK, AgentTypeOK, MacTypeOK, PrinterTypeOK, Labels,
       States, macVars
  <2>2. FlagsOK'
    BY <1>3, DeregisterFlags DEF Handover, TypeOK, macVars, FlagsOK
  <2>3. Control' /\ FailureCountConsistent'
    BY <1>3
    DEF Handover, Unregister, Goto, TypeOK, AgentTypeOK, Control, FailureCountConsistent,
       Alive
  <2> QED BY <2>1, <2>2, <2>3 DEF TypeOK
<1>4. CASE Recover(u)
  <2>1. AgentTypeOK' /\ MacTypeOK' /\ PrinterTypeOK'
    BY <1>4, DeregisterTypes
    DEF Recover, Unregister, Goto, TypeOK, AgentTypeOK, MacTypeOK, PrinterTypeOK, Labels,
       States, macVars
  <2>2. FlagsOK'
    BY <1>4, DeregisterFlags DEF Recover, TypeOK, macVars, FlagsOK
  <2>3. Control' /\ FailureCountConsistent'
    BY <1>4
    DEF Recover, Unregister, Goto, TypeOK, AgentTypeOK, Control, FailureCountConsistent,
       Alive
  <2> QED BY <2>1, <2>2, <2>3 DEF TypeOK
<1>5. CASE Exit(u)
  <2>1. AgentTypeOK' /\ MacTypeOK' /\ PrinterTypeOK'
    BY <1>5, DeregisterTypes
    DEF Exit, Goto, TypeOK, AgentTypeOK, MacTypeOK, PrinterTypeOK, Labels,
       macVars
  <2>2. FlagsOK'
    BY <1>5, DeregisterFlags DEF Exit, TypeOK, macVars, FlagsOK
  <2>3. Control' /\ FailureCountConsistent'
    BY <1>5
    DEF Exit, Goto, TypeOK, AgentTypeOK, Control, FailureCountConsistent,
       Alive
  <2> QED BY <2>1, <2>2, <2>3 DEF TypeOK
<1>6. CASE Kill(u)
  <2>1. AgentTypeOK' /\ MacTypeOK' /\ PrinterTypeOK'
    BY <1>6, FaultTypes, SelectionTypes
    DEF Kill, Goto, TypeOK, AgentTypeOK, MacTypeOK, PrinterTypeOK, Labels,
       macVars, panelVars
  <2>2. FlagsOK'
    BY <1>6 DEF Kill, TypeOK, macVars, panelVars, FlagsOK
  <2>3. Control' /\ FailureCountConsistent'
    BY <1>6
    DEF Kill, Goto, TypeOK, AgentTypeOK, Control, FailureCountConsistent,
       Alive
  <2> QED BY <2>1, <2>2, <2>3 DEF TypeOK
<1> QED BY <1>1, <1>2, <1>3, <1>4, <1>5, <1>6

\* The exchanges about a menu and a scan.
LEMMA AgentInvScan ==
  ASSUME AgentInv, NEW u \in Users,
         Poll(u) \/ UserSelect(u) \/ Download(u) \/ Save(u)
  PROVE  AgentInv'
<1> USE ThresholdAssumption, BoundsAssumption DEF AgentInv
<1>1. CASE PollAnswered(u)
  <2>1. AgentTypeOK' /\ MacTypeOK' /\ PrinterTypeOK'
    BY <1>1
    DEF PollAnswered, Reaction, Goto, TypeOK, AgentTypeOK, MacTypeOK, PrinterTypeOK,
       Labels, macVars, panelVars, networkVars
  <2>2. FlagsOK'
    BY <1>1 DEF PollAnswered, TypeOK, macVars, panelVars, networkVars, FlagsOK
  <2>3. Control' /\ FailureCountConsistent'
    BY <1>1
    DEF PollAnswered, Reaction, Goto, TypeOK, AgentTypeOK, Control,
       FailureCountConsistent, Alive
  <2> QED BY <2>1, <2>2, <2>3 DEF TypeOK
<1>2. CASE PollFails(u)
  <2>1. AgentTypeOK' /\ MacTypeOK' /\ PrinterTypeOK'
    BY <1>2, FaultTypes
    DEF PollFails, Goto, TypeOK, AgentTypeOK, MacTypeOK, PrinterTypeOK,
       Labels, Tripped, Control, FailureCountConsistent, Alive, macVars,
       panelVars
  <2>2. FlagsOK'
    BY <1>2 DEF PollFails, TypeOK, macVars, panelVars, FlagsOK
  <2>3. Control' /\ FailureCountConsistent'
    BY <1>2
    DEF PollFails, Goto, TypeOK, AgentTypeOK, Control, FailureCountConsistent,
       Alive, Tripped
  <2> QED BY <2>1, <2>2, <2>3 DEF TypeOK
<1>3. CASE UserSelectOurs(u)
  <2>1. AgentTypeOK' /\ MacTypeOK' /\ PrinterTypeOK'
    BY <1>3, ScanTypes, SelectionTypes
    DEF UserSelectOurs, Goto, TypeOK, AgentTypeOK, MacTypeOK, PrinterTypeOK,
       Labels, macVars, panelVars, networkVars
  <2>2. FlagsOK'
    BY <1>3 DEF UserSelectOurs, TypeOK, macVars, panelVars, networkVars,
       FlagsOK
  <2>3. Control' /\ FailureCountConsistent'
    BY <1>3
    DEF UserSelectOurs, Goto, TypeOK, AgentTypeOK, Control,
       FailureCountConsistent, Alive
  <2> QED BY <2>1, <2>2, <2>3 DEF TypeOK
<1>4. CASE UserSelectSkipped(u)
  <2>1. AgentTypeOK' /\ MacTypeOK' /\ PrinterTypeOK'
    BY <1>4, FaultTypes
    DEF UserSelectSkipped, Goto, TypeOK, AgentTypeOK, MacTypeOK,
       PrinterTypeOK, Labels, macVars, panelVars
  <2>2. FlagsOK'
    BY <1>4 DEF UserSelectSkipped, TypeOK, macVars, panelVars, FlagsOK
  <2>3. Control' /\ FailureCountConsistent'
    BY <1>4
    DEF UserSelectSkipped, Goto, TypeOK, AgentTypeOK, Control,
       FailureCountConsistent, Alive
  <2> QED BY <2>1, <2>2, <2>3 DEF TypeOK
<1>5. CASE DownloadOK(u)
  <2>1. AgentTypeOK'
    <3>1. PICK n \in 0..MaxPages :
            scan' = [scan EXCEPT ![u] = TheScan(scan[u].read, sel, n)]
      BY <1>5 DEF DownloadOK
    <3>2. TheScan(scan[u].read, sel, n) \in Scan
      BY ScanTypes, ScanFields DEF TypeOK, AgentTypeOK, PrinterTypeOK
    <3> QED BY <1>5, <3>1, <3>2
        DEF DownloadOK, Goto, TypeOK, AgentTypeOK, Labels
  <2>2. MacTypeOK'
    BY <1>5 DEF DownloadOK, TypeOK, MacTypeOK, macVars
  <2>3. PrinterTypeOK'
    BY <1>5, FaultTypes DEF DownloadOK, TypeOK, PrinterTypeOK, States
  <2>4. FlagsOK'
    BY <1>5 DEF DownloadOK, TypeOK, FlagsOK, panelVars
  <2>5. Control' /\ FailureCountConsistent'
    BY <1>5
    DEF DownloadOK, Goto, TypeOK, AgentTypeOK, Control, FailureCountConsistent,
       Alive
  <2> QED BY <2>1, <2>2, <2>3, <2>4, <2>5 DEF TypeOK
<1>6. CASE DownloadFails(u)
  <2>1. AgentTypeOK' /\ MacTypeOK' /\ PrinterTypeOK'
    BY <1>6, FaultTypes, SelectionTypes
    DEF DownloadFails, Goto, TypeOK, AgentTypeOK, MacTypeOK, PrinterTypeOK,
       Labels, States, macVars
  <2>2. FlagsOK'
    BY <1>6 DEF DownloadFails, TypeOK, macVars, FlagsOK
  <2>3. Control' /\ FailureCountConsistent'
    BY <1>6
    DEF DownloadFails, Goto, TypeOK, AgentTypeOK, Control,
       FailureCountConsistent, Alive
  <2> QED BY <2>1, <2>2, <2>3 DEF TypeOK
<1>7. CASE Save(u)
  <2>1. AgentTypeOK'
    BY <1>7, SelectionTypes DEF Save, Goto, TypeOK, AgentTypeOK, Labels
  <2>2. MacTypeOK'
    <3>1. scan[u].taken.by \in Users \cup {NoUser}
      BY ScanFields DEF TypeOK, AgentTypeOK, Selection
    <3> QED BY <1>7, <3>1 DEF Save, TypeOK, MacTypeOK
  <2>3. PrinterTypeOK'
    BY <1>7, FaultTypes DEF Save, TypeOK, PrinterTypeOK, panelVars
  <2>4. FlagsOK'
    BY <1>7 DEF Save, TypeOK, FlagsOK, panelVars
  <2>5. Control' /\ FailureCountConsistent'
    BY <1>7
    DEF Save, Goto, TypeOK, AgentTypeOK, Control, FailureCountConsistent,
       Alive
  <2> QED BY <2>1, <2>2, <2>3, <2>4, <2>5 DEF TypeOK
<1> QED BY <1>1, <1>2, <1>3, <1>4, <1>5, <1>6, <1>7 DEF Poll, UserSelect, Download

\* The environment leaves the agents alone.
LEMMA AgentInvEnvironment ==
  ASSUME AgentInv, Network \/ People
  PROVE  AgentInv'
<1> USE DEF AgentInv, TypeOK, AgentTypeOK, MacTypeOK, PrinterTypeOK, FlagsOK,
      agentVars, macVars, panelVars, networkVars
<1>1. (Control /\ FailureCountConsistent /\ AgentTypeOK)'
  BY DEF Network, PowerOff, PowerOn, LinkDown, LinkUp, LateADD, LateDELETE,
     LateAPPLIST, People, SwitchConsole, OpenMenu, Confirm, CloseMenu, Cleanup,
     Control, FailureCountConsistent, Alive
<1>2. CASE Network
  <2>1. CASE PowerOff
    <3>1. MacTypeOK' /\ PrinterTypeOK'
      BY <2>1, SelectionTypes, FaultTypes DEF PowerOff, States
    <3>2. FlagsOK'
      BY <2>1 DEF PowerOff
    <3> QED BY <1>1, <3>1, <3>2
  <2>2. CASE PowerOn \/ LinkUp \/ LinkDown
    BY <1>1, <2>2, FaultTypes DEF PowerOn, LinkUp, LinkDown
  <2>3. CASE LateADD \/ LateDELETE \/ LateAPPLIST
    <3>1. MacTypeOK' /\ PrinterTypeOK'
      BY <2>3 DEF LateADD, LateDELETE, LateAPPLIST, HandleDelete, States
    <3>2. FlagsOK'
      BY <2>3
      DEF LateADD, LateDELETE, LateAPPLIST, HandleDelete, HandleAppList
    <3> QED BY <1>1, <3>1, <3>2
  <2> QED BY <1>2, <2>1, <2>2, <2>3 DEF Network
<1>3. CASE People
  <2>1. CASE SwitchConsole
    BY <1>1, <2>1, FaultTypes DEF SwitchConsole
  <2>2. CASE OpenMenu \/ CloseMenu
    BY <1>1, <2>2 DEF OpenMenu, CloseMenu, States
  <2>3. CASE Confirm
    BY <1>1, <2>3 DEF Confirm, States, Selection
  <2>4. CASE Cleanup
    <3>1. MacTypeOK' /\ FlagsOK'
      BY <2>4 DEF Cleanup, HandleDelete
    <3>2. PrinterTypeOK'
      <4>1. CASE Fault("cleanup") /\ HandleDelete /\ UNCHANGED late
        BY <2>4, <4>1, FaultTypes DEF Cleanup, HandleDelete, States
      <4>2. CASE Delayed("DELETE") /\ UNCHANGED <<entry, menu, available>>
        BY <2>4, <4>2, DelayedTypes DEF Cleanup, Requests
      <4> QED BY <2>4, <4>1, <4>2 DEF Cleanup
    <3> QED BY <1>1, <3>1, <3>2
  <2> QED BY <1>3, <2>1, <2>2, <2>3, <2>4 DEF People
<1> QED BY <1>2, <1>3

LEMMA AgentInvNext == AgentInv /\ [Next]_vars => AgentInv'
<1> SUFFICES ASSUME AgentInv, [Next]_vars PROVE AgentInv'
  OBVIOUS
<1>1. CASE UNCHANGED vars
  BY <1>1 DEF AgentInv, TypeOK, AgentTypeOK, MacTypeOK, PrinterTypeOK, FlagsOK, Control,
     FailureCountConsistent, Alive, vars, agentVars, macVars, panelVars,
     networkVars
<1>2. ASSUME NEW u \in Users, Launch(u) \/ Agent(u) \/ Terminate(u) \/ Kill(u)
      PROVE  AgentInv'
  BY <1>2, AgentInvLocal, AgentInvRegistration, AgentInvScan
  DEF Agent, Register
<1>3. CASE Network \/ People
  BY <1>3, AgentInvEnvironment
<1> QED BY <1>1, <1>2, <1>3 DEF Next

LEMMA AgentInvariant == Spec => []AgentInv
BY AgentInvInit, AgentInvNext, PTL DEF Spec

\* Every variable keeps its type.
THEOREM TypeCorrect == Spec => []TypeOK
<1>1. AgentInv => TypeOK
  BY DEF AgentInv
<1> QED BY <1>1, AgentInvariant, PTL

\* A registered agent is below the threshold unless it is giving up, and an
\* agent without a registration holds zero or the count that tripped it.
THEOREM FailureCountCorrect == Spec => []FailureCountConsistent
<1>1. AgentInv => FailureCountConsistent
  BY DEF AgentInv
<1> QED BY <1>1, AgentInvariant, PTL
=============================================================================
