--------------------------- MODULE SelectionProofs ---------------------------
(***************************************************************************)
(* A scan is saved in the format its owner confirmed: theorems about the   *)
(* three exchanges (poll, UserSelect, download) that lead to a scan.       *)
(***************************************************************************)
EXTENDS ScanToPCProofs

(***************************************************************************)
(* The format is read in one exchange and the scan taken in a later one,   *)
(* and people use the LCD in between.  What protects the agent is that its *)
(* own AppList is the only thing that makes the Mac Available: from the    *)
(* poll that saw Ready to the end of the download nobody announces, so a   *)
(* menu opened meanwhile accepts no selection.  That takes an agent alone  *)
(* (nobody switches users) and no AppList of an earlier menu under way.    *)
(***************************************************************************)
\* Only the agent of the console user registers.
Alone ==
    \A u \in Users :
      registered[u] \/ pc[u] \in {"guard", "register"} => console = u

\* A menu that is closed, or that was opened while an agent is after a scan,
\* does not offer the Mac.
Offered ==
    /\ menu = "idle" => ~available
    /\ \A u \in Users :
         pc[u] \in {"userselect", "download"} /\ menu = "triggered" => ~available

\* A scan the agent is about to take is one of the selection it has read.
StillSelected ==
    \A u \in Users :
      pc[u] = "download" /\ menu = "ready" => scan[u].read = sel

PanelInv == late = {} /\ Alone /\ Offered /\ StillSelected /\ SelectionFresh

LEMMA PanelInit == Init => PanelInv
BY DEF Init, PanelInv, Alone, Offered, StillSelected, SelectionFresh

\* The steps of an agent that leave the panel and the scans alone and take no
\* agent to where a scan is fetched.
LEMMA PanelQuiet ==
  ASSUME "late" \notin Faults, AgentInv, PanelInv, NEW u \in Users,
         \/ Launch(u) \/ Tick(u) \/ LookupARP(u) \/ Register(u)
         \/ PollFails(u) \/ UserSelectSkipped(u) \/ Terminate(u)
  PROVE  PanelInv'
<1> USE DEF PanelInv, Alone, Offered, StillSelected, SelectionFresh, AgentInv,
      TypeOK, AgentTypeOK, Goto, panelVars, networkVars, macVars
<1>1. CASE Launch(u) \/ Terminate(u) \/ LookupARP(u)
  BY <1>1 DEF Launch, Terminate, LookupARP
<1>2. CASE Tick(u)
  BY <1>2 DEF Tick, TickRegister, TickHandover, TickPoll, TickIdle, vars,
     agentVars
<1>3. CASE Register(u)
  BY <1>3 DEF Register, RegisterOK, RegisterFails, Delayed, Fault
<1>4. CASE PollFails(u) \/ UserSelectSkipped(u)
  BY <1>4 DEF PollFails, UserSelectSkipped
<1> QED BY <1>1, <1>2, <1>3, <1>4

\* Deregister closes the menu or leaves it alone.
LEMMA DeregisterPanel ==
  ASSUME "late" \notin Faults, FlagsOK, Deregister
  PROVE  /\ late' = late
         /\ menu' = menu \/ (menu' = "idle" /\ ~available')
         /\ available' => available
BY DEF Deregister, HandleDelete, Delayed, Fault, FlagsOK

\* The agents that call it give up.
LEMMA PanelDeregister ==
  ASSUME "late" \notin Faults, AgentInv, PanelInv, NEW u \in Users,
         Startup(u) \/ Handover(u) \/ Recover(u) \/ Exit(u) \/ Kill(u)
  PROVE  PanelInv'
<1> USE DEF PanelInv, Alone, Offered, StillSelected, SelectionFresh, AgentInv,
      TypeOK, AgentTypeOK, FlagsOK, Goto
<1>1. CASE Startup(u)
  BY <1>1, DeregisterPanel DEF Startup, macVars
<1>2. CASE Handover(u)
  BY <1>2, DeregisterPanel DEF Handover, Unregister, macVars
<1>3. CASE Recover(u)
  BY <1>3, DeregisterPanel DEF Recover, Unregister, macVars
<1>4. CASE Exit(u)
  BY <1>4, DeregisterPanel DEF Exit, macVars
<1>5. CASE Kill(u)
  BY <1>5 DEF Kill, panelVars, macVars
<1> QED BY <1>1, <1>2, <1>3, <1>4, <1>5

\* The exchanges that make the Mac Available, see Ready, read the selection and
\* take the scan.
LEMMA PanelExchange ==
  ASSUME "late" \notin Faults, AgentInv, PanelInv, NEW u \in Users,
         \/ PostAppList(u) \/ PollAnswered(u) \/ UserSelectOurs(u)
         \/ Download(u) \/ Save(u)
  PROVE  PanelInv'
<1> USE DEF PanelInv, AgentInv, TypeOK, AgentTypeOK, Goto
<1>1. CASE PostAppList(u)
  \* Whoever is after a scan is registered, hence is the console user, as u is.
  <2>1. ASSUME NEW v \in Users, pc[v] \in {"userselect", "download"}
        PROVE  FALSE
    <3>1. registered[u] /\ registered[v]
      BY <1>1, <2>1 DEF PostAppList, Control
    <3>2. u = v
      BY <3>1 DEF Alone
    <3> QED BY <1>1, <2>1, <3>2 DEF PostAppList
  <2>2. late' = {} /\ Alone'
    BY <1>1 DEF PostAppList, Alone, Delayed, Fault, macVars
  <2>3. Offered' /\ StillSelected' /\ SelectionFresh'
    BY <1>1, <2>1 DEF PostAppList, HandleAppList, Offered, StillSelected,
       SelectionFresh, FlagsOK, Delayed
  <2> QED BY <2>2, <2>3
<1>2. CASE PollAnswered(u)
  BY <1>2 DEF PollAnswered, Reaction, Alone, Offered, StillSelected,
     SelectionFresh, panelVars, networkVars, macVars
<1>3. CASE UserSelectOurs(u)
  <2>1. late' = {} /\ Alone' /\ Offered'
    BY <1>3 DEF UserSelectOurs, Alone, Offered, panelVars, networkVars, macVars
  <2>2. scan'[u].read = sel
    BY <1>3 DEF UserSelectOurs, TheScan
  <2>3. StillSelected' /\ SelectionFresh'
    BY <1>3, <2>2 DEF UserSelectOurs, StillSelected, SelectionFresh, panelVars
  <2> QED BY <2>1, <2>3
<1>4. CASE DownloadOK(u)
  <2>1. late' = {} /\ Alone' /\ Offered' /\ StillSelected'
    BY <1>4 DEF DownloadOK, Alone, Offered, StillSelected, macVars
  <2>2. PICK n \in 0..MaxPages :
          scan' = [scan EXCEPT ![u] = TheScan(scan[u].read, sel, n)]
    BY <1>4 DEF DownloadOK
  <2>3. scan[u].read = sel
    BY <1>4 DEF DownloadOK, StillSelected
  <2>4. scan'[u].read = scan'[u].taken
    BY <2>2, <2>3 DEF TheScan
  <2>5. SelectionFresh'
    BY <1>4, <2>2, <2>4 DEF DownloadOK, SelectionFresh
  <2> QED BY <2>1, <2>5
<1>5. CASE DownloadFails(u) \/ Save(u)
  BY <1>5 DEF DownloadFails, Save, Alone, Offered, StillSelected,
     SelectionFresh, macVars, panelVars
<1> QED BY <1>1, <1>2, <1>3, <1>4, <1>5 DEF Download

\* What people and the network do.
LEMMA PanelEnvironment ==
  ASSUME "late" \notin Faults, "switch" \notin Faults, AgentInv, PanelInv,
         Network \/ People
  PROVE  PanelInv'
<1> USE DEF PanelInv, Alone, Offered, StillSelected, SelectionFresh, agentVars,
      macVars, panelVars, networkVars
<1>1. CASE Network
  BY <1>1 DEF Network, PowerOff, PowerOn, LinkDown, LinkUp, LateADD,
     LateDELETE, LateAPPLIST
<1>2. CASE SwitchConsole \/ Cleanup
  BY <1>2 DEF SwitchConsole, Cleanup, HandleDelete, Delayed, Fault
<1>3. CASE OpenMenu \/ CloseMenu
  BY <1>3 DEF OpenMenu, CloseMenu
<1>4. CASE Confirm
  BY <1>4 DEF Confirm
<1> QED BY <1>1, <1>2, <1>3, <1>4 DEF People

LEMMA PanelNext ==
  ASSUME "late" \notin Faults, "switch" \notin Faults, AgentInv, PanelInv,
         [Next]_vars
  PROVE  PanelInv'
<1>1. CASE UNCHANGED vars
  BY <1>1 DEF PanelInv, Alone, Offered, StillSelected, SelectionFresh, vars,
     agentVars, macVars, panelVars, networkVars
<1>2. ASSUME NEW u \in Users, Launch(u) \/ Agent(u) \/ Terminate(u) \/ Kill(u)
      PROVE  PanelInv'
  BY <1>2, PanelQuiet, PanelDeregister, PanelExchange
  DEF Agent, Poll, UserSelect
<1>3. CASE Network \/ People
  BY <1>3, PanelEnvironment
<1> QED BY <1>1, <1>2, <1>3 DEF Next

\* A scan is saved in the format that was confirmed for it, however people use
\* the LCD between the exchanges, whatever fails, dies or is switched off, as
\* long as nobody switches users and no AppList is handled after its sender
\* gave up.
THEOREM FormatOfTheOwner ==
  ASSUME "late" \notin Faults, "switch" \notin Faults
  PROVE  Spec => []SelectionFresh
<1>1. AgentInv /\ PanelInv /\ [Next]_vars => PanelInv'
  BY PanelNext
<1>2. PanelInv => SelectionFresh
  BY DEF PanelInv
<1> QED BY <1>1, <1>2, PanelInit, AgentInvariant, PTL DEF Spec
=============================================================================
