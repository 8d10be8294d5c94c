------------------------ MODULE RegistrationProofs --------------------------
(***************************************************************************)
(* Theorems about who holds the printer's entry: at most one agent, and    *)
(* never nobody while every request gets through.                          *)
(***************************************************************************)
EXTENDS ScanToPCProofs

(***************************************************************************)
(* At most one agent serves.  An InstanceID is handed out once, so no two  *)
(* agents ever hold the same one; this needs a printer that keeps counting *)
(* through a power cycle.                                                  *)
(***************************************************************************)
Fresh  == entry < nextID /\ \A u \in Users : instanceID[u] < nextID
Unique == \A u, v \in Users :
            instanceID[u] # 0 /\ instanceID[u] = instanceID[v] => u = v

IdentityInv == Fresh /\ Unique

\* Every step but four leaves the agents' InstanceIDs and the printer's
\* counter alone, and keeps the entry or clears it.
IdentityFrame ==
    UNCHANGED <<instanceID, nextID>> /\ (entry' = entry \/ entry' = 0)

LEMMA DeregisterEntry ==
  ASSUME Deregister
  PROVE  entry' = entry \/ entry' = 0
BY DEF Deregister, HandleDelete

LEMMA IdentityFrameAgent ==
  ASSUME NEW u \in Users, \/ Launch(u) \/ Agent(u) \/ Terminate(u) \/ Kill(u)
  PROVE  IdentityFrame \/ Startup(u) \/ RegisterOK(u)
<1> USE DEF IdentityFrame
<1>1. CASE Launch(u) \/ Terminate(u) \/ Kill(u)
  BY <1>1 DEF Launch, Terminate, Kill
<1>2. CASE Tick(u) \/ LookupARP(u) \/ PostAppList(u)
  BY <1>2 DEF Tick, TickRegister, TickHandover, TickPoll, TickIdle, LookupARP,
     PostAppList, vars, agentVars
<1>3. CASE RegisterFails(u) \/ Poll(u) \/ UserSelect(u)
  BY <1>3 DEF RegisterFails, Poll, PollAnswered, PollFails, UserSelect,
     UserSelectOurs, UserSelectSkipped
<1>4. CASE Handover(u) \/ Recover(u) \/ Exit(u)
  BY <1>4, DeregisterEntry DEF Handover, Recover, Exit
<1>5. CASE Download(u) \/ Save(u)
  BY <1>5 DEF Download, DownloadOK, DownloadFails, Save
<1> QED BY <1>1, <1>2, <1>3, <1>4, <1>5 DEF Agent, Register

LEMMA IdentityFrameEnvironment ==
  ASSUME "idreset" \notin Faults, Network \/ People
  PROVE  IdentityFrame \/ LateADD
BY DEF IdentityFrame, Network, PowerOff, PowerOn, LinkDown, LinkUp, LateDELETE,
   LateAPPLIST, HandleDelete, People, SwitchConsole, OpenMenu, Confirm,
   CloseMenu, Cleanup, agentVars

LEMMA IdentityInvNext ==
  ASSUME "idreset" \notin Faults, AgentInv, IdentityInv, [Next]_vars
  PROVE  IdentityInv'
<1> USE DEF IdentityInv, Fresh, Unique, AgentInv, TypeOK, AgentTypeOK,
      PrinterTypeOK
<1>1. CASE IdentityFrame
  BY <1>1 DEF IdentityFrame
<1>2. ASSUME NEW u \in Users, Startup(u) PROVE IdentityInv'
  BY <1>2, DeregisterEntry DEF Startup
<1>3. ASSUME NEW u \in Users, RegisterOK(u) PROVE IdentityInv'
  BY <1>3 DEF RegisterOK
<1>4. CASE LateADD
  BY <1>4 DEF LateADD, agentVars
<1>5. CASE UNCHANGED vars
  BY <1>1, <1>5 DEF vars, agentVars, IdentityFrame
<1> QED BY <1>1, <1>2, <1>3, <1>4, <1>5, IdentityFrameAgent,
        IdentityFrameEnvironment DEF Next

LEMMA IdentityInvariant ==
  ASSUME "idreset" \notin Faults
  PROVE  Spec => []IdentityInv
<1>1. Init => IdentityInv
  BY DEF Init, IdentityInv, Fresh, Unique
<1>2. AgentInv /\ IdentityInv /\ [Next]_vars => IdentityInv'
  BY IdentityInvNext
<1> QED BY <1>1, <1>2, AgentInvariant, PTL DEF Spec

\* Never do two agents take the entry for theirs, with any users and faults,
\* delayed and repeated requests included, as long as the printer does not
\* hand out an InstanceID twice.
THEOREM OneServer ==
  ASSUME "idreset" \notin Faults
  PROVE  Spec => []AtMostOneServing
<1>1. IdentityInv => AtMostOneServing
  BY DEF IdentityInv, Unique, AtMostOneServing, Serves
<1> QED BY <1>1, IdentityInvariant, PTL

-----------------------------------------------------------------------------
(***************************************************************************)
(* No orphan entry, when no request is lost on a printer that is on.       *)
(***************************************************************************)
Online == link /\ late = {} /\ (~power => entry = 0)

OwnershipInv == Online /\ NoOrphanEntry

\* Then a Deregister always leaves the printer without an entry.
LEMMA DeregisterOnline ==
  ASSUME "late" \notin Faults, Online, Deregister
  PROVE  entry' = 0 /\ late' = {}
BY DEF Online, Deregister, Reachable, HandleDelete, Delayed, Fault

LEMMA OwnershipAgent ==
  ASSUME "late" \notin Faults, AgentInv, OwnershipInv, NEW u \in Users,
         \/ Launch(u) \/ Agent(u) \/ Terminate(u) \/ Kill(u)
  PROVE  OwnershipInv'
<1> USE DEF AgentInv, TypeOK, AgentTypeOK, OwnershipInv, Online, NoOrphanEntry,
      Alive
<1>1. CASE Startup(u) \/ Handover(u) \/ Recover(u)
  BY <1>1, DeregisterOnline DEF Startup, Handover, Recover
<1>2. CASE Exit(u)
  <2>1. CASE registered[u]
    BY <1>2, <2>1, DeregisterOnline DEF Exit
  <2>2. CASE ~registered[u]
    BY <1>2, <2>2 DEF Exit, Goto
  <2> QED BY <2>1, <2>2
<1>3. CASE RegisterOK(u)
  BY <1>3 DEF RegisterOK, Reachable, networkVars
<1>4. CASE Launch(u) \/ Kill(u)
  BY <1>4 DEF Launch, Kill, Goto, networkVars
<1>5. CASE Tick(u) \/ LookupARP(u) \/ Terminate(u)
  BY <1>5 DEF Tick, TickRegister, TickHandover, TickPoll, TickIdle, LookupARP,
     Terminate, Goto, vars, agentVars, networkVars
<1>6. CASE RegisterFails(u) \/ PostAppList(u)
  BY <1>6 DEF RegisterFails, PostAppList, Delayed, Fault, Goto
<1>7. CASE Poll(u)
  BY <1>7 DEF Poll, PollAnswered, PollFails, Goto, networkVars
<1>8. CASE UserSelect(u)
  BY <1>8 DEF UserSelect, UserSelectOurs, UserSelectSkipped, Goto, networkVars
<1>9. CASE Download(u) \/ Save(u)
  BY <1>9 DEF Download, DownloadOK, DownloadFails, Save, Goto
<1> QED BY <1>1, <1>2, <1>3, <1>4, <1>5, <1>6, <1>7, <1>8, <1>9
        DEF Agent, Register

LEMMA OwnershipEnvironment ==
  ASSUME "link" \notin Faults, "late" \notin Faults, AgentInv, OwnershipInv,
         Network \/ People
  PROVE  OwnershipInv'
<1> USE DEF OwnershipInv, Online, NoOrphanEntry, Alive, agentVars, networkVars
<1>1. CASE Network
  BY <1>1 DEF Network, PowerOff, PowerOn, LinkDown, LinkUp, LateADD,
     LateDELETE, LateAPPLIST, Fault
<1>2. CASE People
  BY <1>2 DEF People, SwitchConsole, OpenMenu, Confirm, CloseMenu,
     Cleanup, HandleDelete, Delayed, Fault
<1> QED BY <1>1, <1>2

\* Whatever is switched, killed, restarted or powered off, an entry on the
\* printer belongs to an agent that will remove it.
THEOREM EntryHasOwner ==
  ASSUME "link" \notin Faults, "late" \notin Faults
  PROVE  Spec => []NoOrphanEntry
<1>1. Init => OwnershipInv
  BY DEF Init, OwnershipInv, Online, NoOrphanEntry
<1>2. AgentInv /\ OwnershipInv /\ [Next]_vars => OwnershipInv'
  <2> SUFFICES ASSUME AgentInv, OwnershipInv, [Next]_vars PROVE OwnershipInv'
    OBVIOUS
  <2>1. CASE UNCHANGED vars
    BY <2>1 DEF OwnershipInv, Online, NoOrphanEntry, Alive, vars, agentVars,
       networkVars
  <2>2. CASE Next
    BY <2>2, OwnershipAgent, OwnershipEnvironment DEF Next
  <2> QED BY <2>1, <2>2
<1>3. OwnershipInv => NoOrphanEntry
  BY DEF OwnershipInv
<1> QED BY <1>1, <1>2, <1>3, AgentInvariant, PTL DEF Spec
=============================================================================
