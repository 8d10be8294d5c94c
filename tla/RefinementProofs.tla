-------------------------- MODULE RefinementProofs --------------------------
(***************************************************************************)
(* The agents, the printer and the network together implement Destination. *)
(***************************************************************************)
EXTENDS RegistrationProofs

LEMMA OneOfSingleton ==
  ASSUME NEW u \in Users
  PROVE  OneOf({u}) = u
BY DEF OneOf

LEMMA OneOfNone == OneOf({}) = NoUser
BY DEF OneOf

LEMMA OneOfServing ==
  ASSUME NEW S \in SUBSET Users, \A u, v \in S : u = v, NEW u \in S
  PROVE  OneOf(S) = u
<1>1. S = {u}
  OBVIOUS
<1> QED BY <1>1, OneOfSingleton

\* What holds in both states of every step.
MappingInv == AgentInv /\ IdentityInv

LEMMA ServingUnique ==
  ASSUME MappingInv
  PROVE  Serving \in SUBSET Users /\ \A u, v \in Serving : u = v
BY DEF MappingInv, IdentityInv, Unique, Serving, Serves

\* A step in which nobody starts to serve and no scan begins or ends.
LEMMA ReleaseOrStutter ==
  ASSUME MappingInv, Serving' \subseteq Serving, Busy' = Busy, Landed' = Landed
  PROVE  [D!Next]_D!vars
<1>1. CASE Serving' = {}
  <2>1. Server' = NoUser
    BY <1>1, OneOfNone DEF Server
  <2> QED BY <2>1 DEF D!Next, D!Release
<1>2. CASE Serving' # {}
  <2>1. Serving' = Serving
    BY <1>2, ServingUnique
  <2>2. Server' = Server
    BY <2>1 DEF Server
  <2> QED BY <2>2 DEF D!vars
<1> QED BY <1>1, <1>2

\* Who serves depends on three variables, and losing the entry ends it.
LEMMA ServingShrinks ==
  ASSUME UNCHANGED <<registered, instanceID>>, entry' = entry \/ entry' = 0
  PROVE  Serving' \subseteq Serving
BY DEF Serving, Serves

LEMMA ServingKept ==
  ASSUME UNCHANGED <<registered, instanceID, entry>>
  PROVE  Serving' = Serving /\ Server' = Server
BY DEF Serving, Serves, Server

-----------------------------------------------------------------------------
\* The agent's steps that leave its registration and the scan alone.
LEMMA RefineLocal ==
  ASSUME MappingInv, NEW u \in Users,
         \/ Launch(u) \/ Tick(u) \/ LookupARP(u) \/ RegisterFails(u)
         \/ PostAppList(u) \/ Terminate(u) \/ UserSelectOurs(u)
         \/ DownloadOK(u)
  PROVE  [D!Next]_D!vars
<1>1. UNCHANGED <<registered, instanceID, entry, saved>>
  BY DEF Launch, Tick, TickRegister, TickHandover, TickPoll, TickIdle,
     LookupARP, RegisterFails, PostAppList, Terminate, UserSelectOurs,
     DownloadOK, macVars, vars, agentVars
<1>2. Busy' = Busy
  BY DEF MappingInv, AgentInv, TypeOK, AgentTypeOK, Busy, Goto, Launch, Tick,
     TickRegister, TickHandover, TickPoll, TickIdle, LookupARP, RegisterFails,
     PostAppList, Terminate, UserSelectOurs, DownloadOK, vars, agentVars
<1> QED BY <1>1, <1>2, ServingKept, ReleaseOrStutter DEF Landed

\* The steps that give the entry up.
LEMMA RefineDeregister ==
  ASSUME MappingInv, NEW u \in Users,
         Startup(u) \/ Handover(u) \/ Recover(u) \/ Exit(u)
  PROVE  [D!Next]_D!vars
<1> USE DEF MappingInv, AgentInv, TypeOK, AgentTypeOK, Startup, Handover,
      Recover, Exit, Unregister, Goto
<1>1. Serving' \subseteq Serving
  BY DeregisterEntry DEF Serving, Serves
<1>2. Busy' = Busy
  BY DEF Busy
<1>3. Landed' = Landed
  BY DEF Landed, macVars
<1> QED BY <1>1, <1>2, <1>3, ReleaseOrStutter

LEMMA RefineRegisterOK ==
  ASSUME MappingInv, NEW u \in Users, RegisterOK(u)
  PROVE  D!Next
<1> USE DEF MappingInv, AgentInv, TypeOK, AgentTypeOK, PrinterTypeOK,
      RegisterOK
<1>1. Server = NoUser
  <2>1. Serving = {}
    BY DEF Serving, Serves
  <2> QED BY <2>1, OneOfNone DEF Server
<1>2. Server' = u
  <2>1. ASSUME NEW v \in Users, v # u PROVE ~Serves(v)'
    BY <2>1 DEF Serves, IdentityInv, Fresh
  <2>2. Serves(u)'
    BY DEF Serves
  <2>3. Serving' = {u}
    BY <2>1, <2>2 DEF Serving
  <2> QED BY <2>3, OneOfSingleton DEF Server
<1>3. Busy' = Busy /\ Landed' = Landed
  BY DEF Busy, Landed, Goto, macVars
<1> QED BY <1>1, <1>2, <1>3 DEF D!Next, D!Claim

\* A poll makes an agent busy only when it is answered, and then it serves.
LEMMA RefinePoll ==
  ASSUME MappingInv, NEW u \in Users, Poll(u)
  PROVE  [D!Next]_D!vars
<1>1. Serving' = Serving /\ Server' = Server /\ Landed' = Landed
  BY ServingKept DEF Poll, PollAnswered, PollFails, macVars, Landed
<1>2. CASE PollFails(u)
  <2>1. Busy' = Busy
    BY <1>2 DEF PollFails, Goto, Busy, MappingInv, AgentInv, TypeOK,
       AgentTypeOK
  <2> QED BY <1>1, <2>1 DEF D!vars
<1>3. CASE PollAnswered(u)
  <2>1. u \in Serving
    BY <1>3 DEF PollAnswered, Answers, Serving, Serves, MappingInv, AgentInv,
       Control, TypeOK, AgentTypeOK
  <2>2. Server = u
    BY <2>1, ServingUnique, OneOfServing DEF Server
  <2>3. Busy' = Busy \/ Busy' = Busy \cup {u}
    BY <1>3 DEF PollAnswered, Goto, Busy, MappingInv, AgentInv, TypeOK,
       AgentTypeOK
  <2> QED BY <1>1, <2>2, <2>3 DEF D!Next, D!Accept, D!vars
<1> QED BY <1>2, <1>3 DEF Poll

\* The end of a scan, however it ends.
LEMMA RefineScanEnds ==
  ASSUME MappingInv, NEW u \in Users,
         UserSelectSkipped(u) \/ DownloadFails(u) \/ Save(u)
  PROVE  D!Next
<1> USE DEF MappingInv, AgentInv, TypeOK, AgentTypeOK, UserSelectSkipped,
      DownloadFails, Save
<1>1. Server' = Server
  BY ServingKept
<1>2. u \in Busy /\ Busy' = Busy \ {u}
  BY DEF Busy, Goto
<1>3. Landed' = Landed \/ Landed' = Landed \cup {u}
  BY DEF Landed, MacTypeOK, macVars
<1> QED BY <1>1, <1>2, <1>3 DEF D!Next, D!Drop, D!Land

LEMMA RefineKill ==
  ASSUME MappingInv, NEW u \in Users, Kill(u)
  PROVE  D!Next
<1> USE DEF MappingInv, AgentInv, TypeOK, AgentTypeOK, Kill
<1>1. Serving' = Serving \ {u}
  BY DEF Serving, Serves
<1>2. Busy' = Busy \ {u} /\ Landed' = Landed
  BY DEF Busy, Landed, Goto, macVars
<1>3. Server' = IF Server = u THEN NoUser ELSE Server
  <2>1. CASE u \in Serving
    <3>1. Server = u
      BY <2>1, ServingUnique, OneOfServing DEF Server
    <3>2. Serving' = {}
      BY <1>1, <2>1, ServingUnique
    <3> QED BY <3>1, <3>2, OneOfNone DEF Server
  <2>2. CASE u \notin Serving
    <3>1. Server' = Server
      BY <1>1, <2>2 DEF Server
    <3>2. Server # u
      <4>1. CASE Serving = {}
        BY <4>1, OneOfNone, NoUserAssumption DEF Server
      <4>2. ASSUME NEW w \in Serving PROVE Server # u
        BY <2>2, <4>2, ServingUnique, OneOfServing DEF Server
      <4> QED BY <4>1, <4>2
    <3> QED BY <3>1, <3>2
  <2> QED BY <2>1, <2>2
<1> QED BY <1>2, <1>3 DEF D!Next, D!Die

LEMMA RefineEnvironment ==
  ASSUME "idreset" \notin Faults, MappingInv, Network \/ People
  PROVE  [D!Next]_D!vars
<1>1. UNCHANGED <<pc, registered, instanceID, saved>>
  BY DEF Network, PowerOff, PowerOn, LinkDown, LinkUp, LateADD, LateDELETE,
     LateAPPLIST, People, SwitchConsole, OpenMenu, Confirm, CloseMenu, Cleanup,
     agentVars, macVars
<1>2. Serving' \subseteq Serving
  <2>1. CASE LateADD
    BY <1>1, <2>1 DEF LateADD, Serving, Serves, MappingInv, IdentityInv, Fresh,
       AgentInv, TypeOK, AgentTypeOK, PrinterTypeOK
  <2>2. CASE ~LateADD
    BY <1>1, <2>2, IdentityFrameEnvironment, ServingShrinks DEF IdentityFrame
  <2> QED BY <2>1, <2>2
<1>3. Busy' = Busy /\ Landed' = Landed
  BY <1>1 DEF Busy, Landed
<1> QED BY <1>2, <1>3, ReleaseOrStutter

LEMMA RefineNext ==
  ASSUME "idreset" \notin Faults, MappingInv, [Next]_vars
  PROVE  [D!Next]_D!vars
<1>1. CASE UNCHANGED vars
  BY <1>1 DEF vars, agentVars, macVars, D!vars, Server, Serving, Serves, Busy,
     Landed
<1>2. ASSUME NEW u \in Users, Launch(u) \/ Agent(u) \/ Terminate(u) \/ Kill(u)
      PROVE  [D!Next]_D!vars
  BY <1>2, RefineLocal, RefineDeregister, RefineRegisterOK, RefinePoll,
     RefineScanEnds, RefineKill
  DEF Agent, Register, UserSelect, Download
<1>3. CASE Network \/ People
  BY <1>3, RefineEnvironment
<1> QED BY <1>1, <1>2, <1>3 DEF Next

\* Whatever the users, the console, the network and the printer do, the Mac
\* is one scan destination: it changes its server only through having none, a scan
\* is saved only by an agent that was the server when it took the scan up.
THEOREM ImplementsDestination ==
  ASSUME "idreset" \notin Faults
  PROVE  Spec => OneDestination
<1>1. Init => D!Init
  <2> SUFFICES ASSUME Init PROVE D!Init
    OBVIOUS
  <2>1. Serving = {}
    BY DEF Init, Serving, Serves
  <2>2. Busy = {} /\ Landed = {}
    BY DEF Init, Busy, Landed
  <2> QED BY <2>1, <2>2, OneOfNone DEF D!Init, Server
<1>2. MappingInv /\ [Next]_vars => [D!Next]_D!vars
  BY RefineNext
<1>3. Spec => []MappingInv
  BY AgentInvariant, IdentityInvariant, PTL DEF MappingInv
<1> QED BY <1>1, <1>2, <1>3, PTL DEF Spec, OneDestination, D!Spec
=============================================================================
