-------------------------- MODULE ApplicationProofs --------------------------
(***************************************************************************)
(* Theorems about Application, for every set of VMs, hosts and handlers.    *)
(* The composition is a behaviour of each of its components, so what is      *)
(* proved of VMManager (Virt) and TopologyManager (Phys) holds in it; the    *)
(* order of mainLoop adds what relates the two.                              *)
(***************************************************************************)
EXTENDS Application, FiniteSets, TLAPS

Virt == INSTANCE VMManagerProofs
Phys == INSTANCE TopologyManagerProofs WITH reachable <- quiet

-----------------------------------------------------------------------------
(* The components of Application are those the theorems are about.           *)

LEMMA VirtAssumed == Virt!VMManagerAssumption
BY ApplicationAssumption DEF VMs!VM, VMs!Note, Virt!VM, Virt!Note

LEMMA PhysAssumed == Phys!TopologyManagerAssumption
BY ApplicationAssumption
   DEF Topo!Rack, Topo!Place, Topo!IsFiniteSet, Phys!Rack, Phys!Place, Phys!IsFiniteSet

LEMMA SameInit == (VMs!Init => Virt!Init) /\ (Topo!Init => Phys!Init)
BY DEF VMs!Init, VMs!VM, Virt!Init, Virt!VM, Topo!Init, Phys!Init

LEMMA SameVMs == [VMs!Next]_(VMs!vars) => [Virt!Next]_(Virt!vars)
BY DEF VMs!Next, VMs!vars, VMs!env, VMs!loop, VMs!delivery,
       VMs!VM, VMs!StatusOf, VMs!Statuses, VMs!Known, VMs!Existing, VMs!Range,
       VMs!CloudChange, VMs!Settle, VMs!Listings, VMs!Retrieves, VMs!Throws,
       VMs!VMEventFor, VMs!StatusAfter, VMs!Notify, VMs!EndDelivery,
       VMs!addVM, VMs!updateVM, VMs!removeVM, VMs!refreshVMList,
       VMs!RefreshBegins, VMs!RetrieveIDs, VMs!FailToRetrieveIDs, VMs!RequestFails,
       VMs!addNewVMs, VMs!KeepKnown, VMs!AddNew, VMs!ToUpdate, VMs!StartUpdating,
       VMs!updateVMs, VMs!UpdateKnown, VMs!ToRemove, VMs!StartRemoving,
       VMs!removeVMs, VMs!RemoveOld, VMs!Return,
       VMs!NotifyHandlers, VMs!CallHandler, VMs!HandlerThrows, VMs!AllCalled,
       VMs!registerVMEventHandler,
       Virt!Next, Virt!vars, Virt!env, Virt!loop, Virt!delivery,
       Virt!VM, Virt!StatusOf, Virt!Statuses, Virt!Known, Virt!Existing, Virt!Range,
       Virt!CloudChange, Virt!Settle, Virt!Listings, Virt!Retrieves, Virt!Throws,
       Virt!VMEventFor, Virt!StatusAfter, Virt!Notify, Virt!EndDelivery,
       Virt!addVM, Virt!updateVM, Virt!removeVM, Virt!refreshVMList,
       Virt!RefreshBegins, Virt!RetrieveIDs, Virt!FailToRetrieveIDs, Virt!RequestFails,
       Virt!addNewVMs, Virt!KeepKnown, Virt!AddNew, Virt!ToUpdate, Virt!StartUpdating,
       Virt!updateVMs, Virt!UpdateKnown, Virt!ToRemove, Virt!StartRemoving,
       Virt!removeVMs, Virt!RemoveOld, Virt!Return,
       Virt!NotifyHandlers, Virt!CallHandler, Virt!HandlerThrows, Virt!AllCalled,
       Virt!registerVMEventHandler

LEMMA SameAnswers == Topo!Answers = Phys!Answers
BY DEF Topo!Answers, Topo!RacksOf, Topo!HostsIn, Topo!SetToSeqs, Topo!Cardinality,
       Topo!IsInjective, Topo!IsFiniteSet,
       Phys!Answers, Phys!RacksOf, Phys!HostsIn, Phys!SetToSeqs, Phys!Cardinality,
       Phys!IsInjective, Phys!IsFiniteSet

LEMMA SameTopology == [Topo!Next]_(Topo!vars) => [Phys!Next]_(Phys!vars)
BY SameAnswers
   DEF Topo!Next, Topo!vars, Topo!HostJoins, Topo!HostLeaves, Topo!Recover,
       Topo!refreshTopology, Topo!RefreshSucceeds, Topo!RefreshFails,
       Phys!Next, Phys!vars, Phys!HostJoins, Phys!HostLeaves, Phys!Recover,
       Phys!refreshTopology, Phys!RefreshSucceeds, Phys!RefreshFails

-----------------------------------------------------------------------------
(* Every step of the application is a step of each component, or none.       *)

LEMMA VMsStep == [Next]_vars => [VMs!Next]_(VMs!vars)
<1> SUFFICES ASSUME [Next]_vars
             PROVE  VMs!Next \/ UNCHANGED VMs!vars
  OBVIOUS
<1>a. ASSUME UNCHANGED vms PROVE UNCHANGED VMs!vars
  BY <1>a DEF vms, VMs!vars, VMs!env, VMs!loop, VMs!delivery
<1>1. CASE CloudChanges
  BY <1>1 DEF CloudChanges, VMs!Next
<1>2. CASE TopologyChanges
  BY <1>2, <1>a DEF TopologyChanges
<1>3. CASE Settles
  BY <1>3 DEF Settles, VMs!Next
<1>4. ASSUME NEW h \in Handlers, Hook(h) PROVE VMs!Next
  BY <1>4 DEF Hook, VMs!Next
<1>5. CASE Construct
  BY <1>5, ApplicationAssumption DEF Construct, VMs!Next
<1>6. CASE RefreshVMs
  BY <1>6 DEF RefreshVMs, VMs!Next
<1>7. CASE Iterate \/ Exit \/ RefreshTopology \/ DaemonsAndSleep \/ shutdown
  BY <1>7, <1>a DEF Iterate, Exit, RefreshTopology, DaemonsAndSleep, shutdown
<1>8. CASE UNCHANGED vars
  BY <1>8, <1>a DEF vars
<1> QED
  BY <1>1, <1>2, <1>3, <1>4, <1>5, <1>6, <1>7, <1>8 DEF Next, mainLoop

LEMMA TopoStep == [Next]_vars => [Topo!Next]_(Topo!vars)
<1> SUFFICES ASSUME [Next]_vars
             PROVE  Topo!Next \/ UNCHANGED Topo!vars
  OBVIOUS
<1>a. ASSUME UNCHANGED tree, quiet' = quiet PROVE UNCHANGED Topo!vars
  BY <1>a DEF tree, Topo!vars
<1>1. CASE CloudChanges
  BY <1>1, <1>a DEF CloudChanges, VMs!CloudChange
<1>2. CASE TopologyChanges
  BY <1>2 DEF TopologyChanges, Topo!Next
<1>3. CASE Settles
  BY <1>3 DEF Settles, Topo!Next
<1>4. ASSUME NEW h \in Handlers, VMs!registerVMEventHandler(h), UNCHANGED tree
      PROVE  UNCHANGED Topo!vars
  BY <1>4, <1>a DEF VMs!registerVMEventHandler, VMs!env
<1>5. CASE Construct
  BY <1>5, <1>4, ApplicationAssumption DEF Construct
<1>6. CASE RefreshVMs
  <2>1. quiet' = quiet
    BY <1>6 DEF RefreshVMs, VMs!refreshVMList, VMs!RetrieveIDs, VMs!FailToRetrieveIDs,
         VMs!addNewVMs, VMs!KeepKnown, VMs!AddNew, VMs!StartUpdating,
         VMs!updateVMs, VMs!UpdateKnown, VMs!StartRemoving,
         VMs!removeVMs, VMs!RemoveOld, VMs!Return,
         VMs!NotifyHandlers, VMs!CallHandler, VMs!HandlerThrows, VMs!AllCalled, VMs!env
  <2> QED BY <2>1, <1>6, <1>a DEF RefreshVMs
<1>7. CASE RefreshTopology
  BY <1>7 DEF RefreshTopology, Topo!Next
<1>8. CASE Iterate \/ Exit \/ DaemonsAndSleep \/ shutdown
  BY <1>8, <1>a DEF Iterate, Exit, DaemonsAndSleep, shutdown, vms
<1>9. CASE UNCHANGED vars
  BY <1>9, <1>a DEF vars, vms
<1> QED
  BY <1>1, <1>2, <1>3, <1>4, <1>5, <1>6, <1>7, <1>8, <1>9 DEF Next, mainLoop, Hook

\* main and mainLoop use the two managers only as their specifications allow: in
\* the composed system each of them does what it does alone.
THEOREM Composes == Spec => VMs!Spec /\ Topo!Spec
<1>1. Init => VMs!Init /\ Topo!Init
  BY DEF Init
<1> QED
  BY <1>1, VMsStep, TopoStep, PTL DEF Spec, VMs!Spec, Topo!Spec

\* What is proved of a VMManager alone holds in the loop.  If no hook throws, the refresh
\* that mainLoop makes, whose result it ignores, fails only because a request failed.
THEOREM RefreshesAreClean == ThrowingHandlers = {} => (Spec => []CleanRefreshes)
<1> SUFFICES ASSUME ThrowingHandlers = {} PROVE Spec => []CleanRefreshes
  OBVIOUS
<1>1. VMs!Spec => Virt!Spec
  BY SameInit, SameVMs, PTL DEF VMs!Spec, Virt!Spec
<1>2. Virt!Spec => []Virt!CleanRefreshSucceeds
  BY VirtAssumed, Virt!CleanRefresh
<1>3. Virt!CleanRefreshSucceeds => CleanRefreshes
  BY DEF Virt!CleanRefreshSucceeds, CleanRefreshes, VMs!CleanRefreshSucceeds
<1> QED
  BY <1>1, <1>2, <1>3, Composes, PTL

-----------------------------------------------------------------------------
(* What the daemon manager knows.                                            *)

\* The calls of an iteration follow each other.
LEMMA Follows ==
    /\ After("refreshVMs") = "refreshTopology"
    /\ After("refreshTopology") = "refreshDaemons"
    /\ After("refreshDaemons") = "deployDaemons"
    /\ After("deployDaemons") = "sleep"
    /\ After("sleep") = "loop"
<1> DEFINE position(s) == CHOOSE i \in DOMAIN Iteration : Iteration[i] = s
<1>1. DOMAIN Iteration = 1..6
  BY DEF Iteration
<1>2. /\ \A i \in 1..6 : Iteration[i] = "refreshVMs" <=> i = 1
      /\ \A i \in 1..6 : Iteration[i] = "refreshTopology" <=> i = 2
      /\ \A i \in 1..6 : Iteration[i] = "refreshDaemons" <=> i = 3
      /\ \A i \in 1..6 : Iteration[i] = "deployDaemons" <=> i = 4
      /\ \A i \in 1..6 : Iteration[i] = "sleep" <=> i = 5
  BY DEF Iteration
<1>3. /\ position("refreshVMs") = 1 /\ position("refreshTopology") = 2
      /\ position("refreshDaemons") = 3 /\ position("deployDaemons") = 4
      /\ position("sleep") = 5
  BY <1>1, <1>2
<1> QED BY <1>3 DEF After, Iteration

Stages == {"initialise", "loop", "refreshVMs", "refreshTopology", "refreshDaemons",
           "deployDaemons", "sleep", "exited"}

\* VMManager works only while mainLoop is in refreshVMList, and the daemon manager
\* is registered before that begins.
ControlInv ==
    /\ stage \in Stages
    /\ stage # "refreshVMs" => phase = "idle"
    /\ stage # "initialise" => \E i \in DOMAIN handlers : handlers[i] = daemonManager

InformedInv == Virt!IInv /\ ControlInv

\* A step of VMManager keeps the handlers that are there.
LEMMA HandlersStay ==
    ASSUME Virt!TypeOK, [Next]_vars,
           NEW i \in DOMAIN handlers
    PROVE  i \in DOMAIN handlers' /\ handlers'[i] = handlers[i]
<1>1. ASSUME NEW h \in Handlers, VMs!registerVMEventHandler(h)
      PROVE  i \in DOMAIN handlers' /\ handlers'[i] = handlers[i]
  BY <1>1 DEF VMs!registerVMEventHandler, Virt!TypeOK
<1>2. CASE UNCHANGED handlers
  BY <1>2
<1>3. CASE RefreshVMs
  BY <1>3, <1>2
     DEF RefreshVMs, VMs!refreshVMList, VMs!RetrieveIDs, VMs!FailToRetrieveIDs,
         VMs!addNewVMs, VMs!KeepKnown, VMs!AddNew, VMs!StartUpdating,
         VMs!updateVMs, VMs!UpdateKnown, VMs!StartRemoving,
         VMs!removeVMs, VMs!RemoveOld, VMs!Return,
         VMs!NotifyHandlers, VMs!CallHandler, VMs!HandlerThrows, VMs!AllCalled
<1>4. CASE CloudChanges \/ TopologyChanges \/ Settles
  BY <1>4, <1>2 DEF CloudChanges, TopologyChanges, Settles, VMs!CloudChange, VMs!Settle, vms
<1>5. CASE Construct \/ \E h \in Handlers : Hook(h)
  BY <1>5, <1>1, ApplicationAssumption DEF Construct, Hook
<1>6. CASE Iterate \/ Exit \/ RefreshTopology \/ DaemonsAndSleep \/ shutdown \/ UNCHANGED vars
  BY <1>6, <1>2 DEF Iterate, Exit, RefreshTopology, DaemonsAndSleep, shutdown, vms, vars
<1> QED BY <1>3, <1>4, <1>5, <1>6 DEF Next, mainLoop

LEMMA ControlNext == Virt!TypeOK /\ ControlInv /\ [Next]_vars => ControlInv'
<1> SUFFICES ASSUME Virt!TypeOK, ControlInv, [Next]_vars
             PROVE  ControlInv'
  OBVIOUS
<1> USE DEF ControlInv, Stages
<1>a. (\E i \in DOMAIN handlers : handlers[i] = daemonManager)
          => (\E i \in DOMAIN handlers' : handlers'[i] = daemonManager)
  BY HandlersStay
<1>1. CASE CloudChanges \/ TopologyChanges \/ Settles
  BY <1>1, <1>a
     DEF CloudChanges, TopologyChanges, Settles, VMs!CloudChange, VMs!Settle, VMs!loop, vms, control
<1>2. ASSUME NEW h \in Handlers, Hook(h) PROVE ControlInv'
  BY <1>2, <1>a DEF Hook, VMs!registerVMEventHandler, VMs!loop, control
<1>3. CASE Construct
  <2>1. phase' = phase /\ handlers' = Append(handlers, daemonManager) /\ handlers \in Seq(Handlers)
    BY <1>3 DEF Construct, VMs!registerVMEventHandler, VMs!loop, Virt!TypeOK
  <2>2. Len(handlers) + 1 \in DOMAIN handlers' /\ handlers'[Len(handlers) + 1] = daemonManager
    BY <2>1, ApplicationAssumption
  <2> QED BY <1>3, <2>1, <2>2 DEF Construct
<1>4. CASE Iterate
  BY <1>4, <1>a DEF Iterate, Iteration, vms
<1>5. CASE Exit \/ shutdown
  BY <1>5, <1>a DEF Exit, shutdown, vms
<1>6. CASE RefreshVMs
  BY <1>6, <1>a, Follows DEF RefreshVMs
<1>7. CASE RefreshTopology
  BY <1>7, <1>a, Follows DEF RefreshTopology, vms
<1>8. CASE DaemonsAndSleep
  BY <1>8, <1>a, Follows DEF DaemonsAndSleep, vms
<1>9. CASE UNCHANGED vars
  BY <1>9, <1>a DEF vars, vms, control
<1> QED
  BY <1>1, <1>2, <1>3, <1>4, <1>5, <1>6, <1>7, <1>8, <1>9 DEF Next, mainLoop

LEMMA InformedInvariant == Spec => []InformedInv
<1>1. Init => InformedInv
  <2> SUFFICES ASSUME Init PROVE InformedInv
    OBVIOUS
  <2>1. Virt!IInv
    BY SameInit, VirtAssumed, Virt!InvInit DEF Init
  <2>2. ControlInv
    BY DEF Init, ControlInv, Stages, VMs!Init
  <2> QED BY <2>1, <2>2 DEF InformedInv
<1>2. InformedInv /\ [Next]_vars => InformedInv'
  <2> SUFFICES ASSUME InformedInv, [Next]_vars PROVE InformedInv'
    OBVIOUS
  <2>1. Virt!IInv /\ ControlInv
    BY DEF InformedInv
  <2>2. [Virt!Next]_(Virt!vars)
    BY VMsStep, SameVMs
  <2>3. Virt!IInv'
    BY <2>1, <2>2, VirtAssumed, Virt!InvNext
  <2>4. Virt!TypeOK
    BY <2>1 DEF Virt!IInv
  <2>5. ControlInv'
    BY <2>1, <2>4, ControlNext
  <2> QED BY <2>3, <2>5 DEF InformedInv
<1> QED BY <1>1, <1>2, PTL DEF Spec

\* When daemons are refreshed or deployed, the daemon manager knows every VM of
\* vmList with its present status, unless a handler before it may throw.
THEOREM DaemonManagerIsInformed == Spec => []DaemonManagerInformed
<1>1. InformedInv => DaemonManagerInformed
  <2> SUFFICES ASSUME InformedInv, stage \notin {"initialise", "refreshVMs"},
                      \A i \in DOMAIN handlers : handlers[i] = daemonManager => VMs!Shielded(i)
               PROVE  view[daemonManager] = VMs!Statuses(vmList)
    BY DEF DaemonManagerInformed
  <2>1. Virt!TypeOK /\ Virt!ViewsAgree /\ note = Null
    BY DEF InformedInv, ControlInv, Virt!IInv, Virt!NoteInv
  <2>2. PICK i \in DOMAIN handlers : handlers[i] = daemonManager
    BY DEF InformedInv, ControlInv
  <2>3. Virt!Shielded(i)
    BY <2>2 DEF VMs!Shielded, Virt!Shielded
  <2>4. \A id \in VMIDs : view[daemonManager][id] = Virt!StatusOf(vmList[id])
    BY <2>1, <2>2, <2>3 DEF Virt!ViewsAgree
  <2>5. view[daemonManager] \in [VMIDs -> VMStatus \cup {Null}]
    BY <2>1, ApplicationAssumption DEF Virt!TypeOK
  <2> QED BY <2>4, <2>5 DEF VMs!Statuses, VMs!StatusOf, Virt!StatusOf
<1> QED BY <1>1, InformedInvariant, PTL

-----------------------------------------------------------------------------
(* Where the known VMs are.                                                  *)

\* A host that does not leave stays, so the VMs that are known, or there, have a
\* host in the middleware; and the last refresh of the topology came after the last
\* of the VMs, so its tree has that host.
PlacedInv ==
    /\ HostsPresent
    /\ ~HostsLeave =>
           \A id \in VMIDs : vmList[id] # Null => placement[vmList[id].host] # Null
    /\ (stage \notin {"refreshVMs", "refreshTopology"} /\ refreshed /\ ~HostsLeave) =>
           \A id \in VMIDs : vmList[id] # Null =>
               \E i \in DOMAIN physicalRoot : \E k \in DOMAIN physicalRoot[i].racks :
                   vmList[id].host \in physicalRoot[i].racks[k].hosts

SystemInv == InformedInv /\ Phys!IInv /\ PlacedInv

\* A refresh takes the host of a VM from the middleware when it adds it, and leaves
\* it alone from then on.
LEMMA HostsOfVMs ==
    ASSUME Virt!TypeOK, Virt!ListInv, VMs!refreshVMList, NEW id \in VMIDs, vmList'[id] # Null
    PROVE  \/ vmList[id] # Null /\ vmList'[id].host = vmList[id].host
           \/ cloud[id] # Null /\ vmList'[id].host = cloud[id].host
<1>1. CASE UNCHANGED vmList
  BY <1>1
<1>2. CASE VMs!AddNew
  <2>1. CASE UNCHANGED vmList
    BY <2>1
  <2>2. CASE VMs!Retrieves(Head(pending)) /\ VMs!addVM(Head(pending), cloud[Head(pending)])
    BY <2>2 DEF VMs!Retrieves, VMs!addVM, Virt!TypeOK
  <2> QED BY <1>2, <2>1, <2>2 DEF VMs!AddNew, VMs!RequestFails
<1>3. CASE VMs!UpdateKnown
  <2>1. CASE UNCHANGED vmList
    BY <2>1
  <2>2. CASE VMs!updateVM(Head(pending), cloud[Head(pending)])
    <3>1. PICK v \in VMIDs : v = Head(pending)
      BY <1>3 DEF VMs!UpdateKnown, Virt!TypeOK
    <3>2. vmList' = [vmList EXCEPT ![v].status = cloud[v].status]
      BY <2>2, <3>1 DEF VMs!updateVM
    <3>3. v \in Virt!Known
      <4>1. v \in Virt!Range(pending)
        BY <1>3, <3>1 DEF VMs!UpdateKnown, Virt!TypeOK, Virt!Range
      <4> QED BY <1>3, <4>1 DEF VMs!UpdateKnown, Virt!ListInv
    <3>4. vmList[v] \in Virt!VM
      BY <3>3 DEF Virt!Known, Virt!TypeOK
    <3>5. vmList'[v].host = vmList[v].host
      BY <3>2, <3>4 DEF Virt!TypeOK, Virt!VM
    <3>6. v # id => vmList'[id] = vmList[id]
      BY <3>2 DEF Virt!TypeOK
    <3> QED BY <3>3, <3>5, <3>6 DEF Virt!Known
  <2> QED BY <1>3, <2>1, <2>2 DEF VMs!UpdateKnown, VMs!RequestFails
<1>4. CASE \E v \in VMIDs : VMs!RemoveOld(v)
  BY <1>4 DEF VMs!RemoveOld, VMs!removeVM, Virt!TypeOK
<1> QED
  BY <1>1, <1>2, <1>3, <1>4
     DEF VMs!refreshVMList, VMs!RetrieveIDs, VMs!FailToRetrieveIDs,
         VMs!addNewVMs, VMs!KeepKnown, VMs!StartUpdating, VMs!updateVMs, VMs!StartRemoving,
         VMs!removeVMs, VMs!Return,
         VMs!NotifyHandlers, VMs!CallHandler, VMs!HandlerThrows, VMs!AllCalled

\* After a refresh that succeeded every host of the middleware is in the tree.
LEMMA RefreshedTreeHasHosts ==
    ASSUME Phys!IInv, Topo!RefreshSucceeds, NEW h \in Hosts, placement[h] # Null
    PROVE  \E i \in DOMAIN physicalRoot' : \E k \in DOMAIN physicalRoot'[i].racks :
               h \in physicalRoot'[i].racks[k].hosts
<1>1. PICK root \in Phys!Answers : physicalRoot' = root
  BY SameAnswers DEF Topo!RefreshSucceeds
<1>2. Phys!Reflects(root)
  BY PhysAssumed, Phys!AnswersAreTrees DEF Phys!IInv
<1>3. placement[h] \in Racks /\ h \in Phys!HostsIn(placement[h])
  BY DEF Phys!IInv, Phys!HostsIn
<1>4. PICK i \in DOMAIN root : \E k \in DOMAIN root[i].racks :
          root[i].racks[k] = [id |-> placement[h], hosts |-> Phys!HostsIn(placement[h])]
  BY <1>2, <1>3 DEF Phys!Reflects
<1> QED BY <1>1, <1>3, <1>4

LEMMA PlacedNext ==
    ASSUME Virt!TypeOK, Virt!ListInv, ControlInv, Phys!IInv, PlacedInv, [Next]_vars
    PROVE  PlacedInv'
<1> USE DEF PlacedInv
<1>a. ASSUME UNCHANGED <<cloud, vmList, placement, physicalRoot, refreshed>>,
             stage \notin {"refreshVMs", "refreshTopology"} \/ stage' \in {"refreshVMs", "refreshTopology"}
      PROVE  PlacedInv'
  BY <1>a DEF HostsPresent, VMs!Existing
<1>1. CASE CloudChanges
  BY <1>1 DEF CloudChanges, VMs!CloudChange, tree, control
<1>2. CASE TopologyChanges
  <2>1. HostsPresent' /\ UNCHANGED <<vmList, physicalRoot, refreshed, stage>>
    BY <1>2 DEF TopologyChanges, vms, control, Topo!HostJoins, Topo!HostLeaves
  <2>2. ASSUME ~HostsLeave, NEW h \in Hosts, placement[h] # Null
        PROVE  placement'[h] # Null
    BY <1>2, <2>2 DEF TopologyChanges, Topo!HostJoins, Topo!HostLeaves, Phys!IInv
  <2>3. \A id \in VMIDs : vmList[id] # Null => vmList[id].host \in Hosts
    BY DEF Virt!TypeOK, Virt!VM
  <2> QED BY <2>1, <2>2, <2>3
<1>3. CASE Settles
  BY <1>3, <1>a DEF Settles, VMs!Settle, Topo!Recover, control
<1>4. CASE Construct \/ \E h \in Handlers : Hook(h)
  BY <1>4, <1>a DEF Construct, Hook, VMs!registerVMEventHandler, VMs!env, tree, control
<1>5. CASE Iterate \/ Exit \/ shutdown
  BY <1>5, <1>a DEF Iterate, Exit, shutdown, Iteration, vms, tree
<1>6. CASE RefreshVMs
  <2>1. VMs!refreshVMList /\ UNCHANGED tree /\ stage' \in {"refreshVMs", "refreshTopology"}
    BY <1>6, Follows DEF RefreshVMs
  <2>2. cloud' = cloud
    BY <2>1
       DEF VMs!refreshVMList, VMs!RetrieveIDs, VMs!FailToRetrieveIDs,
           VMs!addNewVMs, VMs!KeepKnown, VMs!AddNew, VMs!StartUpdating,
           VMs!updateVMs, VMs!UpdateKnown, VMs!StartRemoving,
           VMs!removeVMs, VMs!RemoveOld, VMs!Return,
           VMs!NotifyHandlers, VMs!CallHandler, VMs!HandlerThrows, VMs!AllCalled, VMs!env
  <2>3. HostsPresent'
    BY <2>1, <2>2 DEF HostsPresent, VMs!Existing, tree
  <2>4. ASSUME ~HostsLeave, NEW id \in VMIDs, vmList'[id] # Null
        PROVE  placement'[vmList'[id].host] # Null
    BY <2>1, <2>4, HostsOfVMs DEF HostsPresent, VMs!Existing, tree
  <2> QED BY <2>1, <2>3, <2>4
<1>7. CASE RefreshTopology
  <2>1. UNCHANGED <<cloud, vmList, placement>>
    BY <1>7 DEF RefreshTopology, vms, Topo!refreshTopology, Topo!RefreshSucceeds, Topo!RefreshFails
  <2>2. CASE Topo!RefreshFails
    BY <2>1, <2>2 DEF Topo!RefreshFails, HostsPresent, VMs!Existing
  <2>3. CASE Topo!RefreshSucceeds
    <3>1. ASSUME ~HostsLeave, NEW id \in VMIDs, vmList[id] # Null
          PROVE  \E i \in DOMAIN physicalRoot' : \E k \in DOMAIN physicalRoot'[i].racks :
                     vmList[id].host \in physicalRoot'[i].racks[k].hosts
      <4>1. vmList[id].host \in Hosts /\ placement[vmList[id].host] # Null
        BY <3>1 DEF Virt!TypeOK, Virt!VM
      <4> QED BY <2>3, <4>1, RefreshedTreeHasHosts
    <3> QED BY <2>1, <3>1 DEF HostsPresent, VMs!Existing
  <2> QED BY <1>7, <2>2, <2>3 DEF RefreshTopology, Topo!refreshTopology
<1>8. CASE DaemonsAndSleep
  BY <1>8, <1>a DEF DaemonsAndSleep, vms, tree
<1>9. CASE UNCHANGED vars
  BY <1>9, <1>a DEF vars, vms, tree, control
<1> QED
  BY <1>1, <1>2, <1>3, <1>4, <1>5, <1>6, <1>7, <1>8, <1>9 DEF Next, mainLoop

LEMMA SystemInvariant == Spec => []SystemInv
<1>1. Init => Phys!IInv /\ PlacedInv
  <2> SUFFICES ASSUME Init PROVE Phys!IInv /\ PlacedInv
    OBVIOUS
  <2>1. Phys!IInv
    BY SameInit, PhysAssumed, Phys!InitIInv DEF Init
  <2>2. PlacedInv
    BY DEF Init, PlacedInv, VMs!Init, Topo!Init
  <2> QED BY <2>1, <2>2
<1>2. InformedInv /\ Phys!IInv /\ PlacedInv /\ [Next]_vars => (Phys!IInv /\ PlacedInv)'
  <2> SUFFICES ASSUME InformedInv, Phys!IInv, PlacedInv, [Next]_vars
               PROVE  Phys!IInv' /\ PlacedInv'
    OBVIOUS
  <2>1. [Phys!Next]_(Phys!vars)
    BY TopoStep, SameTopology
  <2>2. Phys!IInv'
    BY <2>1, PhysAssumed, Phys!NextIInv
  <2>3. Virt!TypeOK /\ Virt!ListInv /\ ControlInv
    BY DEF InformedInv, Virt!IInv
  <2>4. PlacedInv'
    BY <2>3, PlacedNext
  <2> QED BY <2>2, <2>4
<1> QED BY <1>1, <1>2, InformedInvariant, PTL DEF Spec, SystemInv

LEMMA SameSearches ==
    ASSUME NEW root, NEW h
    PROVE  /\ Topo!createHostMap(root) = Phys!createHostMap(root)
           /\ Topo!getHostByID(root, h) = Phys!getHostByID(root, h)
BY DEF Topo!createHostMap, Topo!getHostByID, Topo!findHost, Topo!HostOf, Topo!ToSet,
       Topo!SelectInSeq, Topo!SelectLastInSeq, Topo!Min, Topo!Max,
       Phys!createHostMap, Phys!getHostByID, Phys!findHost, Phys!HostOf, Phys!ToSet,
       Phys!SelectInSeq, Phys!SelectLastInSeq, Phys!Min, Phys!Max

\* When daemons are refreshed or deployed after a topology refresh that succeeded,
\* TopologyWriter writes a line for every known VM, with the rack the lookups give.
THEOREM VMsArePlaced == Spec => []KnownVMsArePlaced
<1>1. SystemInv => KnownVMsArePlaced
  <2> DEFINE hostOf == [id \in VMs!Known |-> vmList[id].host]
  <2> SUFFICES ASSUME SystemInv,
                      stage \notin {"refreshVMs", "refreshTopology"}, refreshed, ~HostsLeave,
                      NEW id \in VMs!Known
               PROVE  \E line \in Topo!write(physicalRoot, hostOf) :
                          /\ line.vm = id
                          /\ line.at.rack = Topo!getRackIDForHost(physicalRoot, vmList[id].host)
    BY DEF KnownVMsArePlaced
  <2> DEFINE h == vmList[id].host
             line == [vm |-> id, at |-> Topo!createHostMap(physicalRoot)[h]]
  <2>1. id \in VMIDs /\ vmList[id] # Null
    BY DEF VMs!Known
  <2>2. PICK i \in DOMAIN physicalRoot : \E l \in DOMAIN physicalRoot[i].racks :
            h \in physicalRoot[i].racks[l].hosts
    BY <2>1 DEF SystemInv, PlacedInv
  <2>3. PICK k \in DOMAIN physicalRoot[i].racks : h \in physicalRoot[i].racks[k].hosts
    BY <2>2
  <2> DEFINE place == Phys!HostOf(physicalRoot[i], physicalRoot[i].racks[k], h)
  <2>4. Phys!IsTree(physicalRoot)
    BY DEF SystemInv, Phys!IInv
  <2>5. h \in DOMAIN Phys!createHostMap(physicalRoot)
    BY <2>3, PhysAssumed, Phys!HostsMapped
  <2>6. Phys!createHostMap(physicalRoot)[h] = place
    BY <2>3, <2>4, PhysAssumed, Phys!PlaceMapped
  <2>7. Phys!getHostByID(physicalRoot, h) = place /\ Phys!getHostByID(physicalRoot, h) # Null
    BY <2>3, <2>4, PhysAssumed, Phys!HostFound
  <2>8. line.at.rack = Topo!getRackIDForHost(physicalRoot, h)
    BY <2>6, <2>7, SameSearches DEF Topo!getRackIDForHost
  <2>9. line \in Topo!write(physicalRoot, hostOf)
    BY <2>5, SameSearches DEF Topo!write
  <2> QED BY <2>8, <2>9
<1> QED BY <1>1, SystemInvariant, PTL

-----------------------------------------------------------------------------
(* What daemons are deployed from.                                           *)

\* A middleware at rest since the VMs' refresh began has answered the refresh of the
\* topology as well, and no host has moved since.
TruthInv ==
    /\ stage = "initialise" => ~steady
    /\ (stage \notin {"refreshVMs", "refreshTopology"} /\ quiet /\ steady) => refreshed /\ exact

LEMMA TruthNext == TruthInv /\ [Next]_vars => TruthInv'
<1> SUFFICES ASSUME TruthInv, [Next]_vars PROVE TruthInv'
  OBVIOUS
<1> USE DEF TruthInv
<1>1. CASE CloudChanges
  BY <1>1 DEF CloudChanges, VMs!CloudChange
<1>2. CASE TopologyChanges
  BY <1>2 DEF TopologyChanges, vms, control, Topo!HostJoins, Topo!HostLeaves
<1>3. CASE Settles
  BY <1>3 DEF Settles, VMs!Settle
<1>4. CASE Construct \/ \E h \in Handlers : Hook(h)
  BY <1>4 DEF Construct, Hook, VMs!registerVMEventHandler, VMs!env, tree, control
<1>5. CASE Iterate \/ Exit \/ shutdown
  BY <1>5 DEF Iterate, Exit, shutdown, Iteration, vms, tree
<1>6. CASE RefreshVMs
  BY <1>6, Follows DEF RefreshVMs
<1>7. CASE RefreshTopology
  BY <1>7, Follows DEF RefreshTopology, vms, Topo!refreshTopology, Topo!RefreshSucceeds,
                       Topo!RefreshFails
<1>8. CASE DaemonsAndSleep
  BY <1>8, Follows DEF DaemonsAndSleep, vms, tree
<1>9. CASE UNCHANGED vars
  BY <1>9 DEF vars, vms, tree, control
<1> QED
  BY <1>1, <1>2, <1>3, <1>4, <1>5, <1>6, <1>7, <1>8, <1>9 DEF Next, mainLoop

LEMMA TreeTells ==
    Phys!IInv /\ refreshed /\ exact =>
        \A h \in Hosts : Topo!getRackIDForHost(physicalRoot, h) = Topo!TrueRack(h)
<1> SUFFICES ASSUME Phys!IInv, refreshed, exact, NEW h \in Hosts
             PROVE  Topo!getRackIDForHost(physicalRoot, h) = Topo!TrueRack(h)
  OBVIOUS
<1>1. Phys!getRackIDForHost(physicalRoot, h) = Phys!TrueRack(h)
  BY PhysAssumed, Phys!ReflectedExact DEF Phys!IInv
<1> QED BY <1>1, SameSearches DEF Topo!getRackIDForHost, Phys!getRackIDForHost,
                                  Topo!TrueRack, Phys!TrueRack

\* An iteration that begins with the middleware at rest deploys from what is there,
\* whatever the iterations before it missed.
THEOREM TruthIsDeployed == Spec => []DeploysFromTheTruth
<1>1. Init => TruthInv
  BY DEF Init, TruthInv, VMs!Init
<1>2. Spec => []TruthInv
  BY <1>1, TruthNext, PTL DEF Spec
<1>3. ASSUME SystemInv, TruthInv, DaemonManagerInformed
      PROVE  DeploysFromTheTruth
  <2> SUFFICES ASSUME stage \notin {"refreshVMs", "refreshTopology"}, quiet, steady
               PROVE  /\ KnowsTheTruth
                      /\ \/ view[daemonManager] = VMs!Statuses(cloud)
                         \/ \E i \in DOMAIN handlers :
                               handlers[i] = daemonManager /\ ~VMs!Shielded(i)
    BY DEF DeploysFromTheTruth
  <2>1. Virt!IInv /\ ControlInv /\ Phys!IInv
    BY <1>3 DEF SystemInv, InformedInv
  <2>2. phase = "idle" /\ stage # "initialise" /\ refreshed /\ exact
    BY <1>3, <2>1 DEF ControlInv, TruthInv
  <2>3. VMs!Statuses(vmList) = VMs!Statuses(cloud)
    <3>1. \A id \in VMIDs : Virt!Agrees(id)
      BY <2>1, <2>2 DEF Virt!IInv, Virt!ExactInv
    <3> QED BY <3>1 DEF Virt!Agrees, Virt!StatusOf, VMs!Statuses, VMs!StatusOf
  <2>4. \/ view[daemonManager] = VMs!Statuses(vmList)
        \/ \E i \in DOMAIN handlers : handlers[i] = daemonManager /\ ~VMs!Shielded(i)
    BY <1>3, <2>2 DEF DaemonManagerInformed
  <2>5. \A h \in Hosts : Topo!getRackIDForHost(physicalRoot, h) = Topo!TrueRack(h)
    BY <2>1, <2>2, TreeTells
  <2> QED BY <2>3, <2>4, <2>5 DEF KnowsTheTruth
<1> QED BY <1>2, <1>3, SystemInvariant, DaemonManagerIsInformed, PTL

\* A refresh of VMs or topology, of a middleware at rest, passes only through states in
\* which the list and the tree are as right as they were.
THEOREM TruthStays == Spec => TruthLasts
<1>1. (Phys!IInv /\ refreshed /\ exact =>
          \A h \in Hosts : Topo!getRackIDForHost(physicalRoot, h) = Topo!TrueRack(h))'
  BY TreeTells, PTL
<1>2. SystemInv /\ SystemInv' /\ [Next]_vars =>
        [(quiet /\ steady /\ KnowsTheTruth) => KnowsTheTruth']_vars
  <2> SUFFICES ASSUME SystemInv, SystemInv', Next, quiet, steady, KnowsTheTruth
               PROVE  KnowsTheTruth'
    OBVIOUS
  <2>1. /\ Virt!IInv /\ Phys!IInv'
        /\ [Virt!Next]_(Virt!vars) /\ [Topo!Next]_(Topo!vars)
    BY VMsStep, SameVMs, TopoStep DEF SystemInv, InformedInv
  <2>2. VMs!Statuses(vmList)' = VMs!Statuses(cloud)'
    <3>1. CASE UNCHANGED Virt!vars
      BY <3>1 DEF Virt!vars, Virt!env, KnowsTheTruth
    <3>2. CASE ~UNCHANGED Virt!vars
      <4>1. steady'
        BY <2>1
           DEF Virt!Next, Virt!vars, Virt!env, Virt!CloudChange, Virt!Settle, Virt!refreshVMList,
               Virt!RetrieveIDs, Virt!FailToRetrieveIDs, Virt!addNewVMs, Virt!KeepKnown,
               Virt!AddNew, Virt!StartUpdating, Virt!updateVMs, Virt!UpdateKnown,
               Virt!StartRemoving, Virt!removeVMs, Virt!RemoveOld, Virt!Return,
               Virt!NotifyHandlers, Virt!CallHandler, Virt!HandlerThrows, Virt!AllCalled,
               Virt!registerVMEventHandler
      <4>2. \A id \in VMIDs : Virt!StatusOf(vmList[id]) = Virt!StatusOf(cloud[id])
        BY DEF KnowsTheTruth, VMs!Statuses, VMs!StatusOf, Virt!StatusOf
      <4>3. \A id \in VMIDs : Virt!StatusOf(vmList'[id]) = Virt!StatusOf(cloud'[id])
        BY <2>1, <3>2, <4>1, <4>2, VirtAssumed, Virt!RepairsStep
      <4> QED BY <4>3 DEF VMs!Statuses, VMs!StatusOf, Virt!StatusOf
    <3> QED BY <3>1, <3>2
  <2>3. \A h \in Hosts : (Topo!getRackIDForHost(physicalRoot, h) = Topo!TrueRack(h))'
    <3>1. CASE Topo!RefreshSucceeds
      BY <1>1, <2>1, <3>1 DEF Topo!RefreshSucceeds
    <3>2. CASE ~Topo!RefreshSucceeds
      <4>1. UNCHANGED <<placement, physicalRoot>>
        BY <2>1, <3>2
           DEF Topo!Next, Topo!vars, Topo!HostJoins, Topo!HostLeaves, Topo!Recover,
               Topo!refreshTopology, Topo!RefreshFails
      <4> QED BY <4>1 DEF KnowsTheTruth, Topo!TrueRack, Topo!getRackIDForHost
    <3> QED BY <3>1, <3>2
  <2> QED BY <2>2, <2>3 DEF KnowsTheTruth
<1> QED BY <1>2, SystemInvariant, PTL DEF Spec, TruthLasts

-----------------------------------------------------------------------------
(* Events.                                                                   *)

LEMMA SameFeed ==
    /\ VMs!Statuses(vmList) = Virt!Statuses(vmList)
    /\ VMs!InformedViews = Virt!InformedViews
    /\ VMs!Statuses(vmList') = Virt!Statuses(vmList')
    /\ VMs!InformedViews' = Virt!InformedViews'
<1>1. \A vms1 : VMs!Statuses(vms1) = Virt!Statuses(vms1)
  BY DEF VMs!Statuses, VMs!StatusOf, Virt!Statuses, Virt!StatusOf
<1>2. VMs!Informed = Virt!Informed
  BY DEF VMs!Informed, VMs!Shielded, Virt!Informed, Virt!Shielded
<1>3. VMs!Informed' = Virt!Informed'
  BY DEF VMs!Informed, VMs!Shielded, Virt!Informed, Virt!Shielded
<1> QED BY <1>1, <1>2, <1>3 DEF VMs!InformedViews, Virt!InformedViews

\* The one thread of main and mainLoop tells every handler that is shielded from the
\* exceptions of others each change of the list, once and in order: what the daemon
\* manager hears between its calls is the feed that VMFeed describes.
THEOREM EventsAreAFeed == Spec => VMs!FeedSpec
<1>1. VMs!Spec => Virt!Spec
  BY SameInit, SameVMs, PTL DEF VMs!Spec, Virt!Spec
<1>2. Virt!Spec => Virt!FeedSpec
  BY VirtAssumed, Virt!ImplementsFeed
<1>3. Virt!Feed!Init => VMs!Feed!Init
  BY SameFeed DEF Virt!Feed!Init, VMs!Feed!Init
<1>4. [Virt!Feed!Next]_(Virt!Feed!vars) => [VMs!Feed!Next]_(VMs!Feed!vars)
  BY SameFeed
     DEF Virt!Feed!Next, Virt!Feed!vars, Virt!Feed!Synced, Virt!Feed!Change, Virt!Feed!Deliver,
         Virt!Feed!Subscribe,
         VMs!Feed!Next, VMs!Feed!vars, VMs!Feed!Synced, VMs!Feed!Change, VMs!Feed!Deliver,
         VMs!Feed!Subscribe
<1>5. Virt!FeedSpec => VMs!FeedSpec
  BY <1>3, <1>4, PTL DEF Virt!FeedSpec, VMs!FeedSpec, Virt!Feed!Spec, VMs!Feed!Spec
<1> QED BY <1>1, <1>2, <1>5, Composes, PTL

-----------------------------------------------------------------------------
(* The program ends.                                                         *)

StopInv == stopLoop \in BOOLEAN /\ Virt!TurnInv

LEMMA StopNext == Virt!TypeOK /\ StopInv /\ [Next]_vars => StopInv'
<1> SUFFICES ASSUME Virt!TypeOK, StopInv, [Next]_vars PROVE StopInv'
  OBVIOUS
<1>1. Virt!TurnInv'
  BY VMsStep, SameVMs, VirtAssumed, Virt!TurnNext DEF StopInv
<1>2. stopLoop' \in BOOLEAN
  <2>1. stopLoop' = stopLoop \/ stopLoop' = TRUE
    BY DEF Next, mainLoop, CloudChanges, TopologyChanges, Settles, Hook, Construct, Iterate, Exit,
           RefreshVMs, RefreshTopology, DaemonsAndSleep, shutdown, vars, control
  <2> QED BY <2>1 DEF StopInv
<1> QED BY <1>1, <1>2 DEF StopInv

LEMMA SameFinite == \A S : IsFiniteSet(S) => Virt!IsFiniteSet(S)
BY DEF IsFiniteSet, Virt!IsFiniteSet

LEMMA SameMeasure ==
    /\ VMs!Unregistered = Virt!Unregistered /\ VMs!Loops = Virt!Loops
    /\ VMs!Turns = Virt!Turns /\ VMs!Calls = Virt!Calls
BY DEF VMs!Unregistered, VMs!Loops, VMs!Turns, VMs!Calls, VMs!Cardinality, VMs!IsFiniteSet, VMs!Range,
       Virt!Unregistered, Virt!Loops, Virt!Turns, Virt!Calls, Virt!Cardinality, Virt!IsFiniteSet,
       Virt!Range

LEMMA SameMeasureNext ==
    (/\ VMs!Unregistered = Virt!Unregistered /\ VMs!Loops = Virt!Loops
     /\ VMs!Turns = Virt!Turns /\ VMs!Calls = Virt!Calls)'
BY SameMeasure, PTL

\* The order of LeftToRun, position by position.
LEMMA RunDescends ==
    ASSUME NEW s \in Seq(Nat), NEW t \in Seq(Nat), Len(s) = 5, NEW i \in 1..5,
           s[i] < t[i], \A j \in 1..(i - 1) : s[j] = t[j]
    PROVE  VMs!Precedes(s, t)
BY DEF VMs!Precedes

\* A step after shutdown leaves less to do, at the first position that it changes.
LEMMA StopAdvances ==
    ASSUME IsFiniteSet(Handlers), IsFiniteSet(VMIDs),
           InformedInv, Phys!IInv, StopInv, stopLoop, Next, ~UNCHANGED vars
    PROVE  IF UNCHANGED <<cloud, quiet, placement>>
           THEN \/ Virt!Unregistered' < Virt!Unregistered
                \/ /\ Virt!Unregistered' = Virt!Unregistered
                   /\ Remaining[stage'] < Remaining[stage]
                \/ /\ Virt!Unregistered' = Virt!Unregistered /\ stage' = stage
                   /\ phase' # "idle"
                   /\ phase = "idle" \/ Virt!Loops[phase'] < Virt!Loops[phase]
                \/ /\ Virt!Unregistered' = Virt!Unregistered /\ stage' = stage /\ phase' = phase
                   /\ Virt!Turns' < Virt!Turns
                \/ /\ Virt!Unregistered' = Virt!Unregistered /\ stage' = stage /\ phase' = phase
                   /\ Virt!Turns' = Virt!Turns /\ Virt!Calls' < Virt!Calls
           ELSE UNCHANGED <<Virt!Unregistered, stage, phase, Virt!Turns, Virt!Calls>>
<1>t. /\ Virt!TypeOK /\ Virt!NoteInv /\ Virt!TurnInv /\ ControlInv
      /\ Virt!IsFiniteSet(Handlers) /\ Virt!IsFiniteSet(VMIDs)
  BY SameFinite DEF InformedInv, StopInv, Virt!IInv
<1>a. ASSUME UNCHANGED handlers PROVE Virt!Unregistered' = Virt!Unregistered
  BY <1>a DEF Virt!Unregistered
<1>b. ASSUME UNCHANGED <<handlers, stage, phase, doomed, pending, note, next>>
      PROVE  UNCHANGED <<Virt!Unregistered, stage, phase, Virt!Turns, Virt!Calls>>
  BY <1>b, <1>a DEF Virt!Turns, Virt!Calls
<1>1. CASE CloudChanges
  <2>1. /\ UNCHANGED <<handlers, stage, phase, doomed, pending, note, next>>
        /\ cloud' # cloud
    BY <1>t, <1>1 DEF CloudChanges, control, VMs!CloudChange, VMs!loop, VMs!delivery, Virt!TypeOK
  <2> QED BY <2>1, <1>b
<1>2. CASE TopologyChanges
  <2>1. /\ UNCHANGED <<handlers, stage, phase, doomed, pending, note, next>>
        /\ placement' # placement
    BY <1>2, PhysAssumed
       DEF TopologyChanges, control, vms, Topo!HostJoins, Topo!HostLeaves, Phys!IInv,
           Phys!TopologyManagerAssumption
  <2> QED BY <2>1, <1>b
<1>3. CASE Settles
  <2>1. /\ UNCHANGED <<handlers, stage, phase, doomed, pending, note, next>>
        /\ quiet' # quiet
    BY <1>3 DEF Settles, control, VMs!Settle, VMs!loop, VMs!delivery
  <2> QED BY <2>1, <1>b
<1>4. ASSUME NEW h \in Handlers, VMs!registerVMEventHandler(h), UNCHANGED tree
      PROVE  UNCHANGED <<cloud, quiet, placement>> /\ Virt!Unregistered' < Virt!Unregistered
  <2>1. Virt!registerVMEventHandler(h)
    BY <1>4 DEF VMs!registerVMEventHandler, Virt!registerVMEventHandler, VMs!Range, Virt!Range,
                VMs!Statuses, VMs!StatusOf, Virt!Statuses, Virt!StatusOf, VMs!env, Virt!env,
                VMs!loop, Virt!loop, VMs!delivery, Virt!delivery
  <2> QED BY <1>4, <1>t, <2>1, VirtAssumed, Virt!RegisterCounts
          DEF VMs!registerVMEventHandler, VMs!env, tree
<1>5. CASE Construct \/ \E h \in Handlers : Hook(h)
  BY <1>4, <1>5, ApplicationAssumption DEF Construct, Hook
<1>6. CASE Exit \/ RefreshTopology \/ DaemonsAndSleep
  <2>1. UNCHANGED <<cloud, quiet, placement, handlers>>
    BY <1>6
       DEF Exit, RefreshTopology, DaemonsAndSleep, vms, tree,
           Topo!refreshTopology, Topo!RefreshSucceeds, Topo!RefreshFails
  <2>2. CASE Exit
    BY <2>1, <2>2, <1>a DEF Exit, Remaining
  <2>3. CASE RefreshTopology
    BY <2>1, <2>3, <1>a, Follows DEF RefreshTopology, Remaining
  <2>4. CASE DaemonsAndSleep
    BY <2>1, <2>4, <1>a, Follows DEF DaemonsAndSleep, Remaining
  <2> QED BY <1>6, <2>2, <2>3, <2>4
<1>7. CASE RefreshVMs
  <2>1. /\ VMs!refreshVMList /\ stage = "refreshVMs" /\ UNCHANGED tree /\ stopLoop' = stopLoop
        /\ stage' = IF phase' = "idle" THEN "refreshTopology" ELSE stage
    BY <1>7, Follows DEF RefreshVMs
  <2>2. UNCHANGED <<cloud, quiet, placement, handlers>>
    BY <2>1
       DEF tree, VMs!refreshVMList, VMs!RetrieveIDs, VMs!FailToRetrieveIDs,
           VMs!addNewVMs, VMs!KeepKnown, VMs!AddNew, VMs!StartUpdating,
           VMs!updateVMs, VMs!UpdateKnown, VMs!StartRemoving,
           VMs!removeVMs, VMs!RemoveOld, VMs!Return,
           VMs!NotifyHandlers, VMs!CallHandler, VMs!HandlerThrows, VMs!AllCalled, VMs!env
  <2>3. phase' = "idle" => Remaining[stage'] < Remaining[stage]
    BY <2>1 DEF Remaining
  <2>4. CASE phase = "idle"
    BY <1>a, <2>1, <2>2, <2>3, <2>4
  <2>5. CASE phase # "idle" /\ phase' # "idle"
    <3>1. ~UNCHANGED Virt!vars
      BY <2>1, <2>5 DEF Virt!vars, Virt!env, Virt!loop, Virt!delivery, vars, vms, control
    <3>2. Virt!Next
      BY <3>1, VMsStep, SameVMs
    <3>3. \/ Virt!Unregistered' < Virt!Unregistered
          \/ Virt!Loops[phase]' < Virt!Loops[phase]
          \/ phase' = phase /\ Virt!Turns' < Virt!Turns
          \/ phase' = phase /\ Virt!Turns' = Virt!Turns /\ Virt!Calls' < Virt!Calls
      BY <1>t, <2>2, <2>5, <3>2, VirtAssumed, Virt!StepAdvances
    <3> QED BY <1>a, <2>1, <2>2, <2>5, <3>3 DEF Virt!Loops
  <2>6. CASE phase # "idle" /\ phase' = "idle"
    BY <1>a, <2>2, <2>3, <2>6
  <2> QED BY <2>4, <2>5, <2>6
<1>8. CASE shutdown
  BY <1>8 DEF shutdown, vars, control, StopInv
<1>9. ~Iterate
  BY DEF Iterate
<1> QED
  BY <1>1, <1>2, <1>3, <1>5, <1>6, <1>7, <1>8, <1>9 DEF Next, mainLoop

LEMMA RunTyped ==
    IsFiniteSet(Handlers) /\ IsFiniteSet(VMIDs) /\ InformedInv /\ StopInv =>
        /\ LeftToRun \in Seq(Nat) /\ Len(LeftToRun) = 5
        /\ Remaining[stage] \in Nat /\ Virt!Loops[phase] \in 0..3
<1> SUFFICES ASSUME IsFiniteSet(Handlers), IsFiniteSet(VMIDs), InformedInv, StopInv
             PROVE  /\ LeftToRun \in Seq(Nat) /\ Len(LeftToRun) = 5
                    /\ Remaining[stage] \in Nat /\ Virt!Loops[phase] \in 0..3
  OBVIOUS
<1>1. Virt!Unregistered \in Nat /\ Virt!Turns \in Nat /\ Virt!Calls \in Nat
  BY SameFinite, VirtAssumed, Virt!LeftTyped DEF InformedInv, StopInv, Virt!IInv
<1>2. Remaining[stage] \in Nat
  BY DEF InformedInv, ControlInv, Stages, Remaining
<1>3. Virt!Loops[phase] \in 0..3
  BY DEF InformedInv, Virt!IInv, Virt!TypeOK, Virt!Phases, Virt!Loops
<1>4. LeftToRun = <<Virt!Unregistered, Remaining[stage],
                    IF phase = "idle" THEN 4 ELSE Virt!Loops[phase], Virt!Turns, Virt!Calls>>
  BY SameMeasure DEF LeftToRun
<1> QED BY <1>1, <1>2, <1>3, <1>4

\* Whatever the middleware does and the hooks throw or register, a program that is to
\* stop does so after finitely many steps of its own.
THEOREM ShutdownProgresses ==
    IsFiniteSet(Handlers) /\ IsFiniteSet(VMIDs) => (Spec => ShutdownAdvances)
<1> SUFFICES ASSUME IsFiniteSet(Handlers), IsFiniteSet(VMIDs) PROVE Spec => ShutdownAdvances
  OBVIOUS
<1>1. Init => StopInv
  BY DEF Init, StopInv, VMs!Init, Virt!TurnInv
<1>2. InformedInv => Virt!TypeOK
  BY DEF InformedInv, Virt!IInv
<1>3. Spec => []StopInv
  BY <1>1, <1>2, StopNext, InformedInvariant, PTL DEF Spec
<1>4. InformedInv /\ StopInv =>
        /\ LeftToRun \in Seq(Nat) /\ Len(LeftToRun) = 5
        /\ Remaining[stage] \in Nat /\ Virt!Loops[phase] \in 0..3
  BY RunTyped
<1>5. (InformedInv /\ StopInv =>
        /\ LeftToRun \in Seq(Nat) /\ Len(LeftToRun) = 5
        /\ Remaining[stage] \in Nat /\ Virt!Loops[phase] \in 0..3)'
  BY <1>4, PTL
<1>6. SystemInv /\ SystemInv' /\ StopInv /\ StopInv' /\ [Next]_vars =>
        [stopLoop =>
            IF UNCHANGED <<cloud, quiet, placement>> THEN VMs!Precedes(LeftToRun', LeftToRun)
            ELSE UNCHANGED LeftToRun]_vars
  <2> SUFFICES ASSUME SystemInv, SystemInv', StopInv, StopInv', Next, ~UNCHANGED vars, stopLoop
               PROVE  IF UNCHANGED <<cloud, quiet, placement>>
                      THEN VMs!Precedes(LeftToRun', LeftToRun)
                      ELSE UNCHANGED LeftToRun
    OBVIOUS
  <2> DEFINE s == LeftToRun'
             t == LeftToRun
  <2>t. /\ s \in Seq(Nat) /\ t \in Seq(Nat) /\ Len(s) = 5 /\ Len(t) = 5
        /\ Virt!Loops[phase] \in 0..3 /\ Virt!Loops[phase'] \in 0..3
    BY <1>4, <1>5 DEF SystemInv
  <2>1. /\ t[1] = Virt!Unregistered /\ t[2] = Remaining[stage]
        /\ t[3] = (IF phase = "idle" THEN 4 ELSE Virt!Loops[phase])
        /\ t[4] = Virt!Turns /\ t[5] = Virt!Calls
    BY SameMeasure DEF LeftToRun
  <2>2. /\ s[1] = Virt!Unregistered' /\ s[2] = Remaining[stage']
        /\ s[3] = (IF phase' = "idle" THEN 4 ELSE Virt!Loops[phase'])
        /\ s[4] = Virt!Turns' /\ s[5] = Virt!Calls'
    BY SameMeasure, SameMeasureNext DEF LeftToRun
  <2>3. CASE UNCHANGED <<cloud, quiet, placement>>
    <3> HIDE DEF s, t
    <3>1. \/ s[1] < t[1]
          \/ s[1] = t[1] /\ s[2] < t[2]
          \/ s[1] = t[1] /\ s[2] = t[2] /\ s[3] < t[3]
          \/ s[1] = t[1] /\ s[2] = t[2] /\ s[3] = t[3] /\ s[4] < t[4]
          \/ s[1] = t[1] /\ s[2] = t[2] /\ s[3] = t[3] /\ s[4] = t[4] /\ s[5] < t[5]
      BY <2>t, <2>1, <2>2, <2>3, StopAdvances DEF SystemInv
    <3>2. \E i \in 1..5 : s[i] < t[i] /\ \A j \in 1..(i - 1) : s[j] = t[j]
      BY <3>1
    <3>3. VMs!Precedes(s, t)
      BY <2>t, <3>2, RunDescends
    <3> QED BY <2>3, <3>3 DEF s, t
  <2>4. CASE ~UNCHANGED <<cloud, quiet, placement>>
    <3>1. UNCHANGED <<Virt!Unregistered, stage, phase, Virt!Turns, Virt!Calls>>
      BY <2>4, StopAdvances DEF SystemInv
    <3>2. s = t
      BY <3>1, SameMeasure, SameMeasureNext DEF LeftToRun
    <3> QED BY <2>4, <3>2
  <2> QED BY <2>3, <2>4
<1> QED BY <1>3, <1>6, SystemInvariant, PTL DEF Spec, ShutdownAdvances
=============================================================================
