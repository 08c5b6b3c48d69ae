----------------------------- MODULE Application -----------------------------
(***************************************************************************)
(* nebu::app::framework::Application and main: the two managers composed    *)
(* the way main wires them and mainLoop drives them, in front of one         *)
(* middleware.  The concrete DaemonManager belongs to an extension; here it  *)
(* is the event handler the constructor registers, called once per           *)
(* iteration to refresh and once to deploy.                                  *)
(***************************************************************************)
EXTENDS Naturals, Sequences

CONSTANTS
    VMIDs, VMStatus, Hosts, Handlers, ThrowingHandlers, MaxListing,     \* VMManager
    DataCenters, Racks, DataCenterOf, HostsLeave, ID_UNKNOWN,           \* TopologyManager
    Null,
    daemonManager       \* the handler that main takes from the hooks

VARIABLES
    cloud, quiet, vmList, handlers, phase, vmIDs, pending, filtered, doomed,
    note, next, succes, view, steady,           \* VMManager
    placement, physicalRoot, refreshed, exact,  \* TopologyManager
    stage,      \* where main or mainLoop is
    stopLoop    \* set by shutdown

VMs == INSTANCE VMManager
Topo == INSTANCE TopologyManager WITH reachable <- quiet

ASSUME ApplicationAssumption ==
    /\ daemonManager \in Handlers
    /\ VMs!VMManagerAssumption
    /\ Topo!TopologyManagerAssumption

vms == <<cloud, quiet, vmList, handlers, phase, vmIDs, pending, filtered, doomed,
         note, next, succes, view, steady>>
tree == <<placement, physicalRoot, refreshed, exact>>
control == <<stage, stopLoop>>
vars == <<vms, tree, control>>

-----------------------------------------------------------------------------
(* The middleware: VMs run on hosts that are in the topology.                *)

HostsPresent == \A id \in VMs!Existing : placement[cloud[id].host] # Null

CloudChanges ==
    /\ \E id \in VMIDs : VMs!CloudChange(id)
    /\ UNCHANGED <<tree, control>>
    /\ HostsPresent'

TopologyChanges ==
    /\ \E h \in Hosts : (\E r \in Racks : Topo!HostJoins(h, r)) \/ Topo!HostLeaves(h)
    /\ UNCHANGED <<vms, control>>
    /\ HostsPresent'

Settles ==
    /\ VMs!Settle
    /\ Topo!Recover
    /\ UNCHANGED control

-----------------------------------------------------------------------------
(* main, up to the constructor of the application.                           *)

Init ==
    /\ VMs!Init
    /\ Topo!Init
    /\ HostsPresent
    /\ stage = "initialise"
    /\ stopLoop = FALSE

\* The hooks of the extension: initialise, then those around every stage and the
\* event handlers.  None of them runs while the loop sleeps.
Hook(h) ==
    /\ stage \notin {"sleep", "exited"}
    /\ h # daemonManager
    /\ VMs!registerVMEventHandler(h)
    /\ UNCHANGED <<tree, control>>

\* (mutant of Construct) the daemon manager is not registered
Unregistered ==
    /\ stage = "initialise"
    /\ stage' = "loop"
    /\ UNCHANGED <<vms, tree, stopLoop>>

Construct ==
    /\ stage = "initialise"
    /\ VMs!registerVMEventHandler(daemonManager)
    /\ stage' = "loop"
    /\ UNCHANGED <<tree, stopLoop>>

-----------------------------------------------------------------------------
(* mainLoop.                                                                 *)

\* (mutant of Iteration) the two refreshes trade places
TopologyFirst == <<"refreshTopology", "refreshVMs", "refreshDaemons", "deployDaemons", "sleep", "loop">>

\* The calls of one iteration, in the order of the body.
Iteration == <<"refreshVMs", "refreshTopology", "refreshDaemons", "deployDaemons", "sleep", "loop">>

After(s) == Iteration[1 + CHOOSE i \in DOMAIN Iteration : Iteration[i] = s]

\* (mutant of Iterate) a pending shutdown is forgotten
IterateAnew ==
    /\ stage = "loop"
    /\ stage' = Iteration[1]
    /\ stopLoop' = FALSE
    /\ UNCHANGED <<vms, tree>>

\* The test of the while loop.
Iterate ==
    /\ stage = "loop"
    /\ ~stopLoop
    /\ stage' = Iteration[1]
    /\ UNCHANGED <<vms, tree, stopLoop>>

Exit ==
    /\ stage = "loop"
    /\ stopLoop
    /\ stage' = "exited"
    /\ UNCHANGED <<vms, tree, stopLoop>>

\* Its steps are those of the module; the result is not looked at.
RefreshVMs ==
    /\ stage = "refreshVMs"
    /\ VMs!refreshVMList
    /\ stage' = IF phase' = "idle" THEN After(stage) ELSE stage
    /\ UNCHANGED <<tree, stopLoop>>

RefreshTopology ==
    /\ stage = "refreshTopology"
    /\ Topo!refreshTopology
    /\ stage' = After(stage)
    /\ UNCHANGED <<vms, stopLoop>>

\* refreshDaemons and deployDaemons of the extension, then sleep.
DaemonsAndSleep ==
    /\ stage \in {"refreshDaemons", "deployDaemons", "sleep"}
    /\ stage' = After(stage)
    /\ UNCHANGED <<vms, tree, stopLoop>>

mainLoop == Iterate \/ Exit \/ RefreshVMs \/ RefreshTopology \/ DaemonsAndSleep

\* By a hook, or by another thread at any time; a repeated call changes nothing.
shutdown ==
    /\ stage \notin {"initialise", "exited"}
    /\ stopLoop' = TRUE
    /\ UNCHANGED <<vms, tree, stage>>

Next ==
    \/ CloudChanges \/ TopologyChanges \/ Settles
    \/ \E h \in Handlers : Hook(h)
    \/ Construct
    \/ mainLoop
    \/ shutdown

Spec == Init /\ [][Next]_vars

\* The one thread that runs main and mainLoop is never stopped for good.
FairSpec == Spec /\ WF_vars(Construct \/ mainLoop)

-----------------------------------------------------------------------------
(* Properties                                                                *)

\* What the daemon manager and the hooks after refreshTopology can rely on: unless
\* that call failed, every VM in vmList has a place in the tree, so that neither
\* the lookups nor the file of TopologyWriter miss one.  It takes the VMs to be
\* refreshed before the topology, and hosts that do not leave.
KnownVMsArePlaced ==
    (stage \notin {"refreshVMs", "refreshTopology"} /\ refreshed /\ ~HostsLeave) =>
        LET lines == Topo!write(physicalRoot, [id \in VMs!Known |-> vmList[id].host])
        IN \A id \in VMs!Known : \E line \in lines :
              /\ line.vm = id
              /\ line.at.rack = Topo!getRackIDForHost(physicalRoot, vmList[id].host)

\* When it refreshes or deploys daemons, the daemon manager has been told of every
\* VM in vmList and of its present status, whatever handlers the extension registers
\* and whenever.  Only a throwing handler registered before it can prevent that.
DaemonManagerInformed ==
    stage \notin {"initialise", "refreshVMs"} =>
        \/ view[daemonManager] = VMs!Statuses(vmList)
        \/ \E i \in DOMAIN handlers : handlers[i] = daemonManager /\ ~VMs!Shielded(i)

\* Every VM's status and every host's place are known.
KnowsTheTruth ==
    /\ VMs!Statuses(vmList) = VMs!Statuses(cloud)
    /\ \A h \in Hosts : Topo!getRackIDForHost(physicalRoot, h) = Topo!TrueRack(h)

\* The daemons are refreshed and deployed from the truth whenever the iteration began
\* with the middleware at rest: whatever failed or was thrown before, and in this very
\* iteration by hooks that addNewVMs and updateVMs call, the list has every VM with its
\* status, the daemon manager has been told so, and the lookups know where every host is.
DeploysFromTheTruth ==
    (stage \notin {"refreshVMs", "refreshTopology"} /\ quiet /\ steady) =>
        /\ KnowsTheTruth
        /\ \/ view[daemonManager] = VMs!Statuses(cloud)
           \/ \E i \in DOMAIN handlers : handlers[i] = daemonManager /\ ~VMs!Shielded(i)

\* Once it is known of a middleware at rest it stays so, in the middle of every later
\* refresh as well: neither list nor tree is ever emptied to be filled again.
TruthLasts == [][(quiet /\ steady /\ KnowsTheTruth) => KnowsTheTruth']_vars

\* "The main loop will complete its current iteration.  Afterwards, the
\* application stops and exits gracefully": whatever the middleware does, and
\* however many handlers are registered in the meantime.
ShutdownExits == stopLoop ~> stage = "exited"

\* What is left of a program that is to stop: the stages of the iteration, and of the
\* one that refreshes VMs what VMManager has left, all of it until it begins.
Remaining ==
    [initialise |-> 7, refreshVMs |-> 6, refreshTopology |-> 5, refreshDaemons |-> 4,
     deployDaemons |-> 3, sleep |-> 2, loop |-> 1, exited |-> 0]

LeftToRun ==
    <<VMs!Unregistered, Remaining[stage], IF phase = "idle" THEN 4 ELSE VMs!Loops[phase],
      VMs!Turns, VMs!Calls>>

\* Why it does: once shutdown is called every step, of mainLoop, of a refresh or of a
\* hook that registers, leaves less to do, also when hooks throw; and the middleware,
\* which may change for ever, leaves it the same.
ShutdownAdvances ==
    [][stopLoop =>
         IF UNCHANGED <<cloud, quiet, placement>> THEN VMs!Precedes(LeftToRun', LeftToRun)
         ELSE UNCHANGED LeftToRun]_vars

\* Every event of the list reaches every handler, whatever the loop does in between
\* and even when it is being shut down.
EventsArrive == VMs!FairFeedSpec

\* "true iff no exceptions occured in contacting the middleware": a refresh
\* with a middleware that answered every request returns true.
CleanRefreshes == VMs!CleanRefreshSucceeds

\* Once the middleware is at rest the application knows every VM's status and
\* every host's place, unless it is shut down first.
Converges == <>quiet => <>[](stage = "exited" \/ KnowsTheTruth)
=============================================================================
