----------------------------- MODULE VMManager -----------------------------
(***************************************************************************)
(* nebu::app::framework::VMManager: the list of the application's virtual   *)
(* machines, refreshed from the Nebu middleware by refreshVMList and         *)
(* published to event handlers.  The thread that refreshes takes one step    *)
(* per request to the middleware and per hook called; between two steps the  *)
(* middleware moves on by itself, and inside a hook an extension can         *)
(* register another handler or throw.                                        *)
(***************************************************************************)
EXTENDS Naturals, Sequences, FiniteSets, Functions

CONSTANTS
    VMIDs,              \* the UUIDs of virtual machines
    VMStatus,           \* bound: the values of the enum VMStatus that occur
    Hosts,              \* the physical hosts the VMs run on
    Handlers,           \* the VMEventHandlers an extension may register
    ThrowingHandlers,   \* those whose hooks may throw a NebuServerException
    MaxListing,         \* bound: the longest vector of IDs the middleware answers
    Null                \* the empty shared_ptr; also: no hook is being called

VM == [status : VMStatus, host : Hosts]

\* What the handlers are being told: VM id now has this status, or is gone (Null).
Note == [id : VMIDs, learns : VMStatus \cup {Null}]

ASSUME VMManagerAssumption ==
    /\ VMStatus \subseteq {"ON", "OFF", "UNKNOWN"}
    /\ ThrowingHandlers \subseteq Handlers
    /\ MaxListing \in Nat
    /\ Null \notin VM /\ Null \notin VMStatus /\ Null \notin Note

VARIABLES
    cloud,          \* the middleware: every VM as it is, Null if it does not exist
    quiet,          \* the middleware answers every request and its VMs are at rest
    vmList,         \* vmList[id]: the VM known under this id, or Null
    handlers,       \* vmEventHandlers, in the order of registration
    phase,          \* the part of refreshVMList that runs
    vmIDs,          \* the vector of IDs the middleware answered
    pending,        \* the IDs the loop of addNewVMs or updateVMs has yet to reach
    filtered,       \* vmIDsFiltered up to addNewVMs' iterator: the IDs known before
    doomed,         \* the VMs removeVMs has yet to remove
    note,           \* the event FOREACH_EVENTHANDLER is delivering, or Null
    next,           \* the position in handlers of the next one to be called
    succes,         \* what refreshVMList returns (returned, once phase is "idle")
    view,           \* history: every VM's status as a handler knows it
    steady          \* history: the middleware has not changed since the refresh began

env == <<cloud, quiet, steady>>
loop == <<phase, vmIDs, pending, filtered, doomed>>
delivery == <<note, next>>
vars == <<env, vmList, handlers, loop, delivery, succes, view>>

Phases == {"idle", "add", "update", "remove", "terminated"}

StatusOf(vm) == IF vm = Null THEN Null ELSE vm.status

Known == {id \in VMIDs : vmList[id] # Null}

Statuses(vms) == [id \in VMIDs |-> StatusOf(vms[id])]

TypeOK ==
    /\ cloud \in [VMIDs -> VM \cup {Null}]
    /\ quiet \in BOOLEAN
    /\ vmList \in [VMIDs -> VM \cup {Null}]
    /\ handlers \in Seq(Handlers)
    /\ phase \in Phases
    /\ vmIDs \in Seq(VMIDs)
    /\ pending \in Seq(VMIDs)
    /\ filtered \in Seq(VMIDs)
    /\ doomed \in SUBSET VMIDs
    /\ note \in Note \cup {Null}
    /\ next \in Nat \ {0}
    /\ succes \in BOOLEAN
    /\ view \in [Handlers -> [VMIDs -> VMStatus \cup {Null}]]
    /\ steady \in BOOLEAN

Init ==
    /\ cloud \in [VMIDs -> VM \cup {Null}]
    /\ quiet = FALSE
    /\ vmList = [id \in VMIDs |-> Null]
    /\ handlers = << >>
    /\ phase = "idle"
    /\ vmIDs = << >> /\ pending = << >> /\ filtered = << >>
    /\ doomed = {}
    /\ note = Null /\ next = 1
    /\ succes = FALSE
    /\ view = [h \in Handlers |-> [id \in VMIDs |-> Null]]
    /\ steady = FALSE

-----------------------------------------------------------------------------
(* The Nebu middleware, as the requests of refreshVMList see it.             *)

Existing == {id \in VMIDs : cloud[id] # Null}

\* A VM is created, destroyed, switched, or moved to another host.
CloudChange(id) ==
    /\ ~quiet
    /\ \E vm \in (VM \cup {Null}) \ {cloud[id]} : cloud' = [cloud EXCEPT ![id] = vm]
    /\ steady' = FALSE
    /\ UNCHANGED <<quiet, vmList, handlers, loop, delivery, succes, view>>

Settle ==
    /\ ~quiet
    /\ quiet' = TRUE
    /\ steady' = FALSE
    /\ UNCHANGED <<cloud, vmList, handlers, loop, delivery, succes, view>>

\* getVirtualMachineIDs(): the IDs of the VMs there are, in some order.
Listings ==
    {s \in UNION {[1..n -> VMIDs] : n \in 0..MaxListing} : Range(s) = Existing}

\* getVirtualMachine(id) answers with the VM ...
Retrieves(id) == cloud[id] # Null
\* ... or throws a NebuServerException, as it does for a VM that is no more.
Throws(id) == ~quiet \/ cloud[id] = Null

-----------------------------------------------------------------------------
(* Changes to vmList, each followed by a call of every handler.              *)

\* (mutant of VMEventFor) the switch falls through
MissingBreaks == [ON |-> "UNKNOWN", OFF |-> "UNKNOWN", UNKNOWN |-> "UNKNOWN"]

\* The switch of updateVM.
VMEventFor == [ON |-> "POWERED_ON", OFF |-> "POWERED_OFF", UNKNOWN |-> "UNKNOWN"]

\* How a handler reads the VMEvent it gets.
\* (mutant of StatusAfter) the event is kept as it is
RawEvents == [POWERED_ON |-> "POWERED_ON", POWERED_OFF |-> "POWERED_OFF", UNKNOWN |-> "UNKNOWN"]

StatusAfter == [POWERED_ON |-> "ON", POWERED_OFF |-> "OFF", UNKNOWN |-> "UNKNOWN"]

\* (mutant of Notify) the loop misses the first handler
SkipsFirst(id, learned) ==
    /\ note' = [id |-> id, learns |-> learned]
    /\ next' = 2

Notify(id, learned) ==
    /\ note' = [id |-> id, learns |-> learned]
    /\ next' = 1

EndDelivery == note' = Null /\ next' = 1

addVM(id, vm) ==
    /\ vmList' = [vmList EXCEPT ![id] = vm]
    /\ Notify(id, vm.status)

updateVM(id, updated) ==
    /\ vmList' = [vmList EXCEPT ![id].status = updated.status]
    /\ Notify(id, StatusAfter[VMEventFor[updated.status]])

removeVM(id) ==
    /\ vmList' = [vmList EXCEPT ![id] = Null]
    /\ Notify(id, Null)

-----------------------------------------------------------------------------
(* refreshVMList: the list of IDs, then addNewVMs, updateVMs and removeVMs.  *)

\* (mutant of RefreshBegins) succes is never reset
FailureSticks == UNCHANGED succes

RefreshBegins == succes' = TRUE

\* (mutant of RetrieveIDs) the list is emptied, to be filled again
RebuildList ==
    /\ phase = "idle"
    /\ \E ids \in Listings : vmIDs' = ids /\ pending' = ids
    /\ phase' = "add"
    /\ RefreshBegins
    /\ steady' = TRUE
    /\ vmList' = [id \in VMIDs |-> Null]
    /\ UNCHANGED <<cloud, quiet, handlers, filtered, doomed, delivery, view>>

RetrieveIDs ==
    /\ phase = "idle"
    /\ \E ids \in Listings : vmIDs' = ids /\ pending' = ids
    /\ phase' = "add"
    /\ RefreshBegins
    /\ steady' = TRUE
    /\ UNCHANGED <<cloud, quiet, vmList, handlers, filtered, doomed, delivery, view>>

\* (mutant of FailToRetrieveIDs) the refresh goes on with an empty list
FailureAsEmptyList ==
    /\ phase = "idle"
    /\ ~quiet
    /\ vmIDs' = << >> /\ pending' = << >>
    /\ phase' = "add"
    /\ succes' = FALSE
    /\ steady' = TRUE
    /\ UNCHANGED <<cloud, quiet, vmList, handlers, filtered, doomed, delivery, view>>

FailToRetrieveIDs ==
    /\ phase = "idle"
    /\ ~quiet
    /\ succes' = FALSE
    /\ steady' = TRUE
    /\ UNCHANGED <<cloud, quiet, vmList, handlers, loop, delivery, view>>

\* (mutant of RequestFails) succes is not cleared
FailureForgotten == UNCHANGED <<succes, vmList, delivery>>

\* (mutant of RequestFails) a known VM that cannot be read is taken to be off
FailureMeansOff ==
    /\ succes' = FALSE
    /\ vmList' = IF phase = "update" THEN [vmList EXCEPT ![Head(pending)].status = "OFF"] ELSE vmList
    /\ UNCHANGED delivery

\* A request for one VM throws: it is logged, and the loop goes on.
RequestFails ==
    /\ succes' = FALSE
    /\ UNCHANGED <<vmList, delivery>>

\* addNewVMs reaches an ID that is in vmList already: it is left to updateVMs.
KeepKnown ==
    /\ phase = "add" /\ note = Null /\ pending # << >>
    /\ vmList[Head(pending)] # Null
    /\ filtered' = Append(filtered, Head(pending))
    /\ pending' = Tail(pending)
    /\ UNCHANGED <<env, vmList, handlers, phase, vmIDs, doomed, delivery, succes, view>>

AddNew ==
    /\ phase = "add" /\ note = Null /\ pending # << >>
    /\ vmList[Head(pending)] = Null
    /\ \/ /\ Retrieves(Head(pending))
          /\ addVM(Head(pending), cloud[Head(pending)])
          /\ UNCHANGED succes
       \/ /\ Throws(Head(pending))
          /\ RequestFails
    /\ pending' = Tail(pending)
    /\ UNCHANGED <<env, handlers, phase, vmIDs, filtered, doomed, view>>

\* (mutant of ToUpdate) the unfiltered list is updated
UpdateAll == vmIDs

ToUpdate == filtered

StartUpdating ==
    /\ phase = "add" /\ note = Null /\ pending = << >>
    /\ phase' = "update"
    /\ pending' = ToUpdate
    /\ UNCHANGED <<env, vmList, handlers, vmIDs, filtered, doomed, delivery, succes, view>>

UpdateKnown ==
    /\ phase = "update" /\ note = Null /\ pending # << >>
    /\ LET id == Head(pending) IN
       \/ /\ Retrieves(id)
          /\ vmList[id].status # cloud[id].status
          /\ updateVM(id, cloud[id])
          /\ UNCHANGED succes
       \/ /\ Retrieves(id)
          /\ vmList[id].status = cloud[id].status
          /\ UNCHANGED <<vmList, delivery, succes>>
       \/ /\ Throws(id)
          /\ RequestFails
    /\ pending' = Tail(pending)
    /\ UNCHANGED <<env, handlers, phase, vmIDs, filtered, doomed, view>>

\* (mutant of ToRemove) the filtered list is compared with
RemoveNew == Known \ Range(filtered)

\* removeVMs copies the list of known VMs, and will drop those that were not listed.
ToRemove == Known \ Range(vmIDs)

StartRemoving ==
    /\ phase = "update" /\ note = Null /\ pending = << >>
    /\ phase' = "remove"
    /\ doomed' = ToRemove
    /\ UNCHANGED <<env, vmList, handlers, vmIDs, pending, filtered, delivery, succes, view>>

RemoveOld(id) ==
    /\ phase = "remove" /\ note = Null
    /\ id \in doomed
    /\ removeVM(id)
    /\ doomed' = doomed \ {id}
    /\ UNCHANGED <<env, handlers, phase, vmIDs, pending, filtered, succes, view>>

Return ==
    /\ phase = "remove" /\ note = Null /\ doomed = {}
    /\ phase' = "idle"
    /\ filtered' = << >>
    /\ vmIDs' = << >>
    /\ UNCHANGED <<env, vmList, handlers, pending, doomed, delivery, succes, view>>

-----------------------------------------------------------------------------
(* FOREACH_EVENTHANDLER: the loop over the handlers, reading the list anew.  *)

CallHandler ==
    /\ phase # "terminated" /\ note # Null /\ next <= Len(handlers)
    /\ view' = [view EXCEPT ![handlers[next]][note.id] = note.learns]
    /\ next' = next + 1
    /\ UNCHANGED <<env, vmList, handlers, loop, note, succes>>

\* (mutant of HandlerThrows) the try block is around the loops: the refresh is over
ThrowEndsRefresh ==
    /\ phase # "terminated" /\ note # Null /\ next <= Len(handlers)
    /\ handlers[next] \in ThrowingHandlers
    /\ phase' = "idle" /\ EndDelivery
    /\ succes' = FALSE
    /\ vmIDs' = << >> /\ pending' = << >> /\ filtered' = << >> /\ doomed' = {}
    /\ UNCHANGED <<env, vmList, handlers, view>>

\* (mutant of HandlerThrows) the handler that threw is called again
HandlerRetried ==
    /\ phase # "terminated" /\ note # Null /\ next <= Len(handlers)
    /\ handlers[next] \in ThrowingHandlers
    /\ succes' = FALSE
    /\ UNCHANGED <<env, vmList, handlers, loop, delivery, view>>

\* The hook throws instead of returning.  addNewVMs and updateVMs catch it like a failed request;
\* nothing around removeVMs does, nor in mainLoop or main: the program ends.
HandlerThrows ==
    /\ phase # "terminated" /\ note # Null /\ next <= Len(handlers)
    /\ handlers[next] \in ThrowingHandlers
    /\ \/ /\ phase \in {"add", "update"}
          /\ EndDelivery
          /\ succes' = FALSE
          /\ UNCHANGED phase
       \/ /\ phase = "remove"
          /\ phase' = "terminated"
          /\ UNCHANGED <<delivery, succes>>
    /\ UNCHANGED <<env, vmList, handlers, vmIDs, pending, filtered, doomed, view>>

\* (mutant of AllCalled) the loop ends after one handler
StopAtFirst ==
    /\ phase # "terminated" /\ note # Null /\ next > 1
    /\ EndDelivery
    /\ UNCHANGED <<env, vmList, handlers, loop, succes, view>>

AllCalled ==
    /\ phase # "terminated" /\ note # Null /\ next > Len(handlers)
    /\ EndDelivery
    /\ UNCHANGED <<env, vmList, handlers, loop, succes, view>>

\* An extension has control between two refreshes and inside a hook, that of
\* handlers[next] until it returns or throws.  A handler that registers reads the
\* list (getVMs) to know what it will not be told.
registerVMEventHandler(h) ==
    /\ \/ phase = "idle"
       \/ phase # "terminated" /\ note # Null /\ next <= Len(handlers)
    /\ h \notin Range(handlers)
    /\ handlers' = Append(handlers, h)
    /\ view' = [view EXCEPT ![h] = Statuses(vmList)]
    /\ UNCHANGED <<env, vmList, loop, delivery, succes>>

-----------------------------------------------------------------------------
addNewVMs == KeepKnown \/ AddNew \/ StartUpdating
updateVMs == UpdateKnown \/ StartRemoving
removeVMs == (\E id \in VMIDs : RemoveOld(id)) \/ Return
NotifyHandlers == CallHandler \/ HandlerThrows \/ AllCalled

refreshVMList ==
    RetrieveIDs \/ FailToRetrieveIDs \/ addNewVMs \/ updateVMs \/ removeVMs \/ NotifyHandlers

Next ==
    \/ \E id \in VMIDs : CloudChange(id)
    \/ Settle
    \/ refreshVMList
    \/ \E h \in Handlers : registerVMEventHandler(h)

Spec == Init /\ [][Next]_vars

-----------------------------------------------------------------------------
(* Properties                                                                *)

\* No handler up to this position may throw.
Shielded(i) == \A j \in 1..i : handlers[j] \notin ThrowingHandlers

\* A handler with no throwing handler before it knows every VM with the status
\* vmList has for it, whenever it registered.  The one VM that may differ is
\* the one FOREACH_EVENTHANDLER is reporting, and only until the handler's turn.
ViewsAgree ==
    \A i \in DOMAIN handlers : Shielded(i) =>
        \A id \in VMIDs :
            \/ view[handlers[i]][id] = StatusOf(vmList[id])
            \/ note # Null /\ note.id = id /\ next <= i

\* When refreshVMList has returned true and the middleware did not change from
\* its call on, the VMs and statuses in vmList are exactly the middleware's.
SuccessfulRefreshIsExact ==
    (phase = "idle" /\ succes /\ steady) => Statuses(vmList) = Statuses(cloud)

\* Whatever failed before, and whatever the hooks throw at addNewVMs and updateVMs,
\* one refresh that returns from a middleware at rest makes the list right.
RestedRefreshIsExact ==
    (phase = "idle" /\ quiet /\ steady) => Statuses(vmList) = Statuses(cloud)

\* "true iff no exceptions occured in contacting the middleware": a refresh
\* with a middleware that answered every request returns true.
CleanRefreshSucceeds ==
    (phase = "idle" /\ quiet /\ steady) => succes

\* Whatever requests fail, a VM leaves vmList only when it is gone: unless the
\* middleware changed since the refresh began, it does not exist any more.
OnlyGoneVMsLeave ==
    [][\A id \in VMIDs :
          (steady /\ vmList[id] # Null /\ vmList'[id] = Null) => cloud[id] = Null]_vars

\* No step of a refresh makes a VM wrong that vmList has right, unless the middleware
\* changed since the refresh began: what is added, updated or removed is what differs.
OnlyRepairs ==
    [][\A id \in VMIDs :
          (steady /\ steady' /\ StatusOf(vmList[id]) = StatusOf(cloud[id])) =>
              StatusOf(vmList'[id]) = StatusOf(cloud'[id])]_vars

\* What is left of a refresh: the handlers that can still register, the loops, the
\* turns of the loop that runs, the calls of handlers for its event.
Unregistered == Cardinality(Handlers \ Range(handlers))
Loops == [add |-> 3, update |-> 2, remove |-> 1, idle |-> 0, terminated |-> 0]
Turns == IF phase = "remove" THEN Cardinality(doomed) ELSE Len(pending)
Calls == IF note = Null THEN 0 ELSE Len(handlers) + 2 - next

LeftToDo == <<Unregistered, Loops[phase], Turns, Calls>>

\* The lexicographic order of tuples of natural numbers: nothing descends in it forever.
Precedes(s, t) ==
    /\ s \in Seq(Nat)
    /\ \E i \in DOMAIN s : s[i] < t[i] /\ \A j \in 1..(i - 1) : s[j] = t[j]

\* refreshVMList ends, whatever requests fail, whatever the hooks throw and however many
\* handlers they register while its loops read the list of handlers anew: each of its
\* steps comes nearer to the end, and no change of the middleware moves it back.
RefreshAdvances ==
    [][phase # "idle" =>
         IF UNCHANGED <<cloud, quiet>> THEN Precedes(LeftToDo', LeftToDo)
         ELSE UNCHANGED LeftToDo]_vars

\* updateVMs only meets IDs that vmList holds: vmList[*it] never creates an entry.
UpdatesFindTheirVM ==
    phase = "update" => Range(pending) \subseteq Known

\* "Hook that is called when an existing VirtualMachine has changed": the VMs
\* known after an exact refresh are the middleware's in every attribute.
RefreshedVMsAreExact ==
    (phase = "idle" /\ succes /\ steady) => vmList = cloud

\* "Hook that is called when a new VirtualMachine is detected": between two refreshes
\* every handler that does not throw itself has been told of every VM in vmList.
NewVMsAnnounced ==
    phase = "idle" =>
        \A h \in Range(handlers) \ ThrowingHandlers :
            \A id \in Known : view[h][id] # Null

\* The handlers that hear every event: no throwing handler precedes them.
Informed == {handlers[i] : i \in {j \in DOMAIN handlers : Shielded(j)}}

InformedViews == [h \in Informed |-> view[h]]

Feed == INSTANCE VMFeed WITH registry <- Statuses(vmList), view <- InformedViews

\* addVM, updateVM and removeVM with FOREACH_EVENTHANDLER implement the feed of
\* VMFeed for those handlers: one event per change, none lost, none out of order.
FeedSpec == Feed!Spec

\* And every event arrives, as long as the thread that refreshes runs.
FairFeedSpec == Feed!FairSpec
=============================================================================
