# Verification of the Nebu App Framework

TLA+ models of libnebu-app-framework (C++), the TLC runs that check them and the
TLAPS proofs about them. Paths are relative to the repository (`src/` here is its
root). Every definition that stands for code names its lines in `PROJECT.json`, `map`.

## 1. The system

An *extension* links against the framework. Its program is `main` of
`src/src/main.cpp`: it asks the extension for its `ApplicationHooks`, parses the
command line, wires the managers together and runs `Application::mainLoop`. One
thread does all the work; the *middleware* (the Nebu server, reached through
nebu-common) changes by itself between any two requests.

```
 main --> Configuration        hooks: registerConfigurationOptions, initialise
   |
   +--> Application::mainLoop  refreshVMList -> refreshTopology -> refreshDaemons
            |      |      |    -> deployDaemons -> sleep, hooks around each
     VMManager  TopologyManager  DaemonManager (the extension's)
        | |            |              |
        | +- events ---|--------------+        DaemonCollection of Daemons
     AppVirtRequest  AppPhysRequest   (middleware)
```

| component | state | operations | interacts through |
|---|---|---|---|
| VM manager (`vmManager.cpp`) | `vmList`, `vmEventHandlers` | `refreshVMList` = list of IDs, `addNewVMs`, `updateVMs`, `removeVMs`; `registerVMEventHandler`; `getVMs`, `hasVM` | one request per VM; calls every handler inside the loops |
| topology manager (`topologyManager.cpp`) | `physicalRoot` | `refreshTopology`; lookups by host, rack, data center | one request; read by the extension |
| topology writer (`topologyWriter.cpp`) | file name | `write` | reads the tree and the VMs' hosts |
| application (`application.cpp`) | `stopLoop`, the three managers | constructor, `mainLoop`, `shutdown` | drives everything else |
| application hooks (`applicationHooks.cpp`) | managers created on demand | getters; the hooks | read the configuration at creation |
| configuration (`configuration.cpp`) | global instance, commands, defaults | `fromArguments`, `addCommandLineOption`, `addDefaultValue`, `setOption`, `getOption`, `getOptionInt` | static state, read by hooks and by `sleep` |
| daemon collection (`daemonCollection.cpp`, `daemon.cpp`) | map from type to daemons | `addDaemon`, getters; `launch` of the extension | used by the extension's daemon manager |
| command runner (`commandRunner.cpp`) | replaceable instance | `runCommand` | `system()` |

### What is hard about it

* **The middleware moves.** The list of IDs is old by the time the VMs are
  requested one by one: a VM can vanish, appear, switch or move in between.
* **Every request can fail alone.** `refreshVMList` goes on after a failed request, keeps
  what it has done so far and must say so in its result; a failure must never look
  like a VM that is gone.
* **Callbacks in the middle.** The handlers run inside the loops that change the
  list. They can register further handlers in the list that is being iterated over,
  and they can throw: inside `addNewVMs` and `updateVMs` the exception lands in the
  catch block meant for a failed request, inside `removeVMs` nothing catches it. And
  they can call `refreshVMList` themselves, under the loops of the call they run in.
* **Two lists of IDs**, one filtered while it is walked; the wrong one in the wrong
  call removes running VMs or creates empty entries in `vmList`.
* **Order in the main loop.** The topology must be refreshed after the VMs, the daemon
  manager must be registered before the first refresh, and a shutdown is only
  noticed between two iterations.
* **Configuration life cycle.** The global instance is replaced by `fromArguments`,
  the managers keep the options of the moment they were created in, an option that is not
  there ends the program, and `fromArguments` erases from the vector it walks over.

The list with lines and properties is `hazards` in `PROJECT.json`.

### What makes each component correct

* VM manager: after a refresh that returns true while nothing changed, the list is the
  middleware's; a VM leaves the list only if it is gone; each handler gets one event
  per change, in order, and so always knows what the list says; the result is true
  when every request was answered; once the middleware rests, list and handlers converge;
  all this also when a hook refreshes.
* Topology manager and writer: all lookups agree on the place of a host, whatever the
  iteration order of the maps; after a successful refresh the places are true.
* Application: daemons are deployed with a list whose VMs all have a place; the daemon
  manager knows the whole list; a shutdown is always obeyed.
* Configuration: what is parsed is what the command line says; managers contact the
  middleware and the application it names; the loop sleeps what is configured.
* Daemon collection: all getters agree with what was added.

## 2. The modules

| module | models | kind |
|---|---|---|
| `VMFeed` | what a VM manager promises to handlers, without the how | abstract specification |
| `VMManager` | `VMManager`, the middleware's VMs, the handlers | component |
| `VMManagerProofs` | theorems about `VMManager` | proofs |
| `ReentrantVMManager` | `VMManager` with hooks that call `refreshVMList` | component, extends `VMManager` |
| `ReentrantVMManagerProofs` | theorems about `ReentrantVMManager` | proofs |
| `TopologyManager` | `TopologyManager`, `TopologyWriter`, the middleware's topology | component |
| `TopologyManagerProofs` | theorems about `TopologyManager` | proofs |
| `Application` | constructor, `mainLoop`, `shutdown`, over instances of the two managers | composition |
| `ApplicationProofs` | theorems about `Application`, over instances of the managers' proofs | proofs |
| `Configuration` | `Configuration`, `main` up to the loop, managers created on demand, readers of options | component |
| `ConfigurationProofs` | theorems about `Configuration` | proofs |
| `CommandLineProofs` | the theorem about `fromArguments` and command lines of any length | proofs |
| `DaemonCollection` | `DaemonCollection`, the launched flag of `Daemon` | component |
| `DaemonCollectionProofs` | theorems about `DaemonCollection` | proofs |
| `MC*` | constants and symmetry sets for TLC | instances |

A definition that the comment calls *(mutant of X)* is a wrong version of X, used to
confirm that a property notices the mistake; no specification uses it.

### VMManager

| variables | code |
|---|---|
| `cloud`, `quiet` | the middleware; `quiet` once it rests and answers everything |
| `vmList`, `handlers` | `vmList`, `vmEventHandlers` |
| `phase`, `vmIDs`, `pending`, `filtered`, `doomed` | the control and the locals of `refreshVMList` and its three loops: the vector the middleware answered, what the running loop has yet to reach, the part of `vmIDsFiltered` that is kept, the snapshot of `removeVMs` |
| `note`, `next` | the FOREACH_EVENTHANDLER loop: the event and the position of the handler |
| `succes` | the local of the same name, and the result |
| `view`, `steady` | history: what each handler has been told; whether the middleware changed since the refresh began |

One action per request and per hook called: `RetrieveIDs`/`FailToRetrieveIDs`,
`KeepKnown`/`AddNew`/`StartUpdating` (addNewVMs), `UpdateKnown`/`StartRemoving`
(updateVMs), `RemoveOld`/`Return` (removeVMs), `CallHandler`/`HandlerThrows`/`AllCalled`
(the macro). The change of `vmList` and the start of the notification are one step, as
no request and no hook lies between them. Between any two steps `CloudChange` creates,
destroys, switches or moves a VM. `registerVMEventHandler` is enabled where an extension
has control: between two refreshes and inside a hook. While `next` stands at a handler its hook runs,
until it returns (`CallHandler`) or throws (`HandlerThrows`), and it can have registered others before it does
either. A handler that throws does so instead of hearing the event. After an exception from `removeVMs` the program is over
(`terminated`).

A VM has a status and a host. Its other attributes behave as the host does: they are
copied when it is added and never again.

`VMFeed` has a registry of statuses and a view per subscriber: a change happens only
when all subscribers know the previous one. `VMManager` implements it with
`registry <- Statuses(vmList)` and, as subscribers, the *informed* handlers: those that no
throwing handler precedes in the order of registration, and that do not throw themselves.

### ReentrantVMManager

The call that runs is the one `VMManager` describes, in the same variables. A hook that
calls `refreshVMList` (`HookRefreshes`, before it returns or throws) puts the locals of its call, `Frame`, on the stack
`outer` and the inner call begins; when it returns (`InnerReturns`) the hook ignores the
result and the outer call goes on with its locals on a `vmList` that has changed. An
exception from a hook under an inner `removeVMs` leaves inner calls and hooks up to the
first loop of `addNewVMs` or `updateVMs` that catches it (`HookThrowsThrough`). What `VMManager`
proves impossible for one call now happens: `vmList[*it]` in `updateVMs` finds nothing and
creates an entry with an empty pointer (`UpdateMissing`, `empty`), which `find` in `addNewVMs`
takes for a known VM (`KeepEmpty`) and which `updateVMs` and `removeVMs` dereference; the
program is then taken to end (`terminated`). `steady` of a waiting call follows the
middleware as that of the running one does.

What handlers hear is followed in `VMManager` only: a `newVMAdded` of an outer call that reaches
a later handler after an inner call has switched or removed the VM shows it as it then is.

### TopologyManager

`placement` and `reachable` are the middleware; `physicalRoot` the tree, as sequences of
data centers and racks because the searches stop at the first match and the writer's
map keeps the last: `Answers` has a tree in every order. `refreshed` is the last result of
`refreshTopology`; `exact` is history. The lookups and `createHostMap`/`write` are
operators on a tree. A failed request and an empty answer are one action,
`RefreshFails`: both leave the tree and return false. A host carries the IDs of its
parents, which the code reads through raw pointers into the same tree.

### Application

Instances of both managers share the middleware: `Settles` brings both halves to rest, and
VMs run on hosts that are in the topology. `Iteration` is the body of `mainLoop` as a
sequence of calls; `stage` is the call that runs. `RefreshVMs` takes the steps of
`VMManager` and moves on when `phase` is idle again, `RefreshTopology` is one request. The
extension registers handlers in any hook, `Hook`; the constructor registers
`daemonManager`, `Construct`. `shutdown` may be called in any state after the
constructor, by a hook or by another thread, and only sets `stopLoop`, which only the test of
the `while` reads (`Iterate`, `Exit`). `refreshDaemons` and `deployDaemons` belong to the
extension and change nothing of the framework's state.

### Configuration

`step` is the call of `main`, `Hooks` those in which an extension has control.
`StartParsing`, `ParseCommand`, `SkipArgument` and
`FinishParsing` are `fromArguments` turn by turn; `args` is the caller's vector, erased in
place. `globalConfiguration` is the instance behind the static pointer, created with the
defaults of the moment when a hook asks early, and replaced by `FinishParsing`. A hook can replace it as
well (`replaceGlobalConfiguration`), by a fresh `Configuration` to which `setOption` then gives options; the
constant `ReplacingHooks` says in which hooks the extension does. After the parsing that throws away
what the command line said, so the properties about it are stated for extensions that do it before
(`ParsedIsKept`). `getManager`
stands for `getTopologyManager` and `getVMManager`: created once, with the options of that
moment, by any hook; `early` remembers those that were created before the parsing. `getOption`
of an option that is not there throws `std::out_of_range`, which no caller catches: the program is
over (`terminated`) and `missing` says why. `Unsigned` is the conversion of the interval for
`sleep`. `getOptionInt` is the set of results that the stream extraction can leave: the
number; 0 for characters that are no number; for a string that is empty or only white space
(`Spaces`) any of `Garbage`, because the extraction fails before it stores anything and the
local is uninitialised.

### DaemonCollection

`daemons` is the map from int keys to sets, `Key` the conversion of an unsigned
`DaemonType`, which wraps at `IntLimit`; `added` is history.

## 3. The runs

| run | question | instance | states |
|---|---|---|---|
| `vm_refresh` | are list, result and views right against a moving, failing middleware and a throwing hook, does a refresh only repair and always end, and does `VMManager` implement `VMFeed`? | 2 VMs, 2 statuses, 2 handlers, one throws, listings of up to 3 | 1.5M |
| `vm_reentrant` | do calls inside hooks finish each other's work, whatever is thrown through them? | 2 VMs, 2 statuses, a handler that refreshes and throws, 1 waiting call | 1.6M |
| `topology` | do all lookups agree in every tree and order; are the places true after a successful refresh? | 3 hosts, 3 racks, 2 data centers | 99k |
| `app_loop` | do deployed daemons see placed VMs, and the daemon manager the whole and the true list; does each step after a shutdown come nearer to the end? | 2 VMs, 2 hosts that join at any time, a throwing handler | 2.0M |
| `app_live` | is a shutdown obeyed, does every event arrive, does the application converge, and keep what it knows? | 1 VM, 3 statuses, 1 host | 87k |
| `startup` | does `fromArguments` compute what the command line says; do the managers and the sleep use it; does an option that was there stay readable? | all lines of up to 4 of 8 arguments, a hook that replaces the instance before the parsing | 2.1M |
| `daemons` | do the getters agree for all types? | 4 daemons, 3-bit ints | 256 |
| `vm_moved`, `vm_hook_fails`, `vm_unannounced`, `vm_empty_entry`, `interval` | disagreements with the documentation, below | minimal | |

The properties, by what they would catch:

* `ViewsAgree`, `FeedSpec`, `EventsArrive`: a lost, doubled, wrong or reordered event, a
  handler registered in the wrong moment, an exception that desynchronises a handler.
* `SuccessfulRefreshIsExact`, `CleanRefreshes`: a result that hides a failed request
  or reports one that never happened.
* `RestedRefreshIsExact`: a refresh from a middleware at rest that leaves the list wrong, because a
  hook threw or an earlier refresh failed, whatever its result.
* `OnlyGoneVMsLeave` (of every step): a failure mistaken for a removal, the wrong list of IDs.
* `OnlyRepairs` (of every step): a VM that was right and is made wrong on the way, by a failed
  request taken for an answer or by a list that is emptied to be filled again.
* `RefreshAdvances`, `ShutdownAdvances`: a loop that does not end because handlers register in the
  list it reads, or because a hook throws again and again. Both state a measure, a tuple of numbers in
  lexicographic order, that each step of the program lowers and no change of the middleware raises.
* `UpdatesFindTheirVM`: `vmList[*it]` with an ID that is not there creates a null entry.
* `EveryCallExact`, `EntriesHoldVMsIfSteady`, `OnlyGoneVMsLeaveNested`: locals of a call that are
  shared with the calls inside it, or a list of one call used by another.
* `Converges`: a failed request that is not retried, a change that is not stored.
* `LookupsAgree`, `TopologyExact`: a search that depends on the order of a map, an error
  that is not reported.
* `KnownVMsArePlaced`, `DaemonManagerInformed`, `ShutdownExits`: the order of the calls
  in `main` and `mainLoop`.
* `DeploysFromTheTruth`, `TruthLasts`: daemons deployed from a list or tree that is not the
  middleware's although it rested for the whole iteration; a moment, in the middle of a later
  refresh, in which what was known is not.
* `ParsedAsSaid`, `ManagersUseTheCommandLine`, `ParsedOptionsReadable`, `SleepsWhatWasSaid`: `fromArguments`
  against a definition by positions of the original line; the replacement of the global instance.
* `GettersAgree`: the index by type.

### Bounds, and why they are enough

* Two VMs: the loops of `refreshVMList` treat each ID alone; a second VM gives the
  case that one request fails while another succeeds, and that one VM leaves
  while another joins. `MaxListing` is the longest answer; with two VMs a listing of
  three has an ID twice, which `vm_refresh` includes. The instances with one VM are those where only one VM's
  life matters or where liveness makes the graph expensive.
* Two handlers: one before and one after the one at hand; registration in a
  hook happens while the first is called.
* Statuses: `ON`, `OFF`, `UNKNOWN` are the enum's; runs with many VMs use two or one of them.
* Three hosts over three racks in two data centers: two hosts in one rack, in two
  racks of a data center, and in different data centers.
* One waiting call (`MaxDepth`): it already meets the inner call in each of its three loops, with
  its own lists out of date. One handler both refreshes and throws: at the moment of a
  refresh only its position in the loop of the macro matters, and a handler behind it sees the
  same `vmList`. Deeper nesting is covered by the theorems. The `VIEW` of these runs leaves out
  `view` and what a note teaches, which no action or property of the module reads.
* Four arguments: a command, its value, a command as value, a command at the end, and
  two commands for one option all fit.
* `UIntLimit` is 256 instead of 2^32; a negative interval and one beyond it wrap the same way.
* `Garbage`, `Arguments`, `MaxArgs`, `UIntLimit`, `MaxListing`, `MaxDepth`, `VMStatus` are the only
  bounds; the proofs hold for every value of them.

Symmetry is used where no liveness property is checked: over VMs and handlers with equal
roles, over hosts.

### Fairness

`FairSpec` of `Application` states weak fairness of the one thread that runs
`mainLoop`: in the program it is never blocked for good, each request returns or throws
and `sleep` ends for a sane interval. Nothing is assumed of the middleware, of the
extension or of `shutdown`: `Converges` is conditional on the middleware coming to rest.

### CHECK_DEADLOCK FALSE

Only where the program really stops: after `exited`, after an exception that leaves
`removeVMs` or reads a missing option, after an empty pointer is dereferenced.

## 4. Findings

1. `vm_moved`: a known VM's host is never updated. `updateVMs` compares only statuses and
   `updateVM` copies only the status, so a migrated VM keeps its old host (and with it its
   old line in the topology file), and no handler is called, although
   `existingVMChanged` is documented as called "when an existing VirtualMachine has changed".
2. `vm_hook_fails`: an exception from a hook makes `refreshVMList` return false although every
   request was answered; documented is "true iff no exceptions occured in contacting the middleware".
3. `vm_unannounced`: the VM is stored before the handlers are told, so after an exception from
   one handler the later ones never hear that the VM is new: the next refresh finds it known.
4. `vm_empty_entry`: when a hook refreshes and the inner call removes a VM that has vanished, the outer
   `updateVMs` still has its ID; `vmList[*it]` (`vmManager.cpp:94`) stores an empty pointer, which
   `hasVM` reports as an existing VM and which `updateVMs` or `removeVMs` dereferences. It takes a change
   of the middleware under the outer call, as `EntriesHoldVMsIfSteady` shows.
5. `interval`: `--interval` as the last argument stores `""`; `getOptionInt` then returns an
   uninitialised int and the loop sleeps for it.

## 5. The proofs

`VMManagerProofs` (for all sets of VMs, statuses, hosts, handlers, throwing handlers
and for all listings) rests on the assumption `VMManagerAssumption` alone.

The properties are not inductive. The invariant that is,

    IInv == TypeOK /\ ListInv /\ NoteInv /\ ExactInv /\ ViewsAgree

adds what the loops know halfway: `ListInv` relates `pending`, `filtered`, `doomed` and
`vmIDs` to `vmList` in each phase (what is kept was known, what is doomed was not listed);
`NoteInv` says that an event in flight carries the status that `vmList` now has;
`ExactInv` says, for an undisturbed refresh that no request failed (no failure so far, `succes`, or a
middleware at rest, `quiet`, in which case only hooks can have made `succes` false), which part of the
list is already right: the IDs that were passed in the running loop. Without it nothing connects
the result of a finished refresh with the requests made long before. `Invariance` has one
step per action, `ViewsAgree` being carried by the position `next` in the handlers' list.

* `TypeCorrect`, `HandlersAgree`, `ExactRefresh`, `UpdatesSafe`: the safety invariants.
* `RestedRefresh`: `RestedRefreshIsExact`, from the half of `ExactInv` that does not ask for `succes`: after an
  exception from a hook of `addNewVMs` or `updateVMs` the change that was to be told is in the list.
* `CleanRefresh`, `NewVMsHeard`: if no handler throws, a refresh fails only because a request failed (with a
  second invariant, `CleanInv`), and no new VM stays unannounced (from `ViewsAgree`). They are what
  findings 2 and 3 leave of the documented claims.
* `RemovalsJustified`, `RefreshOnlyRepairs`: the action properties, from `ListInv` and `ExactInv`: only
  `AddNew`, `UpdateKnown` and `RemoveOld` touch the list, and what they store or drop is, in an
  undisturbed refresh, what the middleware has.
* `RefreshEnds`: `RefreshAdvances`. The measure is the handlers that can still register, the loops to come, the turns of
  the running loop and the calls for its event; a registration costs the first what it gives the last. `TurnInv`
  keeps the number of calls natural. `IsFiniteSet(Handlers)` and `IsFiniteSet(VMIDs)` are hypotheses because a program that registers
  new handlers in every hook need not end. That a handler registers once is a guard of the model, as section 6 says.
* `ImplementsFeed`: `Spec => FeedSpec`: initial states map to initial states; a change of the
  list is a `Change`, a call of an informed handler a `Deliver`, a registration a
  `Subscribe`, everything else stutters.

`DaemonCollectionProofs`: `Indexed` says what the map holds for what was added; `KeysDiffer`
that the conversion of types loses nothing; `AllGettersAgree` follows.

`TopologyManagerProofs` (for all sets of hosts, and finite sets of racks and data centers) has one
idea: the answers of the middleware are trees in which no data center, rack or host occurs twice
(`IsTree`), so every search has one candidate and neither the first nor the last match
depends on the order of the maps. The assumption that the sets are finite gives `Answers` its
orders; that `Null` and `ID_UNKNOWN` are no object and no ID lets a search that
fails be told from one that succeeds.

* `AllLookupsAgree`: `LookupsAgree`, from `IsTree` alone, whether refreshes fail or not.
* `RefreshedTreeExact`: `TopologyExact`, with the second half of its invariant: while
  `refreshed /\ exact`, the tree has every rack with the hosts the middleware has there
  (`Reflects`). A host without a place is then in no rack, because no rack occurs twice.

`ReentrantVMManagerProofs` (for every depth of nesting) has an invariant for a stack of calls,
`NestInv`. The idea: as long as the middleware has not changed under a call (`steady` of its
frame, and then of all calls inside it, `SteadyInv`), all calls work towards the same list, and whatever
an inner call does to `vmList` is work an outer call has listed and not yet done, or does no harm
(`Helpful`: every entry it touches then agrees with the middleware, and no VM that exists leaves). So what a
waiting call has left to do only shrinks (`WaitingInv`, `WorkLeft`), and is what the running call finds
when it resumes (`ResumeKeeps`). `Meets` says that the IDs a call will look up are in `vmList`, for
which no call in the stack may have seen a change.

* `EveryCallIsExact`, `SteadyEntriesHoldVMs`, `NestedRemovalIsJustified`.
* `PlainHooks`: without hooks that refresh, every behaviour of this module is one of `VMManager` and `vmList`
  never holds an empty pointer, so finding 4 needs such a hook and all theorems about
  `VMManager` hold here too (`PlainInv`: no call waits, so no ID is looked up in vain).

`ApplicationProofs` composes: `Composes` shows that every behaviour of `Application` is one of both
managers' own specifications, so that every theorem about a manager holds in the application
(`RefreshesAreClean` is `CleanRefresh` there). Two more relate the managers to each other and to the loop:

* `DaemonManagerIsInformed`: the daemon manager is registered from the constructor on, and no event
  is in flight between two refreshes; the rest is `ViewsAgree` at its position.
* `VMsArePlaced`: when the topology request is answered, every VM in `vmList` is on a host that
  had joined when the VM was read, and while hosts do not leave it is still there; the answer has it.
* `TruthIsDeployed`: `TruthInv` says that from the topology refresh on, in an iteration that began with the middleware at
  rest, the tree is `refreshed` and `exact`; with `RestedRefresh`, `RefreshedTreeExact` and `ViewsAgree`
  the list, the tree and the daemon manager are right when daemons are deployed.
* `TruthStays`: `TruthLasts`, from `RefreshOnlyRepairs` for the list; for the tree, a middleware at rest answers what is known.
* `EventsAreAFeed`: `Spec => VMs!FeedSpec`, the refinement of `VMFeed` carried from the manager to the application.
* `ShutdownProgresses`: `ShutdownAdvances`. The stage of `mainLoop` is put before the measure of the refresh (`SameMeasure`,
  `RunDescends`): the test of the loop is the one place where stages begin again, and `stopLoop`, which
  is never cleared (`StopInv`), closes it. The hypotheses are those of `RefreshEnds`.

`ConfigurationProofs`: `ManagersFollowTheCommandLine`, `ParsedOptionsStay` and `IntervalIsSlept`, all from the fact
that once the command line is parsed the global instance has every option it gave, and that only
the extension's own options change (`ParsedInv`). `IntervalIsSlept` adds that a number below `UIntLimit` passes
`getOptionInt` and the conversion for `sleep` unchanged: finding 5 is the text that is no number.

`CommandLineProofs` has `ParsesWhatIsSaid`: `ParsedAsSaid` for every line of any length. The reference,
`CommandAt`, marks the commands of a line by a recursive function. That the recursion has a solution
(`MarksExist`) follows without an induction: the least position up to which it had none would extend the
solution before it, and numbers are well ordered (`LeastNumber`). `CommandsAre` then gives the commands by a
local condition: an argument that is a command, behind one that does not hold a command. The invariant of the
loop, `ParsingInv`, relates the vector that is erased from to the line that was given. With `n` the number of
arguments parsed so far (`Seen`): what is before `index` are, in order, the arguments up to `n` that are
neither command nor value; what is from `index` on is the line after `n`, and does not start with a value
(`Walked`); the instance is the defaults overridden by the last command up to `n` for each option
(`Overridden`). `WalkErases` and `WalkSkips` are a turn of the loop, `OverridesPut` and `OverridesSkip` what it
does to the options, `WalkEnds` and `OverridesEnd` the comparison with the reference at the end of the line.

**Only model-checked**: liveness (`Converges`, `EventsArrive`, `ShutdownExits`), which is out of the
prover's reach. What a theorem can say of each is proved: `ShutdownExits` has its measure (`ShutdownProgresses`),
`Converges` that the truth is deployed after one undisturbed iteration and stays known (`TruthIsDeployed`, `TruthStays`), `EventsArrive`
its safety half (`EventsAreAFeed`); what remains to TLC is that fairness makes the steps happen. Every invariant
and every action property of the passing runs is a theorem.

## 6. Not modelled

* The files and streams: the output file of `TopologyWriter`, logging, `prepareLogging`
  (which sets WARN, where `applicationHooks.h:42` says DEBUG), `logConfiguration`.
* `CommandRunner`, a call of `system()`.
* `Daemon::secondsSinceDiscovery`, a difference of wall-clock times.
* Hooks that throw something else than a `NebuServerException`, or that throw from `mainLoop`'s own
  hooks (which ends the program); what handlers hear when hooks refresh.
* A concrete daemon manager: the interface is pure, an implementation is an extension's. What happens
  to the daemons of a removed VM, and to VM objects that are kept by pointer, is decided there.
* A handler that registers twice: the code does not refuse it and would call it twice for every event.
  Nor a program that makes new handlers for ever: its refresh need not end.
* nebu-common, which is not in the repository, and `src/doc`.
* `src/testlibs`, a vendored copy of Google Test and Google Mock: by far the most lines of the
  repository, and no part of the program. The framework itself is about 700 lines of
  implementation, nearly all of which `map` names; what is left of it is logging, includes,
  getters that only return a member, and the components above.

## 7. Plan

Done, in this order: `VMFeed`, `VMManager`, its proofs; `TopologyManager`; `Application`;
`Configuration`; `DaemonCollection` and its proofs; the proofs about `TopologyManager`; the readers
of options in `Configuration`; `ReentrantVMManager`; the proofs about `Application`,
`Configuration` and `ReentrantVMManager`; the command line for every length; what a refresh from a middleware at rest
achieves, and that refreshes and the program end. What could follow:

1. A module of an extension's daemon manager over `DaemonCollection` and `VMManager`, once there
   is one to model: VM objects are shared by pointer between `vmList`, handlers and daemons;
   daemons of removed VMs stay in the collection, and a VM that returns is a new object.
2. What handlers hear when hooks refresh: a removal told twice, an event told late.
3. The file of `TopologyWriter` as its readers see it, truncated and half written.
