------------------------- MODULE ReentrantVMManager -------------------------
(***************************************************************************)
(* VMManager with hooks that call refreshVMList: nothing keeps an extension  *)
(* from it, the hooks run in the middle of the loops of refreshVMList and    *)
(* can get the VMManager from ApplicationHooks.  The call that runs is the   *)
(* one VMManager describes; the calls under whose hooks it was made wait,     *)
(* with their locals, in outer.  All of them share vmList.                   *)
(*                                                                         *)
(* A newVMAdded that a later hook hears only after such a call reads the     *)
(* status of that moment: what handlers know is followed here as far as      *)
(* whether a VM is there.                                                    *)
(***************************************************************************)
EXTENDS VMManager, SequencesExt

CONSTANTS
    RefreshingHandlers, \* the handlers whose hooks may call refreshVMList
    MaxDepth            \* bound: the most calls that wait

ASSUME ReentrantAssumption ==
    /\ RefreshingHandlers \subseteq Handlers
    /\ MaxDepth \in Nat

VARIABLES
    outer,      \* the waiting calls, the outermost first
    called,     \* an inner refreshVMList is called and has not begun
    empty       \* the IDs that vmList maps to an empty shared_ptr

nesting == <<outer, called, empty>>
allVars == <<vars, nesting>>

Depth == Len(outer)

-----------------------------------------------------------------------------
(* Calls and returns.                                                        *)

\* The locals of the running call, and the history of the middleware under it.
Frame == [phase |-> phase, vmIDs |-> vmIDs, pending |-> pending, filtered |-> filtered,
          doomed |-> doomed, note |-> note, next |-> next, succes |-> succes, steady |-> steady]

ResumeLoop(frame) ==
    /\ vmIDs' = frame.vmIDs /\ pending' = frame.pending
    /\ filtered' = frame.filtered /\ doomed' = frame.doomed

\* (mutant of Restore) the vectors are members of VMManager, shared by all calls
SharedLists(frame) == UNCHANGED <<vmIDs, pending, filtered, doomed>>

Restore(frame) == ResumeLoop(frame)

\* The hook that runs refreshes before it returns or throws.
HookRefreshes ==
    /\ phase # "terminated" /\ note # Null /\ next <= Len(handlers)
    /\ handlers[next] \in RefreshingHandlers
    /\ Depth < MaxDepth
    /\ outer' = Append(outer, Frame)
    /\ called' = TRUE
    /\ phase' = "idle"
    /\ vmIDs' = << >> /\ pending' = << >> /\ filtered' = << >> /\ doomed' = {}
    /\ EndDelivery
    /\ UNCHANGED <<env, vmList, handlers, succes, view, empty>>

\* The inner call returns to the hook, which drops its result.
InnerReturns ==
    /\ Depth > 0 /\ phase = "idle" /\ ~called
    /\ LET frame == Last(outer) IN
       /\ phase' = frame.phase
       /\ Restore(frame)
       /\ note' = frame.note /\ next' = frame.next
       /\ succes' = frame.succes
       /\ steady' = frame.steady
    /\ outer' = Front(outer)
    /\ UNCHANGED <<cloud, quiet, vmList, handlers, view, called, empty>>

\* The waiting calls whose loops would catch an exception from their hook.
Catching == {i \in DOMAIN outer : outer[i].phase \in {"add", "update"}}

\* A hook that removeVMs calls throws.  The exception leaves the call and the hook
\* that made it, up to a loop of addNewVMs or updateVMs that catches it.
HookThrowsThrough ==
    /\ phase = "remove" /\ note # Null /\ next <= Len(handlers)
    /\ handlers[next] \in ThrowingHandlers
    /\ \E i \in Catching :
       /\ \A j \in Catching : j <= i
       /\ phase' = outer[i].phase
       /\ Restore(outer[i])
       /\ steady' = outer[i].steady
       /\ outer' = SubSeq(outer, 1, i - 1)
    /\ EndDelivery
    /\ succes' = FALSE
    /\ UNCHANGED <<cloud, quiet, vmList, handlers, view, called, empty>>

-----------------------------------------------------------------------------
(* refreshVMList on a vmList that another call may have changed.             *)

Begin ==
    /\ Depth = 0 \/ called
    /\ RetrieveIDs \/ FailToRetrieveIDs
    /\ called' = FALSE
    /\ UNCHANGED <<outer, empty>>

\* find(id) succeeds on an empty pointer as well.
KeepEmpty ==
    /\ phase = "add" /\ note = Null /\ pending # << >>
    /\ Head(pending) \in empty
    /\ filtered' = Append(filtered, Head(pending))
    /\ pending' = Tail(pending)
    /\ UNCHANGED <<env, vmList, handlers, phase, vmIDs, doomed, delivery, succes, view, nesting>>

AddNewVMs ==
    /\ pending # << >> => Head(pending) \notin empty
    /\ addNewVMs
    /\ UNCHANGED nesting

\* vmList[id] creates an empty pointer for a VM that an inner call removed.  It is
\* read unless the request throws.
UpdateMissing ==
    /\ phase = "update" /\ note = Null /\ pending # << >>
    /\ vmList[Head(pending)] = Null
    /\ empty' = empty \cup {Head(pending)}
    /\ \/ Throws(Head(pending)) /\ succes' = FALSE /\ phase' = phase
       \/ Retrieves(Head(pending)) /\ phase' = "terminated" /\ succes' = succes
    /\ pending' = Tail(pending)
    /\ UNCHANGED <<env, vmList, handlers, vmIDs, filtered, doomed, delivery, view, outer, called>>

UpdateVMs ==
    /\ phase = "update" /\ pending # << >> => vmList[Head(pending)] # Null
    /\ updateVMs
    /\ UNCHANGED nesting

\* removeVMs asks the empty pointers for their ID, at the latest when it has removed all else.
RemoveReadsEmpty ==
    /\ phase = "remove" /\ note = Null
    /\ empty # {}
    /\ phase' = "terminated"
    /\ UNCHANGED <<env, vmList, handlers, vmIDs, pending, filtered, doomed, delivery, succes, view, nesting>>

RemoveVMs ==
    /\ \/ \E id \in VMIDs : RemoveOld(id)
       \/ empty = {} /\ Return
    /\ UNCHANGED nesting

NotifyThem ==
    /\ CallHandler \/ AllCalled \/ (HandlerThrows /\ (phase = "remove" => Catching = {}))
    /\ UNCHANGED nesting

-----------------------------------------------------------------------------
ReentrantInit == Init /\ outer = << >> /\ called = FALSE /\ empty = {}

\* A change of the middleware is one under every call that waits.
Environment ==
    \/ /\ (\E id \in VMIDs : CloudChange(id)) \/ Settle
       /\ outer' = [i \in DOMAIN outer |-> [outer[i] EXCEPT !.steady = FALSE]]
       /\ UNCHANGED <<called, empty>>
    \/ /\ \E h \in Handlers : registerVMEventHandler(h)
       /\ UNCHANGED nesting

ReentrantNext ==
    \/ Environment
    \/ HookRefreshes \/ InnerReturns \/ HookThrowsThrough
    \/ Begin
    \/ KeepEmpty \/ AddNewVMs
    \/ UpdateMissing \/ UpdateVMs
    \/ RemoveReadsEmpty \/ RemoveVMs
    \/ NotifyThem

ReentrantSpec == ReentrantInit /\ [][ReentrantNext]_allVars

-----------------------------------------------------------------------------
(* Properties                                                                *)

\* The middleware has not changed since the outermost call began.
AllSteady == steady /\ \A i \in DOMAIN outer : outer[i].steady

\* Whatever the hooks refresh, a call that returns true has made the list exact if
\* the middleware did not change from its beginning on: the loops of a waiting call
\* find their work done, or done already.
EveryCallExact ==
    (phase = "idle" /\ ~called /\ succes /\ steady) =>
        Statuses(vmList) = Statuses(cloud) /\ empty = {}

\* "Checks if a VirtualMachine with the given identifier exists": no ID is mapped to
\* an empty pointer.
EntriesHoldVMs == empty = {}

\* It takes a change of the middleware under a waiting call to break that.
EntriesHoldVMsIfSteady == AllSteady => empty = {}

\* A refresh inside a hook does not make a call drop a VM that is there, unless the
\* middleware changed under the waiting calls.
OnlyGoneVMsLeaveNested ==
    [][\A id \in VMIDs :
          (AllSteady /\ vmList[id] # Null /\ vmList'[id] = Null) => cloud[id] = Null]_allVars
=============================================================================
