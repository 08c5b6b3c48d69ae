------------------------------- MODULE VMFeed -------------------------------
(***************************************************************************)
(* What a VMManager promises to its event handlers, without saying how: a   *)
(* registry maps every VM to its status, it changes one VM at a time, and   *)
(* no change is made before every subscriber has been told the previous     *)
(* one.  No change is lost, coalesced with another, or seen out of order.   *)
(***************************************************************************)

CONSTANTS VMIDs, Handlers, VMStatus, Null

VARIABLES
    registry,   \* the status of every VM, Null for a VM that is not known
    view        \* the registry as each subscriber, DOMAIN view, knows it

vars == <<registry, view>>

Registry == [VMIDs -> VMStatus \cup {Null}]

Synced == \A h \in DOMAIN view : view[h] = registry

Init ==
    /\ registry = [id \in VMIDs |-> Null]
    /\ view = << >>

\* One VM joins, changes its status or leaves.
Change(id) ==
    /\ Synced
    /\ \E s \in (VMStatus \cup {Null}) \ {registry[id]} :
           registry' = [registry EXCEPT ![id] = s]
    /\ view' = view

\* One subscriber hears of the change in flight.
Deliver(h) ==
    /\ h \in DOMAIN view
    /\ view[h] # registry
    /\ view' = [view EXCEPT ![h] = registry]
    /\ registry' = registry

\* A handler joins: it reads the registry, and hears of what changes from then on.
Subscribe(h) ==
    /\ h \notin DOMAIN view
    /\ view' = [g \in DOMAIN view \cup {h} |-> IF g = h THEN registry ELSE view[g]]
    /\ registry' = registry

Next ==
    \/ \E id \in VMIDs : Change(id)
    \/ \E h \in Handlers : Deliver(h) \/ Subscribe(h)

Spec == Init /\ [][Next]_vars

\* A subscriber is told of every change sooner or later.
FairSpec == Spec /\ \A h \in Handlers : WF_vars(Deliver(h))
=============================================================================
