-------------------------- MODULE TopologyManager --------------------------
(***************************************************************************)
(* nebu::app::framework::TopologyManager and TopologyWriter: the tree of    *)
(* data centers, racks and hosts that getPhysicalTopology answers, the      *)
(* searches through it, and the map of VMs to places written to a file.     *)
(*                                                                         *)
(* A tree is modelled with the order in which its unordered_maps iterate,   *)
(* because the searches stop at the first match and the writer's map keeps  *)
(* the last: a sequence of data centers, each with a sequence of racks,     *)
(* each with a set of hosts.                                                *)
(***************************************************************************)
EXTENDS SequencesExt

CONSTANTS
    DataCenters, Racks, Hosts,  \* UUIDs
    DataCenterOf,               \* the data center every rack stands in
    HostsLeave,                 \* whether a host may leave the topology
    ID_UNKNOWN,                 \* the constant of the same name
    Null                        \* the empty shared_ptr

\* A rack as it hangs in the tree, and a host together with its parents.
Rack == [id : Racks, hosts : SUBSET Hosts]
Place == [host : Hosts, rack : Racks, dc : DataCenters]

ASSUME TopologyManagerAssumption ==
    /\ DataCenterOf \in [Racks -> DataCenters]
    /\ IsFiniteSet(DataCenters) /\ IsFiniteSet(Racks)
    /\ HostsLeave \in BOOLEAN
    /\ ID_UNKNOWN \notin Racks \cup DataCenters
    /\ Null \notin Racks /\ Null \notin Rack /\ Null \notin Place

VARIABLES
    placement,      \* the middleware: the rack of every host, Null if it is not there
    reachable,      \* the middleware answers every request and its racks are at rest
    physicalRoot,   \* the tree of the last refresh that succeeded
    refreshed,      \* what refreshTopology returned last
    exact           \* history: no host came or went since that call

vars == <<placement, reachable, physicalRoot, refreshed, exact>>

-----------------------------------------------------------------------------
(* The middleware.                                                           *)

HostsIn(r) == {h \in Hosts : placement[h] = r}

RacksOf(d) == {[id |-> r, hosts |-> HostsIn(r)] : r \in {r \in Racks : DataCenterOf[r] = d}}

\* getPhysicalTopology(): the tree, each of its maps in some order.
Answers ==
    LET racksInOrder == {f \in [DataCenters -> UNION {SetToSeqs(RacksOf(d)) : d \in DataCenters}] :
                            \A d \in DataCenters : f[d] \in SetToSeqs(RacksOf(d))}
    IN {[i \in DOMAIN ds |-> [id |-> ds[i], racks |-> f[ds[i]]]] :
            ds \in SetToSeqs(DataCenters), f \in racksInOrder}

HostJoins(h, r) ==
    /\ ~reachable
    /\ placement[h] = Null
    /\ placement' = [placement EXCEPT ![h] = r]
    /\ exact' = FALSE
    /\ UNCHANGED <<reachable, physicalRoot, refreshed>>

HostLeaves(h) ==
    /\ ~reachable
    /\ HostsLeave
    /\ placement[h] # Null
    /\ placement' = [placement EXCEPT ![h] = Null]
    /\ exact' = FALSE
    /\ UNCHANGED <<reachable, physicalRoot, refreshed>>

Recover ==
    /\ ~reachable
    /\ reachable' = TRUE
    /\ UNCHANGED <<placement, physicalRoot, refreshed, exact>>

-----------------------------------------------------------------------------
(* The searches.  A host is found together with its parents.                 *)

HostOf(dc, rack, h) == [host |-> h, rack |-> rack.id, dc |-> dc.id]

findHost(dc, h) ==
    LET i == SelectInSeq(dc.racks, LAMBDA rack : h \in rack.hosts)
    IN IF i = 0 THEN Null ELSE HostOf(dc, dc.racks[i], h)

getHostByID(root, h) ==
    LET i == SelectInSeq(root, LAMBDA dc : findHost(dc, h) # Null)
    IN IF i = 0 THEN Null ELSE findHost(root[i], h)

getRackIDForHost(root, h) ==
    IF getHostByID(root, h) = Null THEN ID_UNKNOWN ELSE getHostByID(root, h).rack

\* (mutant of getDataCenterIDForHost) one parent too few
OneParent(root, h) ==
    IF getHostByID(root, h) = Null THEN ID_UNKNOWN ELSE getHostByID(root, h).rack

getDataCenterIDForHost(root, h) ==
    IF getHostByID(root, h) = Null THEN ID_UNKNOWN ELSE getHostByID(root, h).dc

findRack(dc, r) ==
    LET i == SelectInSeq(dc.racks, LAMBDA rack : rack.id = r)
    IN IF i = 0 THEN Null ELSE dc.racks[i]

getRackByID(root, r) ==
    LET i == SelectInSeq(root, LAMBDA dc : findRack(dc, r) # Null)
    IN IF i = 0 THEN Null ELSE findRack(root[i], r)

getDataCenterByID(root, d) ==
    LET i == SelectInSeq(root, LAMBDA dc : dc.id = d)
    IN IF i = 0 THEN Null ELSE root[i]

\* TopologyWriter: every host with its parents, a later entry replacing an earlier one.
createHostMap(root) ==
    LET hosts == UNION {UNION {rack.hosts : rack \in ToSet(dc.racks)} : dc \in ToSet(root)}
        In(dc, h) == \E k \in DOMAIN dc.racks : h \in dc.racks[k].hosts
        last(h) == root[SelectLastInSeq(root, LAMBDA dc : In(dc, h))]
    IN [h \in hosts |->
           HostOf(last(h), last(h).racks[SelectLastInSeq(last(h).racks, LAMBDA rack : h \in rack.hosts)], h)]

\* The lines of the file: the place of every VM whose host is in the tree.  hostOf
\* maps each VM that is known to its physical host.
write(root, hostOf) ==
    LET map == createHostMap(root)
    IN {[vm |-> vm, at |-> map[hostOf[vm]]] : vm \in {v \in DOMAIN hostOf : hostOf[v] \in DOMAIN map}}

-----------------------------------------------------------------------------
Init ==
    /\ placement \in [Hosts -> Racks \cup {Null}]
    /\ reachable = FALSE
    /\ physicalRoot = << >>
    /\ refreshed = FALSE
    /\ exact = FALSE

\* (mutant of RefreshFails) the error is not reported
FailureUnreported ==
    /\ ~reachable
    /\ refreshed' = TRUE
    /\ exact' = TRUE
    /\ UNCHANGED <<placement, reachable, physicalRoot>>

\* The request throws a NebuServerException, or answers an empty pointer.
RefreshFails ==
    /\ ~reachable
    /\ refreshed' = FALSE
    /\ exact' = TRUE
    /\ UNCHANGED <<placement, reachable, physicalRoot>>

\* (mutant of RefreshSucceeds) the tree is only fetched once
FetchedOnce ==
    /\ \E root \in Answers : physicalRoot' = IF physicalRoot = << >> THEN root ELSE physicalRoot
    /\ refreshed' = TRUE
    /\ exact' = TRUE
    /\ UNCHANGED <<placement, reachable>>

RefreshSucceeds ==
    /\ \E root \in Answers : physicalRoot' = root
    /\ refreshed' = TRUE
    /\ exact' = TRUE
    /\ UNCHANGED <<placement, reachable>>

refreshTopology == RefreshSucceeds \/ RefreshFails

Next ==
    \/ \E h \in Hosts : (\E r \in Racks : HostJoins(h, r)) \/ HostLeaves(h)
    \/ Recover
    \/ refreshTopology

Spec == Init /\ [][Next]_vars

-----------------------------------------------------------------------------
(* Properties                                                                *)

\* Every place in the tree, read off without searching.
Places(root) ==
    UNION {UNION {{HostOf(dc, rack, h) : h \in rack.hosts} : rack \in ToSet(dc.racks)} :
              dc \in ToSet(root)}

\* Whatever the order of the maps, all the lookups of TopologyManager and the map
\* TopologyWriter builds give a host the one place it has in the tree.
LookupsAgree ==
    \A h \in Hosts :
        \/ /\ \A place \in Places(physicalRoot) : place.host # h
           /\ getHostByID(physicalRoot, h) = Null
           /\ getRackIDForHost(physicalRoot, h) = ID_UNKNOWN
           /\ getDataCenterIDForHost(physicalRoot, h) = ID_UNKNOWN
           /\ h \notin DOMAIN createHostMap(physicalRoot)
        \/ \E place \in Places(physicalRoot) :
              /\ place.host = h
              /\ getHostByID(physicalRoot, h) = place
              /\ getRackIDForHost(physicalRoot, h) = place.rack
              /\ getDataCenterIDForHost(physicalRoot, h) = place.dc
              /\ createHostMap(physicalRoot)[h] = place
              /\ h \in getRackByID(physicalRoot, place.rack).hosts
              /\ getRackByID(physicalRoot, place.rack)
                    \in ToSet(getDataCenterByID(physicalRoot, place.dc).racks)

\* The rack of a host in the middleware, as getRackIDForHost would give it.
TrueRack(h) == IF placement[h] = Null THEN ID_UNKNOWN ELSE placement[h]

\* When refreshTopology has returned true and no host came or went since, the
\* lookups tell where every host really is.
TopologyExact ==
    (refreshed /\ exact) => \A h \in Hosts : getRackIDForHost(physicalRoot, h) = TrueRack(h)
=============================================================================
