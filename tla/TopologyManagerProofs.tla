----------------------- MODULE TopologyManagerProofs -----------------------
(***************************************************************************)
(* The lookups of TopologyManager agree, and are exact after a successful    *)
(* refresh, for every set of data centers, racks and hosts.  A tree in which  *)
(* no ID occurs twice (IsTree) has one answer to every search, so the order   *)
(* of the maps cannot matter; every answer of the middleware is such a tree.  *)
(***************************************************************************)
EXTENDS TopologyManager, FiniteSetTheorems, SequenceTheorems, TLAPS

\* The data centers, racks and hosts of a tree: no ID occurs twice.
IsTree(root) ==
    /\ root \in Seq([id : DataCenters, racks : Seq(Rack)])
    /\ \A i, j \in DOMAIN root : root[i].id = root[j].id => i = j
    /\ \A i, j \in DOMAIN root : \A k \in DOMAIN root[i].racks, l \in DOMAIN root[j].racks :
          /\ root[i].racks[k].id = root[j].racks[l].id => i = j /\ k = l
          /\ \A h \in root[i].racks[k].hosts \cap root[j].racks[l].hosts : i = j /\ k = l

\* The tree has every rack, with the hosts the middleware has there.
Reflects(root) ==
    \A r \in Racks : \E i \in DOMAIN root : \E k \in DOMAIN root[i].racks :
        root[i].racks[k] = [id |-> r, hosts |-> HostsIn(r)]

-----------------------------------------------------------------------------
(* The answers of the middleware.                                            *)

\* The orders of a finite set: every element once.
LEMMA Orders ==
    ASSUME NEW S, IsFiniteSet(S), NEW s \in SetToSeqs(S)
    PROVE  /\ s \in Seq(S)
           /\ DOMAIN s = 1..Len(s)
           /\ \A i, j \in DOMAIN s : s[i] = s[j] => i = j
           /\ \A x \in S : \E i \in DOMAIN s : s[i] = x
<1> DEFINE n == Cardinality(S)
<1>1. n \in Nat
  BY FS_CardinalityType
<1>2. s \in [1..n -> S] /\ \A i, j \in 1..n : i # j => s[i] # s[j]
  BY DEF SetToSeqs
<1>3. s \in Seq(S) /\ DOMAIN s = 1..Len(s)
  BY <1>1, <1>2
<1>4. IsFiniteSet(1..n) /\ Cardinality(1..n) = n
  BY <1>1, FS_Interval
<1>5. s \in Injection(1..n, S)
  BY <1>2 DEF Injection, IsInjective
<1>6. s \in Surjection(1..n, S)
  BY <1>4, <1>5, FS_Injection
<1>7. \A x \in S : \E i \in 1..n : s[i] = x
  BY <1>6 DEF Surjection
<1> QED BY <1>2, <1>3, <1>7

LEMMA RacksFinite ==
    ASSUME NEW d \in DataCenters
    PROVE  IsFiniteSet(RacksOf(d))
<1> DEFINE R == {r \in Racks : DataCenterOf[r] = d}
           f == [r \in R |-> [id |-> r, hosts |-> HostsIn(r)]]
<1>1. IsFiniteSet(R)
  BY FS_Subset, TopologyManagerAssumption
<1>2. f \in Surjection(R, RacksOf(d))
  BY DEF Surjection, RacksOf
<1> QED BY <1>1, <1>2, FS_Surjection

\* Every answer is a tree without repetition that reflects the placement.
LEMMA AnswersAreTrees ==
    ASSUME placement \in [Hosts -> Racks \cup {Null}], NEW root \in Answers
    PROVE  IsTree(root) /\ Reflects(root)
<1> DEFINE Orderings == {f \in [DataCenters -> UNION {SetToSeqs(RacksOf(d)) : d \in DataCenters}] :
                            \A d \in DataCenters : f[d] \in SetToSeqs(RacksOf(d))}
<1>1. PICK ds \in SetToSeqs(DataCenters), f \in Orderings :
          root = [i \in DOMAIN ds |-> [id |-> ds[i], racks |-> f[ds[i]]]]
  BY DEF Answers
<1>2. /\ ds \in Seq(DataCenters) /\ DOMAIN ds = 1..Len(ds)
      /\ \A i, j \in DOMAIN ds : ds[i] = ds[j] => i = j
      /\ \A d \in DataCenters : \E i \in DOMAIN ds : ds[i] = d
  BY Orders, TopologyManagerAssumption
<1>3. ASSUME NEW d \in DataCenters
      PROVE  /\ f[d] \in Seq(RacksOf(d))
             /\ \A k, l \in DOMAIN f[d] : f[d][k] = f[d][l] => k = l
             /\ \A rack \in RacksOf(d) : \E k \in DOMAIN f[d] : f[d][k] = rack
  <2>1. f[d] \in SetToSeqs(RacksOf(d))
    OBVIOUS
  <2> QED BY <2>1, Orders, RacksFinite
<1>4. ASSUME NEW d \in DataCenters
      PROVE  RacksOf(d) \subseteq Rack
  BY DEF RacksOf, Rack, HostsIn
<1>5. ASSUME NEW i \in DOMAIN root
      PROVE  /\ i \in DOMAIN ds
             /\ root[i].id = ds[i] /\ ds[i] \in DataCenters
             /\ root[i].racks = f[ds[i]]
  BY <1>1, <1>2
<1>6. ASSUME NEW i \in DOMAIN root, NEW k \in DOMAIN root[i].racks
      PROVE  /\ root[i].racks[k].id \in Racks
             /\ DataCenterOf[root[i].racks[k].id] = ds[i]
             /\ root[i].racks[k] = [id |-> root[i].racks[k].id,
                                    hosts |-> HostsIn(root[i].racks[k].id)]
  <2>1. root[i].racks[k] \in RacksOf(ds[i])
    BY <1>3, <1>5
  <2>2. PICK r \in Racks : DataCenterOf[r] = ds[i] /\ root[i].racks[k] = [id |-> r, hosts |-> HostsIn(r)]
    BY <2>1 DEF RacksOf
  <2> QED BY <2>2
<1>7. root \in Seq([id : DataCenters, racks : Seq(Rack)])
  <2>1. ASSUME NEW i \in DOMAIN ds
        PROVE  [id |-> ds[i], racks |-> f[ds[i]]] \in [id : DataCenters, racks : Seq(Rack)]
    <3>1. ds[i] \in DataCenters
      BY <1>2
    <3>2. f[ds[i]] \in Seq(RacksOf(ds[i])) /\ RacksOf(ds[i]) \subseteq Rack
      BY <3>1, <1>3, <1>4
    <3>3. f[ds[i]] \in Seq(Rack)
      BY <3>2
    <3> QED BY <3>1, <3>3
  <2> QED BY <1>1, <1>2, <2>1
<1>8. \A i, j \in DOMAIN root : root[i].id = root[j].id => i = j
  BY <1>2, <1>5
<1>9. ASSUME NEW i \in DOMAIN root, NEW j \in DOMAIN root,
             NEW k \in DOMAIN root[i].racks, NEW l \in DOMAIN root[j].racks,
             root[i].racks[k].id = root[j].racks[l].id
      PROVE  i = j /\ k = l
  <2> DEFINE r == root[i].racks[k].id
             q == root[j].racks[l].id
  <2>1. DataCenterOf[r] = ds[i] /\ root[i].racks[k] = [id |-> r, hosts |-> HostsIn(r)]
    BY <1>6
  <2>2. DataCenterOf[q] = ds[j] /\ root[j].racks[l] = [id |-> q, hosts |-> HostsIn(q)]
    BY <1>6
  <2>3. r = q
    BY <1>9
  <2>4. i = j
    BY <2>1, <2>2, <2>3, <1>2, <1>5
  <2>5. root[i].racks = f[ds[i]] /\ ds[i] \in DataCenters
    BY <1>5
  <2>6. f[ds[i]][k] = f[ds[i]][l] /\ k \in DOMAIN f[ds[i]] /\ l \in DOMAIN f[ds[i]]
    BY <2>1, <2>2, <2>3, <2>4, <2>5
  <2> QED BY <2>4, <2>5, <2>6, <1>3
<1>10. ASSUME NEW i \in DOMAIN root, NEW j \in DOMAIN root,
              NEW k \in DOMAIN root[i].racks, NEW l \in DOMAIN root[j].racks,
              NEW h \in root[i].racks[k].hosts \cap root[j].racks[l].hosts
       PROVE  i = j /\ k = l
  <2>1. root[i].racks[k] = [id |-> root[i].racks[k].id, hosts |-> HostsIn(root[i].racks[k].id)]
    BY <1>6
  <2>2. root[j].racks[l] = [id |-> root[j].racks[l].id, hosts |-> HostsIn(root[j].racks[l].id)]
    BY <1>6
  <2>3. placement[h] = root[i].racks[k].id
    BY <2>1 DEF HostsIn
  <2>4. placement[h] = root[j].racks[l].id
    BY <2>2 DEF HostsIn
  <2>5. root[i].racks[k].id = root[j].racks[l].id
    BY <2>3, <2>4
  <2> QED BY <2>5, <1>9
<1>11. ASSUME NEW r \in Racks
       PROVE  \E i \in DOMAIN root : \E k \in DOMAIN root[i].racks :
                  root[i].racks[k] = [id |-> r, hosts |-> HostsIn(r)]
  <2>1. DataCenterOf[r] \in DataCenters
    BY TopologyManagerAssumption
  <2>2. [id |-> r, hosts |-> HostsIn(r)] \in RacksOf(DataCenterOf[r])
    BY DEF RacksOf
  <2>3. PICK i \in DOMAIN ds : ds[i] = DataCenterOf[r]
    BY <2>1, <1>2
  <2>4. PICK k \in DOMAIN f[ds[i]] : f[ds[i]][k] = [id |-> r, hosts |-> HostsIn(r)]
    BY <2>1, <2>2, <2>3, <1>3
  <2>5. i \in DOMAIN root
    BY <1>1
  <2> QED BY <2>4, <2>5, <1>5
<1>12. IsTree(root)
  BY <1>7, <1>8, <1>9, <1>10, Zenon DEF IsTree
<1>13. Reflects(root)
  BY <1>11, Zenon DEF Reflects
<1> QED BY <1>12, <1>13

-----------------------------------------------------------------------------
(* The searches in a tree without repetition.                                *)

LEMMA OnlyOne ==
    \A n \in Int : Min({n}) = n /\ Max({n}) = n
  BY DEF Min, Max

\* The types of what a tree holds.
LEMMA TreeParts ==
    ASSUME NEW root, IsTree(root), NEW i \in DOMAIN root
    PROVE  /\ DOMAIN root = 1..Len(root) /\ Len(root) \in Nat
           /\ root[i].id \in DataCenters
           /\ DOMAIN root[i].racks = 1..Len(root[i].racks) /\ Len(root[i].racks) \in Nat
           /\ \A k \in DOMAIN root[i].racks :
                 /\ root[i].racks[k] \in Rack
                 /\ root[i].racks[k].id \in Racks
                 /\ root[i].racks[k].hosts \subseteq Hosts
<1>1. root \in Seq([id : DataCenters, racks : Seq(Rack)])
  BY DEF IsTree
<1>2. root[i] \in [id : DataCenters, racks : Seq(Rack)]
  <2>1. i \in 1..Len(root)
    BY <1>1
  <2> QED BY <1>1, <2>1, ElementOfSeq, Zenon
<1>3. root[i].racks \in Seq(Rack)
  BY <1>2
<1>4. \A k \in DOMAIN root[i].racks : root[i].racks[k] \in Rack
  <2>1. DOMAIN root[i].racks = 1..Len(root[i].racks)
    BY <1>3
  <2> QED BY <1>3, <2>1, ElementOfSeq, Zenon
<1> QED BY <1>1, <1>2, <1>3, <1>4 DEF Rack

\* A host that is in the tree is found, with its rack and its data center.
LEMMA HostFound ==
    ASSUME NEW root, IsTree(root), NEW i \in DOMAIN root, NEW k \in DOMAIN root[i].racks,
           NEW h \in root[i].racks[k].hosts
    PROVE  /\ getHostByID(root, h) = HostOf(root[i], root[i].racks[k], h)
           /\ getHostByID(root, h) # Null
<1> DEFINE place == HostOf(root[i], root[i].racks[k], h)
<1>1. place # Null
  <2>1. place \in Place
    BY TreeParts DEF HostOf, Place
  <2> QED BY <2>1, TopologyManagerAssumption
<1>2. \A j \in DOMAIN root : \A l \in DOMAIN root[j].racks :
          h \in root[j].racks[l].hosts => j = i /\ l = k
  BY DEF IsTree
<1>3. \A l \in 1..Len(root[i].racks) : h \in root[i].racks[l].hosts <=> l = k
  <2>1. DOMAIN root[i].racks = 1..Len(root[i].racks)
    BY TreeParts
  <2> QED BY <1>2, <2>1
<1>4. findHost(root[i], h) = place
  <2>1. {l \in 1..Len(root[i].racks) : h \in root[i].racks[l].hosts} = {k}
    BY <1>3, TreeParts
  <2>2. Min({k}) = k /\ k # 0
    BY OnlyOne, TreeParts
  <2> QED BY <2>1, <2>2 DEF findHost, SelectInSeq
<1>5. ASSUME NEW j \in DOMAIN root, j # i
      PROVE  findHost(root[j], h) = Null
  <2>1. {l \in 1..Len(root[j].racks) : h \in root[j].racks[l].hosts} = {}
    BY <1>2, <1>5, TreeParts
  <2> QED BY <2>1 DEF findHost, SelectInSeq
<1>6. {j \in 1..Len(root) : findHost(root[j], h) # Null} = {i}
  BY <1>1, <1>4, <1>5, TreeParts
<1>7. Min({i}) = i /\ i # 0
  BY OnlyOne, TreeParts
<1> QED BY <1>1, <1>4, <1>6, <1>7 DEF getHostByID, SelectInSeq

\* A host that is not in the tree is not found.
LEMMA HostNotFound ==
    ASSUME NEW root, IsTree(root), NEW h,
           \A i \in DOMAIN root : \A k \in DOMAIN root[i].racks : h \notin root[i].racks[k].hosts
    PROVE  getHostByID(root, h) = Null
<1>1. ASSUME NEW j \in DOMAIN root
      PROVE  findHost(root[j], h) = Null
  <2>1. {l \in 1..Len(root[j].racks) : h \in root[j].racks[l].hosts} = {}
    BY TreeParts
  <2> QED BY <2>1 DEF findHost, SelectInSeq
<1>2. {j \in 1..Len(root) : findHost(root[j], h) # Null} = {}
  <2>1. DOMAIN root = 1..Len(root)
    BY DEF IsTree
  <2> QED BY <1>1, <2>1
<1> QED BY <1>2 DEF getHostByID, SelectInSeq

\* A data center of the tree is found by its ID.
LEMMA DataCenterFound ==
    ASSUME NEW root, IsTree(root), NEW i \in DOMAIN root
    PROVE  getDataCenterByID(root, root[i].id) = root[i]
<1>1. {j \in 1..Len(root) : root[j].id = root[i].id} = {i}
  BY TreeParts DEF IsTree
<1>2. Min({i}) = i /\ i # 0
  BY OnlyOne, TreeParts
<1> QED BY <1>1, <1>2 DEF getDataCenterByID, SelectInSeq

\* A rack of the tree is found by its ID.
LEMMA RackFound ==
    ASSUME NEW root, IsTree(root), NEW i \in DOMAIN root, NEW k \in DOMAIN root[i].racks
    PROVE  getRackByID(root, root[i].racks[k].id) = root[i].racks[k]
<1> DEFINE r == root[i].racks[k].id
<1>1. root[i].racks[k] # Null
  BY TreeParts, TopologyManagerAssumption
<1>2. \A j \in DOMAIN root : \A l \in DOMAIN root[j].racks :
          root[j].racks[l].id = r => j = i /\ l = k
  BY DEF IsTree
<1>3. findRack(root[i], r) = root[i].racks[k]
  <2>1. {l \in 1..Len(root[i].racks) : root[i].racks[l].id = r} = {k}
    BY <1>2, TreeParts
  <2>2. Min({k}) = k /\ k # 0
    BY OnlyOne, TreeParts
  <2> QED BY <2>1, <2>2 DEF findRack, SelectInSeq
<1>4. ASSUME NEW j \in DOMAIN root, j # i
      PROVE  findRack(root[j], r) = Null
  <2>1. {l \in 1..Len(root[j].racks) : root[j].racks[l].id = r} = {}
    BY <1>2, <1>4, TreeParts
  <2> QED BY <2>1 DEF findRack, SelectInSeq
<1>5. {j \in 1..Len(root) : findRack(root[j], r) # Null} = {i}
  BY <1>1, <1>3, <1>4, TreeParts
<1>6. Min({i}) = i /\ i # 0
  BY OnlyOne, TreeParts
<1> QED BY <1>3, <1>5, <1>6 DEF getRackByID, SelectInSeq

-----------------------------------------------------------------------------
(* The map of TopologyWriter.                                                *)

\* It has exactly the hosts of the tree.
LEMMA HostsMapped ==
    ASSUME NEW root, NEW h
    PROVE  h \in DOMAIN createHostMap(root) <=>
               \E i \in DOMAIN root : \E k \in DOMAIN root[i].racks : h \in root[i].racks[k].hosts
<1>1. DOMAIN createHostMap(root) =
          UNION {UNION {rack.hosts : rack \in ToSet(dc.racks)} : dc \in ToSet(root)}
  BY DEF createHostMap
<1> QED BY <1>1 DEF ToSet

\* It gives a host the place where the searches find it.
LEMMA PlaceMapped ==
    ASSUME NEW root, IsTree(root), NEW i \in DOMAIN root, NEW k \in DOMAIN root[i].racks,
           NEW h \in root[i].racks[k].hosts
    PROVE  createHostMap(root)[h] = HostOf(root[i], root[i].racks[k], h)
<1> DEFINE dcs == {j \in 1..Len(root) : \E l \in DOMAIN root[j].racks : h \in root[j].racks[l].hosts}
           first == IF dcs # {} THEN Max(dcs) ELSE 0
           racks == {l \in 1..Len(root[first].racks) : h \in root[first].racks[l].hosts}
           second == IF racks # {} THEN Max(racks) ELSE 0
<1>1. \A j \in DOMAIN root : \A l \in DOMAIN root[j].racks :
          h \in root[j].racks[l].hosts => j = i /\ l = k
  BY DEF IsTree
<1>2. /\ DOMAIN root = 1..Len(root) /\ Len(root) \in Nat
      /\ DOMAIN root[i].racks = 1..Len(root[i].racks) /\ Len(root[i].racks) \in Nat
  BY TreeParts
<1>3. first = i
  <2>1. dcs = {i}
    BY <1>1, <1>2
  <2>2. Max({i}) = i
    <3>1. i \in Int
      BY <1>2
    <3> QED BY <3>1, OnlyOne
  <2> QED BY <2>1, <2>2
<1>4. second = k
  <2>1. racks = {k}
    BY <1>1, <1>2, <1>3
  <2>2. Max({k}) = k
    <3>1. k \in Int
      BY <1>2
    <3> QED BY <3>1, OnlyOne
  <2> QED BY <2>1, <2>2
<1>5. createHostMap(root)[h] = HostOf(root[first], root[first].racks[second], h)
  <2>1. h \in UNION {UNION {rack.hosts : rack \in ToSet(dc.racks)} : dc \in ToSet(root)}
    BY DEF ToSet
  <2> QED BY <2>1 DEF createHostMap, SelectLastInSeq
<1> QED BY <1>3, <1>4, <1>5

-----------------------------------------------------------------------------
(* The theorems.                                                             *)

\* All that a tree without repetition gives.
LEMMA TreesAgree ==
    ASSUME IsTree(physicalRoot)
    PROVE  LookupsAgree
<1> SUFFICES ASSUME NEW h \in Hosts
             PROVE  LookupsAgree!(h)
  BY DEF LookupsAgree
<1>1. CASE \E i \in DOMAIN physicalRoot : \E k \in DOMAIN physicalRoot[i].racks :
               h \in physicalRoot[i].racks[k].hosts
  <2>a. PICK i \in DOMAIN physicalRoot : \E k \in DOMAIN physicalRoot[i].racks :
            h \in physicalRoot[i].racks[k].hosts
    BY <1>1
  <2>1. PICK k \in DOMAIN physicalRoot[i].racks : h \in physicalRoot[i].racks[k].hosts
    BY <2>a
  <2> DEFINE dc == physicalRoot[i]
             rack == dc.racks[k]
             place == HostOf(dc, rack, h)
  <2>2. place \in Places(physicalRoot)
    BY <2>1 DEF Places, ToSet
  <2>3. place.host = h /\ place.rack = rack.id /\ place.dc = dc.id
    BY DEF HostOf
  <2>4. getHostByID(physicalRoot, h) = place /\ getHostByID(physicalRoot, h) # Null
    BY <2>1, HostFound
  <2>5. getRackIDForHost(physicalRoot, h) = place.rack
    BY <2>4 DEF getRackIDForHost
  <2>6. getDataCenterIDForHost(physicalRoot, h) = place.dc
    BY <2>4 DEF getDataCenterIDForHost
  <2>7. createHostMap(physicalRoot)[h] = place
    BY <2>1, PlaceMapped
  <2>8. getRackByID(physicalRoot, place.rack) = rack
    BY <2>1, <2>3, RackFound
  <2>9. getDataCenterByID(physicalRoot, place.dc) = dc
    BY <2>1, <2>3, DataCenterFound
  <2>10. rack \in ToSet(dc.racks)
    BY <2>1 DEF ToSet
  <2> QED BY <2>1, <2>2, <2>3, <2>4, <2>5, <2>6, <2>7, <2>8, <2>9, <2>10
<1>2. CASE \A i \in DOMAIN physicalRoot : \A k \in DOMAIN physicalRoot[i].racks :
               h \notin physicalRoot[i].racks[k].hosts
  <2>1. \A place \in Places(physicalRoot) : place.host # h
    BY <1>2 DEF Places, ToSet, HostOf
  <2>2. getHostByID(physicalRoot, h) = Null
    BY <1>2, HostNotFound
  <2>3. h \notin DOMAIN createHostMap(physicalRoot)
    BY <1>2, HostsMapped
  <2> QED BY <2>1, <2>2, <2>3 DEF getRackIDForHost, getDataCenterIDForHost
<1> QED BY <1>1, <1>2

\* The history and the tree agree: the tree is one the middleware gave, and after a
\* successful refresh it has every rack as the middleware has it now.
IInv ==
    /\ placement \in [Hosts -> Racks \cup {Null}]
    /\ IsTree(physicalRoot)
    /\ refreshed /\ exact => Reflects(physicalRoot)

LEMMA InitIInv == Init => IInv
<1> SUFFICES ASSUME Init
             PROVE  IInv
  OBVIOUS
<1>1. IsTree(<< >>)
  BY DEF IsTree
<1> QED BY <1>1 DEF Init, IInv

LEMMA NextIInv == IInv /\ [Next]_vars => IInv'
<1> SUFFICES ASSUME IInv, [Next]_vars
             PROVE  IInv'
  OBVIOUS
<1> USE DEF IInv
<1>1. ASSUME NEW h \in Hosts, NEW r \in Racks, HostJoins(h, r)
      PROVE  IInv'
  BY <1>1 DEF HostJoins
<1>2. ASSUME NEW h \in Hosts, HostLeaves(h)
      PROVE  IInv'
  BY <1>2 DEF HostLeaves
<1>3. CASE Recover
  BY <1>3 DEF Recover, Reflects, HostsIn
<1>4. CASE RefreshSucceeds
  <2>1. placement' = placement
    BY <1>4 DEF RefreshSucceeds
  <2>2. PICK root \in Answers : physicalRoot' = root
    BY <1>4 DEF RefreshSucceeds
  <2>3. IsTree(root) /\ Reflects(root)
    BY <2>2, AnswersAreTrees
  <2>4. IsTree(physicalRoot)'
    BY <2>2, <2>3 DEF IsTree
  <2>5. Reflects(physicalRoot)'
    BY <2>1, <2>2, <2>3 DEF Reflects, HostsIn
  <2> QED BY <2>1, <2>4, <2>5
<1>5. CASE RefreshFails
  BY <1>5 DEF RefreshFails
<1>6. CASE UNCHANGED vars
  BY <1>6 DEF vars, Reflects, HostsIn
<1> QED BY <1>1, <1>2, <1>3, <1>4, <1>5, <1>6 DEF Next, refreshTopology

\* The invariant above holds in every reachable state.
THEOREM TreesReflect == Spec => []IInv
<1> QED BY InitIInv, NextIInv, PTL DEF Spec

\* Whatever the order of the maps, every lookup and the map of TopologyWriter give a
\* host the one place it has in the tree.
THEOREM AllLookupsAgree == Spec => []LookupsAgree
<1>1. IInv => LookupsAgree
  BY TreesAgree DEF IInv
<1> QED BY <1>1, TreesReflect, PTL

\* A tree that reflects the placement tells the rack of every host.
LEMMA ReflectedExact ==
    ASSUME placement \in [Hosts -> Racks \cup {Null}],
           IsTree(physicalRoot), Reflects(physicalRoot), NEW h \in Hosts
    PROVE  getRackIDForHost(physicalRoot, h) = TrueRack(h)
<1>1. CASE placement[h] # Null
  <2> DEFINE r == placement[h]
  <2>1. r \in Racks /\ h \in HostsIn(r)
    BY <1>1 DEF HostsIn
  <2>a. PICK i \in DOMAIN physicalRoot : \E k \in DOMAIN physicalRoot[i].racks :
            physicalRoot[i].racks[k] = [id |-> r, hosts |-> HostsIn(r)]
    BY <2>1 DEF Reflects
  <2>2. PICK k \in DOMAIN physicalRoot[i].racks :
            physicalRoot[i].racks[k] = [id |-> r, hosts |-> HostsIn(r)]
    BY <2>a
  <2>3. h \in physicalRoot[i].racks[k].hosts /\ physicalRoot[i].racks[k].id = r
    BY <2>1, <2>2
  <2>4. /\ getHostByID(physicalRoot, h) = HostOf(physicalRoot[i], physicalRoot[i].racks[k], h)
        /\ getHostByID(physicalRoot, h) # Null
    BY <2>3, HostFound
  <2>5. getRackIDForHost(physicalRoot, h) = r
    BY <2>3, <2>4 DEF getRackIDForHost, HostOf
  <2> QED BY <1>1, <2>5 DEF TrueRack
<1>2. CASE placement[h] = Null
  <2>1. ASSUME NEW i \in DOMAIN physicalRoot, NEW k \in DOMAIN physicalRoot[i].racks
        PROVE  h \notin physicalRoot[i].racks[k].hosts
    <3> DEFINE r == physicalRoot[i].racks[k].id
    <3>1. r \in Racks
      BY TreeParts
    <3>a. PICK j \in DOMAIN physicalRoot : \E l \in DOMAIN physicalRoot[j].racks :
              physicalRoot[j].racks[l] = [id |-> r, hosts |-> HostsIn(r)]
      BY <3>1 DEF Reflects
    <3>2. PICK l \in DOMAIN physicalRoot[j].racks :
              physicalRoot[j].racks[l] = [id |-> r, hosts |-> HostsIn(r)]
      BY <3>a
    <3>3. physicalRoot[j].racks[l].id = r
      BY <3>2
    <3>4. i = j /\ k = l
      BY <3>3 DEF IsTree
    <3>5. physicalRoot[i].racks[k].hosts = HostsIn(r)
      BY <3>2, <3>4
    <3>6. h \notin HostsIn(r)
      BY <1>2, <3>1, TopologyManagerAssumption DEF HostsIn
    <3> QED BY <3>5, <3>6
  <2>2. getHostByID(physicalRoot, h) = Null
    BY <2>1, HostNotFound
  <2> QED BY <1>2, <2>2 DEF getRackIDForHost, TrueRack
<1> QED BY <1>1, <1>2

\* After a successful refresh, and until a host comes or goes, the lookups tell where
\* every host really is.
THEOREM RefreshedTreeExact == Spec => []TopologyExact
<1>1. IInv => TopologyExact
  BY ReflectedExact DEF IInv, TopologyExact
<1> QED BY <1>1, TreesReflect, PTL
=============================================================================
