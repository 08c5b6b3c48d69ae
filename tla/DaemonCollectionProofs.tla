----------------------- MODULE DaemonCollectionProofs -----------------------
(***************************************************************************)
(* The getters of DaemonCollection agree, for every set of daemons and every  *)
(* width of an int.  The invariant Indexed says what the map holds; that it   *)
(* is enough rests on KeysDiffer, the conversion of types losing nothing.    *)
(***************************************************************************)
EXTENDS DaemonCollection, TLAPS

\* The map has a key for every type that was added, and under it the daemons of that type.
Indexed ==
    /\ added \subseteq Daemons
    /\ launched \subseteq Daemons
    /\ daemons = [key \in {Key(typeOf[d]) : d \in added} |->
                     {d \in added : Key(typeOf[d]) = key}]

\* The conversion of a DaemonType to the int that indexes the map is one to one.
LEMMA KeysDiffer ==
    \A s, t \in DaemonType : Key(s) = Key(t) => s = t
  BY DaemonCollectionAssumption DEF DaemonType, Key

\* addDaemon, which extends the set of a key or makes a new one, keeps the index.
LEMMA AddIndexes ==
    ASSUME Indexed, NEW d \in Daemons, addDaemon(d)
    PROVE  Indexed'
<1> DEFINE k == Key(typeOf[d])
           keys == {Key(typeOf[e]) : e \in added}
           new == [key \in DOMAIN daemons \cup {k} |->
                      IF key = k THEN getDaemonsForType(typeOf[d]) \cup {d} ELSE daemons[key]]
<1>1. DOMAIN daemons = keys /\ \A key \in keys : daemons[key] = {e \in added : Key(typeOf[e]) = key}
  BY DEF Indexed
<1>2. getDaemonsForType(typeOf[d]) = {e \in added : Key(typeOf[e]) = k}
  BY <1>1 DEF getDaemonsForType
<1>3. daemons' = new /\ added' = added \cup {d} /\ launched' = launched
  BY DEF addDaemon
<1>4. DOMAIN daemons \cup {k} = {Key(typeOf[e]) : e \in added'}
  BY <1>1, <1>3
<1>5. ASSUME NEW key \in DOMAIN daemons \cup {k}
      PROVE  new[key] = {e \in added' : Key(typeOf[e]) = key}
  <2>1. CASE key = k
    BY <1>2, <1>3, <2>1
  <2>2. CASE key # k
    BY <1>1, <1>3, <2>2
  <2> QED BY <2>1, <2>2
<1>6. new = [key \in {Key(typeOf[e]) : e \in added'} |-> {e \in added' : Key(typeOf[e]) = key}]
  BY <1>4, <1>5
<1> QED BY <1>3, <1>6 DEF Indexed

\* The index is an invariant.
THEOREM IndexInvariant == Spec => []Indexed
<1>1. Init => Indexed
  <2> SUFFICES ASSUME Init PROVE Indexed
    OBVIOUS
  <2>1. added = {} /\ launched = {} /\ daemons = << >>
    BY DEF Init
  <2>2. << >> = [key \in {Key(typeOf[d]) : d \in {}} |-> {d \in {} : Key(typeOf[d]) = key}]
    OBVIOUS
  <2> QED BY <2>1, <2>2 DEF Indexed
<1>2. Indexed /\ [Next]_vars => Indexed'
  <2> SUFFICES ASSUME Indexed, [Next]_vars PROVE Indexed'
    OBVIOUS
  <2>1. ASSUME NEW d \in Daemons, addDaemon(d) PROVE Indexed'
    BY <2>1, AddIndexes
  <2>2. ASSUME NEW d \in Daemons, launch(d) PROVE Indexed'
    BY <2>2 DEF launch, Indexed
  <2>3. CASE UNCHANGED vars
    BY <2>3 DEF vars, Indexed
  <2> QED BY <2>1, <2>2, <2>3 DEF Next
<1> QED BY <1>1, <1>2, PTL DEF Spec

\* Whatever was added and launched, every getter returns exactly the daemons it names.
THEOREM AllGettersAgree == Spec => []GettersAgree
<1>1. Indexed => GettersAgree
  <2> SUFFICES ASSUME Indexed PROVE GettersAgree
    OBVIOUS
  <2>1. \A d \in added : d \in Daemons /\ typeOf[d] \in DaemonType
    BY DaemonCollectionAssumption DEF Indexed
  <2>2. /\ DOMAIN daemons = {Key(typeOf[d]) : d \in added}
        /\ \A key \in DOMAIN daemons : daemons[key] = {d \in added : Key(typeOf[d]) = key}
    BY DEF Indexed
  <2>3. getDaemons = added
    BY <2>2 DEF getDaemons, Range
  <2>4. \A included \in SUBSET Daemons : getDaemonsFiltered(included) = added \cap included
    BY <2>2 DEF getDaemonsFiltered
  <2>5. ASSUME NEW type \in DaemonType
        PROVE  getDaemonsForType(type) = {d \in added : typeOf[d] = type}
    <3>1. \A d \in added : Key(typeOf[d]) = Key(type) <=> typeOf[d] = type
      BY <2>1, KeysDiffer
    <3>2. getDaemonsForType(type) = {d \in added : Key(typeOf[d]) = Key(type)}
      BY <2>2 DEF getDaemonsForType
    <3> QED BY <3>1, <3>2
  <2> QED
    BY <2>3, <2>4, <2>5 DEF GettersAgree, getLaunchedDaemonsForType,
                            getUnlaunchedDaemonsForType, hasLaunched
<1> QED BY <1>1, IndexInvariant, PTL
=============================================================================
