-------------------------- MODULE DaemonCollection --------------------------
(***************************************************************************)
(* nebu::app::framework::DaemonCollection and Daemon: the extension's        *)
(* daemons, indexed by type.  A DaemonType is unsigned, the keys of the map  *)
(* are signed: the conversion wraps.  An extension adds daemons and launches *)
(* them, in any order.                                                       *)
(***************************************************************************)
EXTENDS Integers, Functions

CONSTANTS
    Daemons,    \* the daemons an extension may create
    IntLimit,   \* INT_MAX + 1, which is 2^31 in the usual builds
    typeOf      \* getType() of every daemon, which its class fixes

DaemonType == 0..(2 * IntLimit - 1)

ASSUME DaemonCollectionAssumption ==
    /\ IntLimit \in Nat \ {0}
    /\ typeOf \in [Daemons -> DaemonType]

VARIABLES
    daemons,    \* the map from the keys it has to sets of daemons
    launched,   \* the daemons for which hasLaunched() holds
    added       \* history: what addDaemon was called with

vars == <<daemons, launched, added>>

\* (mutant of Key) the conversion drops the sign bit
Truncated(type) == type % IntLimit

\* static_cast<int>(type)
Key(type) == IF type < IntLimit THEN type ELSE type - 2 * IntLimit

Init == daemons = << >> /\ launched = {} /\ added = {}

-----------------------------------------------------------------------------
getDaemons == UNION Range(daemons)

getDaemonsForType(type) ==
    IF Key(type) \in DOMAIN daemons THEN daemons[Key(type)] ELSE {}

\* The predicate is one of the extension's: here, the daemons for which it is true.
getDaemonsFiltered(included) ==
    UNION {{d \in daemons[key] : d \in included} : key \in DOMAIN daemons}

hasLaunched(d) == d \in launched

getLaunchedDaemonsForType(type) == {d \in getDaemonsForType(type) : hasLaunched(d)}

getUnlaunchedDaemonsForType(type) == {d \in getDaemonsForType(type) : ~hasLaunched(d)}

-----------------------------------------------------------------------------
\* (mutant of addDaemon) the set is made anew every time
AddAlone(d) ==
    /\ daemons' = [key \in DOMAIN daemons \cup {Key(typeOf[d])} |->
                      IF key = Key(typeOf[d]) THEN {d} ELSE daemons[key]]
    /\ added' = added \cup {d}
    /\ UNCHANGED launched

\* A daemon may be added again.
addDaemon(d) ==
    /\ daemons' = [key \in DOMAIN daemons \cup {Key(typeOf[d])} |->
                      IF key = Key(typeOf[d]) THEN getDaemonsForType(typeOf[d]) \cup {d}
                                              ELSE daemons[key]]
    /\ added' = added \cup {d}
    /\ UNCHANGED launched

\* launch() of the extension's class has succeeded; a failure changes nothing.
launch(d) ==
    /\ launched' = launched \cup {d}
    /\ UNCHANGED <<daemons, added>>

Next == \E d \in Daemons : addDaemon(d) \/ launch(d)

Spec == Init /\ [][Next]_vars

-----------------------------------------------------------------------------
(* Properties                                                                *)

\* Whatever the order of calls, all the getters select from the same daemons, those
\* that were added: none is lost when the set of its type is extended, none is found
\* under two types, and for every type, even one too large for an int, the launched
\* and the unlaunched daemons are its daemons.
GettersAgree ==
    /\ getDaemons = added
    /\ \A included \in SUBSET Daemons : getDaemonsFiltered(included) = added \cap included
    /\ \A type \in DaemonType :
          /\ getDaemonsForType(type) = {d \in added : typeOf[d] = type}
          /\ getLaunchedDaemonsForType(type) = {d \in added \cap launched : typeOf[d] = type}
          /\ getUnlaunchedDaemonsForType(type) = {d \in added \ launched : typeOf[d] = type}
=============================================================================
