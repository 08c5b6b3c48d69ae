--------------------------- MODULE VMManagerProofs ---------------------------
(***************************************************************************)
(* Theorems about VMManager, for every set of VMs, hosts and handlers.      *)
(***************************************************************************)
EXTENDS VMManager, SequenceTheorems, FiniteSetTheorems, TLAPS

-----------------------------------------------------------------------------
(* Sequences and the set of their elements.                                  *)

LEMMA AppendElements ==
    ASSUME NEW S, NEW s \in Seq(S), NEW x \in S
    PROVE  /\ Append(s, x) \in Seq(S)
           /\ Range(Append(s, x)) = Range(s) \cup {x}
<1>1. Append(s, x) \in Seq(S)
  BY AppendProperties
<1>2. Range(Append(s, x)) = {Append(s, x)[i] : i \in 1 .. Len(s) + 1}
  <2>1. Len(Append(s, x)) = Len(s) + 1
    BY AppendProperties
  <2> QED BY <1>1, <2>1, RangeEquality, Zenon
<1>3. Range(s) = {s[i] : i \in 1 .. Len(s)}
  BY RangeEquality
<1> QED
  BY <1>1, <1>2, <1>3, AppendProperties, LenProperties

LEMMA TailElements ==
    ASSUME NEW S, NEW s \in Seq(S), s # << >>
    PROVE  /\ Head(s) \in S
           /\ Tail(s) \in Seq(S)
           /\ Range(s) = Range(Tail(s)) \cup {Head(s)}
<1>1. Head(s) \in S /\ Tail(s) \in Seq(S)
  OBVIOUS
<1>2. Len(s) \in Nat \ {0} /\ Len(Tail(s)) = Len(s) - 1
  OBVIOUS
<1>3. ASSUME NEW i \in DOMAIN Tail(s) PROVE Tail(s)[i] \in Range(s)
  BY <1>2 DEF Range
<1>4. ASSUME NEW i \in DOMAIN s PROVE s[i] \in Range(Tail(s)) \cup {Head(s)}
  <2>1. CASE i = 1
    BY <2>1
  <2>2. CASE i # 1
    <3>1. i - 1 \in DOMAIN Tail(s) /\ Tail(s)[i - 1] = s[i]
      BY <1>2, <2>2
    <3> QED BY <3>1 DEF Range
  <2> QED BY <2>1, <2>2
<1>5. Head(s) \in Range(s)
  BY <1>2 DEF Range
<1> QED
  BY <1>1, <1>3, <1>4, <1>5 DEF Range

LEMMA EmptyElements == ASSUME NEW S PROVE << >> \in Seq(S) /\ Range(<< >>) = {}
BY DEF Range

LEMMA ElementsTyped == ASSUME NEW S, NEW s \in Seq(S) PROVE Range(s) \subseteq S
BY DEF Range

LEMMA ListingsTyped ==
    ASSUME NEW ids \in Listings
    PROVE  ids \in Seq(VMIDs) /\ Range(ids) = Existing
BY SeqDef DEF Listings

LEMMA EventRoundTrip ==
    ASSUME NEW s \in VMStatus
    PROVE  StatusAfter[VMEventFor[s]] = s
BY VMManagerAssumption DEF StatusAfter, VMEventFor

-----------------------------------------------------------------------------
(* The inductive invariant, in parts.                                        *)

Agrees(id) == StatusOf(vmList[id]) = StatusOf(cloud[id])

\* The vectors and sets of IDs that refreshVMList hands from loop to loop.
ListInv ==
    /\ phase = "idle" => filtered = << >>
    /\ (phase \in {"add", "update", "remove"} /\ steady) => Range(vmIDs) = Existing
    /\ phase = "add" => /\ Range(filtered) \subseteq Known
                        /\ Range(filtered) \cup Range(pending) \subseteq Range(vmIDs)
    /\ phase = "update" => Range(pending) \subseteq Known \cap Range(vmIDs)
    /\ phase = "remove" => doomed \subseteq Known \ Range(vmIDs)

\* Handlers are told what vmList holds, and only while a refresh runs.
NoteInv ==
    note # Null => phase # "idle" /\ note.learns = StatusOf(vmList[note.id])

\* The work left to a refresh that has not failed so far, or cannot fail to read a VM
\* because the middleware rests: an exception from a hook comes after the change.
ExactInv ==
    (steady /\ (succes \/ quiet)) =>
        /\ phase = "add" =>
               \A id \in Existing : id \in Range(filtered) \cup Range(pending) \/ Agrees(id)
        /\ phase = "update" => \A id \in Existing : id \in Range(pending) \/ Agrees(id)
        /\ phase = "remove" => \A id \in VMIDs : id \in doomed \/ Agrees(id)
        /\ phase = "idle" => \A id \in VMIDs : Agrees(id)

\* Without exceptions from hooks, a refresh fails only on a request.
CleanInv == (phase # "terminated" /\ quiet /\ steady) => succes

\* updateVMs meets a VM that vmList holds.
UpdateFinds ==
    (phase = "update" /\ note = Null /\ pending # << >>) => Head(pending) \in Known

IInv == TypeOK /\ ListInv /\ NoteInv /\ ExactInv /\ ViewsAgree

-----------------------------------------------------------------------------
(* Type correctness.                                                         *)

LEMMA VMTyped ==
    ASSUME TypeOK, NEW id \in VMIDs, cloud[id] # Null
    PROVE  cloud[id] \in VM /\ cloud[id].status \in VMStatus
BY DEF TypeOK, VM

LEMMA KnownTyped ==
    ASSUME TypeOK, NEW id \in VMIDs, vmList[id] # Null
    PROVE  vmList[id] \in VM /\ vmList[id].status \in VMStatus
BY DEF TypeOK, VM

LEMMA NotifyTyped ==
    ASSUME NEW id \in VMIDs, NEW s \in VMStatus \cup {Null}, Notify(id, s)
    PROVE  note' \in Note /\ next' \in Nat \ {0}
BY DEF Notify, Note

\* The event of an updated VM tells the handlers its status.
LEMMA UpdateTells ==
    ASSUME TypeOK, NEW id \in VMIDs, NEW vm \in VM, vmList[id] # Null, updateVM(id, vm)
    PROVE  /\ vmList' = [vmList EXCEPT ![id] = [vmList[id] EXCEPT !.status = vm.status]]
           /\ vmList' \in [VMIDs -> VM \cup {Null}]
           /\ vmList'[id] # Null /\ vmList'[id].status = vm.status
           /\ vm.status \in VMStatus
           /\ Notify(id, vm.status)
<1>1. vmList[id] \in VM /\ vm.status \in VMStatus
  BY KnownTyped DEF VM
<1>2. vmList' = [vmList EXCEPT ![id] = [vmList[id] EXCEPT !.status = vm.status]]
  BY DEF updateVM
<1>3. [vmList[id] EXCEPT !.status = vm.status] \in VM
  BY <1>1 DEF VM
<1>4. Notify(id, vm.status)
  BY <1>1, EventRoundTrip DEF updateVM
<1>5. [vmList[id] EXCEPT !.status = vm.status].status = vm.status
  BY <1>1 DEF VM
<1>6. vmList' \in [VMIDs -> VM \cup {Null}]
  BY <1>2, <1>3 DEF TypeOK
<1>7. vmList'[id] = [vmList[id] EXCEPT !.status = vm.status]
  BY <1>2 DEF TypeOK
<1>8. vmList'[id] # Null
  BY <1>3, <1>7, VMManagerAssumption
<1> QED
  BY <1>1, <1>2, <1>4, <1>5, <1>6, <1>7, <1>8

LEMMA TypeInit == Init => TypeOK
<1> SUFFICES ASSUME Init PROVE TypeOK
  OBVIOUS
<1>1. << >> \in Seq(VMIDs) /\ << >> \in Seq(Handlers)
  BY EmptyElements
<1>2. quiet \in BOOLEAN /\ succes \in BOOLEAN /\ steady \in BOOLEAN
  BY Zenon DEF Init
<1>3. view \in [Handlers -> [VMIDs -> VMStatus \cup {Null}]]
  BY DEF Init
<1>4. /\ cloud \in [VMIDs -> VM \cup {Null}] /\ vmList \in [VMIDs -> VM \cup {Null}]
      /\ handlers \in Seq(Handlers) /\ phase \in Phases
      /\ vmIDs \in Seq(VMIDs) /\ pending \in Seq(VMIDs) /\ filtered \in Seq(VMIDs)
      /\ doomed \in SUBSET VMIDs /\ note \in Note \cup {Null} /\ next \in Nat \ {0}
  BY <1>1 DEF Init, Phases
<1> QED
  BY <1>2, <1>3, <1>4, Zenon DEF TypeOK

LEMMA ListFinds == TypeOK /\ ListInv => UpdateFinds
BY TailElements DEF TypeOK, ListInv, UpdateFinds

LEMMA TypeNext == TypeOK /\ UpdateFinds /\ [Next]_vars => TypeOK'
<1> SUFFICES ASSUME TypeOK, UpdateFinds, [Next]_vars PROVE TypeOK'
  OBVIOUS
<1> USE DEF TypeOK, Phases, env, loop, delivery
<1>1. ASSUME NEW id \in VMIDs, CloudChange(id) PROVE TypeOK'
  BY <1>1 DEF CloudChange
<1>2. CASE Settle
  BY <1>2 DEF Settle
<1>3. CASE RetrieveIDs
  BY <1>3, ListingsTyped DEF RetrieveIDs, RefreshBegins
<1>4. CASE FailToRetrieveIDs
  BY <1>4 DEF FailToRetrieveIDs
<1>5. CASE KeepKnown
  <2>1. Head(pending) \in VMIDs /\ Tail(pending) \in Seq(VMIDs)
    BY <1>5, TailElements DEF KeepKnown
  <2>2. Append(filtered, Head(pending)) \in Seq(VMIDs)
    BY <2>1, AppendElements
  <2> QED
    BY <1>5, <2>1, <2>2 DEF KeepKnown
<1>6. CASE AddNew
  <2> DEFINE id == Head(pending)
  <2>1. id \in VMIDs /\ Tail(pending) \in Seq(VMIDs)
    BY <1>6, TailElements DEF AddNew
  <2>2. CASE Retrieves(id) /\ addVM(id, cloud[id]) /\ UNCHANGED succes
    <3>1. cloud[id] \in VM /\ cloud[id].status \in VMStatus
      BY <2>1, <2>2, VMTyped DEF Retrieves
    <3>2. note' \in Note /\ next' \in Nat \ {0}
      BY <2>1, <2>2, <3>1, NotifyTyped DEF addVM
    <3>3. vmList' \in [VMIDs -> VM \cup {Null}]
      BY <2>1, <2>2, <3>1 DEF addVM
    <3> QED
      BY <1>6, <2>1, <2>2, <3>2, <3>3 DEF AddNew
  <2>3. CASE RequestFails
    BY <1>6, <2>1, <2>3 DEF AddNew, RequestFails
  <2> QED
    BY <1>6, <2>2, <2>3 DEF AddNew
<1>7. CASE StartUpdating
  BY <1>7 DEF StartUpdating, ToUpdate
<1>8. CASE UpdateKnown
  <2> DEFINE id == Head(pending)
  <2>1. id \in VMIDs /\ Tail(pending) \in Seq(VMIDs)
    BY <1>8, TailElements DEF UpdateKnown
  <2>2. CASE Retrieves(id) /\ updateVM(id, cloud[id]) /\ UNCHANGED succes
    <3>1. vmList[id] # Null
      BY <1>8 DEF UpdateKnown, UpdateFinds, Known
    <3>2. cloud[id] \in VM
      BY <2>1, <2>2, VMTyped DEF Retrieves
    <3>3. note' \in Note /\ next' \in Nat \ {0} /\ vmList' \in [VMIDs -> VM \cup {Null}]
      BY <2>1, <2>2, <3>1, <3>2, UpdateTells, NotifyTyped
    <3> QED
      BY <1>8, <2>1, <2>2, <3>3 DEF UpdateKnown
  <2>3. CASE UNCHANGED <<vmList, delivery, succes>>
    BY <1>8, <2>1, <2>3 DEF UpdateKnown
  <2>4. CASE RequestFails
    BY <1>8, <2>1, <2>4 DEF UpdateKnown, RequestFails
  <2> QED
    BY <1>8, <2>2, <2>3, <2>4 DEF UpdateKnown
<1>9. CASE StartRemoving
  BY <1>9 DEF StartRemoving, ToRemove, Known
<1>10. ASSUME NEW id \in VMIDs, RemoveOld(id) PROVE TypeOK'
  BY <1>10, NotifyTyped DEF RemoveOld, removeVM
<1>11. CASE Return
  BY <1>11, EmptyElements DEF Return
<1>12. CASE CallHandler
  <2>1. handlers[next] \in Handlers /\ note \in Note
    BY <1>12 DEF CallHandler
  <2>2. note.id \in VMIDs /\ note.learns \in VMStatus \cup {Null}
    BY <2>1 DEF Note
  <2>3. view' = [view EXCEPT ![handlers[next]] = [view[handlers[next]] EXCEPT ![note.id] = note.learns]]
    BY <1>12 DEF CallHandler
  <2>4. [view[handlers[next]] EXCEPT ![note.id] = note.learns] \in [VMIDs -> VMStatus \cup {Null}]
    BY <2>1, <2>2
  <2>5. view' \in [Handlers -> [VMIDs -> VMStatus \cup {Null}]]
    BY <2>1, <2>3, <2>4
  <2> QED
    BY <1>12, <2>5 DEF CallHandler
<1>13. CASE HandlerThrows
  <2>1. phase' \in Phases
    BY <1>13 DEF HandlerThrows
  <2>2. note' \in Note \cup {Null} /\ next' \in Nat \ {0}
    BY <1>13 DEF HandlerThrows, EndDelivery
  <2>3. succes' \in BOOLEAN
    BY <1>13, Zenon DEF HandlerThrows
  <2> QED
    BY <1>13, <2>1, <2>2, <2>3 DEF HandlerThrows
<1>14. CASE AllCalled
  BY <1>14 DEF AllCalled, EndDelivery
<1>15. ASSUME NEW h \in Handlers, registerVMEventHandler(h) PROVE TypeOK'
  <2>1. Statuses(vmList) \in [VMIDs -> VMStatus \cup {Null}]
    BY KnownTyped DEF Statuses, StatusOf
  <2>2. Append(handlers, h) \in Seq(Handlers)
    BY AppendElements
  <2> QED
    BY <1>15, <2>1, <2>2 DEF registerVMEventHandler
<1>16. CASE UNCHANGED vars
  BY <1>16 DEF vars
<1> QED
  BY <1>1, <1>2, <1>3, <1>4, <1>5, <1>6, <1>7, <1>8, <1>9, <1>10, <1>11, <1>12, <1>13,
     <1>14, <1>15, <1>16
  DEF Next, refreshVMList, addNewVMs, updateVMs, removeVMs, NotifyHandlers

-----------------------------------------------------------------------------
(* What the three changes of vmList leave behind.                            *)

LEMMA AddEffect ==
    ASSUME TypeOK, NEW id \in VMIDs, NEW vm \in VM, addVM(id, vm)
    PROVE  /\ vmList'[id] = vm
           /\ \A i \in VMIDs \ {id} : vmList'[i] = vmList[i]
           /\ Known' = Known \cup {id}
           /\ vm # Null
           /\ StatusOf(vmList'[id]) = vm.status
           /\ note' # Null /\ note'.id = id /\ note'.learns = vm.status /\ next' = 1
<1>1. vmList'[id] = vm /\ \A i \in VMIDs \ {id} : vmList'[i] = vmList[i]
  BY DEF addVM, TypeOK
<1>2. vm # Null
  BY VMManagerAssumption
<1>3. Known' = Known \cup {id}
  BY <1>1, <1>2 DEF Known
<1>4. StatusOf(vmList'[id]) = vm.status
  BY <1>1, <1>2 DEF StatusOf
<1>5. vm.status \in VMStatus
  BY DEF VM
<1>6. note' = [id |-> id, learns |-> vm.status] /\ next' = 1
  BY DEF addVM, Notify
<1>7. note' \in Note
  BY <1>5, <1>6 DEF Note
<1> QED
  BY <1>1, <1>2, <1>3, <1>4, <1>6, <1>7, VMManagerAssumption

LEMMA UpdateEffect ==
    ASSUME TypeOK, NEW id \in Known, NEW vm \in VM, updateVM(id, vm)
    PROVE  /\ \A i \in VMIDs \ {id} : vmList'[i] = vmList[i]
           /\ Known' = Known
           /\ StatusOf(vmList'[id]) = vm.status
           /\ note' # Null /\ note'.id = id /\ note'.learns = vm.status /\ next' = 1
<1>1. id \in VMIDs /\ vmList[id] # Null
  BY DEF Known
<1>2. /\ vmList' = [vmList EXCEPT ![id] = [vmList[id] EXCEPT !.status = vm.status]]
      /\ vmList'[id] # Null /\ vmList'[id].status = vm.status
      /\ vm.status \in VMStatus
      /\ Notify(id, vm.status)
  BY <1>1, UpdateTells
<1>3. \A i \in VMIDs \ {id} : vmList'[i] = vmList[i]
  BY <1>1, <1>2 DEF TypeOK
<1>4. Known' = Known
  BY <1>1, <1>2, <1>3 DEF Known
<1>5. StatusOf(vmList'[id]) = vm.status
  BY <1>2 DEF StatusOf
<1>6. note' = [id |-> id, learns |-> vm.status] /\ next' = 1
  BY <1>2 DEF Notify
<1>7. note' \in Note
  BY <1>1, <1>2, <1>6 DEF Note
<1> QED
  BY <1>3, <1>4, <1>5, <1>6, <1>7, VMManagerAssumption

LEMMA RemoveEffect ==
    ASSUME TypeOK, NEW id \in VMIDs, removeVM(id)
    PROVE  /\ vmList'[id] = Null
           /\ \A i \in VMIDs \ {id} : vmList'[i] = vmList[i]
           /\ Known' = Known \ {id}
           /\ StatusOf(vmList'[id]) = Null
           /\ note' # Null /\ note'.id = id /\ note'.learns = Null /\ next' = 1
<1>1. vmList'[id] = Null /\ \A i \in VMIDs \ {id} : vmList'[i] = vmList[i]
  BY DEF removeVM, TypeOK
<1>2. Known' = Known \ {id}
  BY <1>1 DEF Known
<1>3. note' = [id |-> id, learns |-> Null] /\ next' = 1
  BY DEF removeVM, Notify
<1>4. note' \in Note
  BY <1>3 DEF Note
<1> QED
  BY <1>1, <1>2, <1>3, <1>4, VMManagerAssumption DEF StatusOf

-----------------------------------------------------------------------------
(* The work lists.                                                           *)

LEMMA ListNext == TypeOK /\ ListInv /\ [Next]_vars => ListInv'
<1> SUFFICES ASSUME TypeOK, ListInv, [Next]_vars PROVE ListInv'
  OBVIOUS
<1> USE DEF ListInv, env, loop, delivery
<1>1. ASSUME NEW id \in VMIDs, CloudChange(id) PROVE ListInv'
  BY <1>1 DEF CloudChange, Known
<1>2. CASE Settle
  BY <1>2 DEF Settle, Known
<1>3. CASE RetrieveIDs
  <2>1. Range(vmIDs') = Existing /\ pending' = vmIDs' /\ phase' = "add"
    BY <1>3, ListingsTyped DEF RetrieveIDs
  <2>2. Existing' = Existing
    BY <1>3 DEF RetrieveIDs, Existing
  <2>3. Range(filtered') = {}
    BY <1>3, EmptyElements DEF RetrieveIDs
  <2> QED
    BY <2>1, <2>2, <2>3
<1>4. CASE FailToRetrieveIDs
  BY <1>4 DEF FailToRetrieveIDs, Known
<1>5. CASE KeepKnown
  <2>1. /\ Head(pending) \in VMIDs
        /\ Range(pending) = Range(Tail(pending)) \cup {Head(pending)}
    BY <1>5, TailElements DEF KeepKnown, TypeOK
  <2>2. Range(filtered') = Range(filtered) \cup {Head(pending)}
    BY <1>5, <2>1, AppendElements DEF KeepKnown, TypeOK
  <2>3. Head(pending) \in Known
    BY <1>5, <2>1 DEF KeepKnown, Known
  <2>4. Known' = Known /\ Existing' = Existing
    BY <1>5 DEF KeepKnown, Known, Existing
  <2> QED
    BY <1>5, <2>1, <2>2, <2>3, <2>4 DEF KeepKnown
<1>6. CASE AddNew
  <2>1. /\ Head(pending) \in VMIDs
        /\ Range(pending) = Range(Tail(pending)) \cup {Head(pending)}
    BY <1>6, TailElements DEF AddNew, TypeOK
  <2>2. Known \subseteq Known'
    <3>1. CASE Retrieves(Head(pending)) /\ addVM(Head(pending), cloud[Head(pending)])
      BY <2>1, <3>1, VMTyped, AddEffect DEF Retrieves
    <3>2. CASE RequestFails
      BY <3>2 DEF RequestFails, Known
    <3> QED
      BY <1>6, <3>1, <3>2 DEF AddNew
  <2>3. Existing' = Existing
    BY <1>6 DEF AddNew, Existing
  <2> QED
    BY <1>6, <2>1, <2>2, <2>3 DEF AddNew
<1>7. CASE StartUpdating
  BY <1>7 DEF StartUpdating, ToUpdate, Known, Existing
<1>8. CASE UpdateKnown
  <2>1. /\ Head(pending) \in VMIDs /\ Head(pending) \in Known
        /\ Range(pending) = Range(Tail(pending)) \cup {Head(pending)}
    BY <1>8, TailElements DEF UpdateKnown, TypeOK
  <2>2. Known' = Known
    <3>1. CASE Retrieves(Head(pending)) /\ updateVM(Head(pending), cloud[Head(pending)])
      BY <2>1, <3>1, VMTyped, UpdateEffect DEF Retrieves
    <3>2. CASE UNCHANGED vmList
      BY <3>2 DEF Known
    <3> QED
      BY <1>8, <3>1, <3>2 DEF UpdateKnown, RequestFails
  <2>3. Existing' = Existing
    BY <1>8 DEF UpdateKnown, Existing
  <2> QED
    BY <1>8, <2>1, <2>2, <2>3 DEF UpdateKnown
<1>9. CASE StartRemoving
  BY <1>9 DEF StartRemoving, ToRemove, Known, Existing
<1>10. ASSUME NEW id \in VMIDs, RemoveOld(id) PROVE ListInv'
  BY <1>10, RemoveEffect DEF RemoveOld, Existing
<1>11. CASE Return
  BY <1>11 DEF Return
<1>12. CASE CallHandler
  BY <1>12 DEF CallHandler, Known, Existing
<1>13. CASE HandlerThrows
  BY <1>13 DEF HandlerThrows, Known, Existing
<1>14. CASE AllCalled
  BY <1>14 DEF AllCalled, Known, Existing
<1>15. ASSUME NEW h \in Handlers, registerVMEventHandler(h) PROVE ListInv'
  BY <1>15 DEF registerVMEventHandler, Known, Existing
<1>16. CASE UNCHANGED vars
  BY <1>16 DEF vars, Known, Existing
<1> QED
  BY <1>1, <1>2, <1>3, <1>4, <1>5, <1>6, <1>7, <1>8, <1>9, <1>10, <1>11, <1>12, <1>13,
     <1>14, <1>15, <1>16
  DEF Next, refreshVMList, addNewVMs, updateVMs, removeVMs, NotifyHandlers

-----------------------------------------------------------------------------
(* The event being delivered.                                                *)

LEMMA NoteNext == TypeOK /\ ListInv /\ NoteInv /\ [Next]_vars => NoteInv'
<1> SUFFICES ASSUME TypeOK, ListInv, NoteInv, [Next]_vars PROVE NoteInv'
  OBVIOUS
<1> USE DEF NoteInv, env, loop, delivery
<1>1. ASSUME NEW id \in VMIDs, CloudChange(id) PROVE NoteInv'
  BY <1>1 DEF CloudChange, StatusOf
<1>2. CASE Settle
  BY <1>2 DEF Settle, StatusOf
<1>3. CASE RetrieveIDs
  BY <1>3 DEF RetrieveIDs
<1>4. CASE FailToRetrieveIDs
  BY <1>4 DEF FailToRetrieveIDs
<1>5. CASE KeepKnown
  BY <1>5 DEF KeepKnown
<1>6. CASE AddNew
  <2>1. Head(pending) \in VMIDs
    BY <1>6, TailElements DEF AddNew, TypeOK
  <2>2. CASE Retrieves(Head(pending)) /\ addVM(Head(pending), cloud[Head(pending)])
    BY <1>6, <2>1, <2>2, VMTyped, AddEffect DEF AddNew, Retrieves
  <2>3. CASE RequestFails
    BY <1>6, <2>3 DEF AddNew, RequestFails
  <2> QED
    BY <1>6, <2>2, <2>3 DEF AddNew
<1>7. CASE StartUpdating
  BY <1>7 DEF StartUpdating
<1>8. CASE UpdateKnown
  <2>1. Head(pending) \in VMIDs /\ Head(pending) \in Known
    BY <1>8, TailElements DEF UpdateKnown, TypeOK, ListInv
  <2>2. CASE Retrieves(Head(pending)) /\ updateVM(Head(pending), cloud[Head(pending)])
    BY <1>8, <2>1, <2>2, VMTyped, UpdateEffect DEF UpdateKnown, Retrieves
  <2>3. CASE UNCHANGED delivery
    BY <1>8, <2>3 DEF UpdateKnown
  <2> QED
    BY <1>8, <2>2, <2>3 DEF UpdateKnown, RequestFails
<1>9. CASE StartRemoving
  BY <1>9 DEF StartRemoving
<1>10. ASSUME NEW id \in VMIDs, RemoveOld(id) PROVE NoteInv'
  BY <1>10, RemoveEffect DEF RemoveOld
<1>11. CASE Return
  BY <1>11 DEF Return
<1>12. CASE CallHandler
  BY <1>12 DEF CallHandler, StatusOf
<1>13. CASE HandlerThrows
  BY <1>13 DEF HandlerThrows, EndDelivery, StatusOf
<1>14. CASE AllCalled
  BY <1>14 DEF AllCalled, EndDelivery
<1>15. ASSUME NEW h \in Handlers, registerVMEventHandler(h) PROVE NoteInv'
  BY <1>15 DEF registerVMEventHandler, StatusOf
<1>16. CASE UNCHANGED vars
  BY <1>16 DEF vars, StatusOf
<1> QED
  BY <1>1, <1>2, <1>3, <1>4, <1>5, <1>6, <1>7, <1>8, <1>9, <1>10, <1>11, <1>12, <1>13,
     <1>14, <1>15, <1>16
  DEF Next, refreshVMList, addNewVMs, updateVMs, removeVMs, NotifyHandlers

-----------------------------------------------------------------------------
(* What a refresh that has not failed to read a VM has still to do.          *)

\* With every listed VM there, no request for one of them throws.
LEMMA RestedAnswers ==
    ASSUME TypeOK, ListInv, quiet, steady, phase \in {"add", "update"}, pending # << >>
    PROVE  ~Throws(Head(pending))
<1>1. Head(pending) \in Range(vmIDs)
  BY TailElements DEF TypeOK, ListInv
<1>2. Head(pending) \in Existing
  BY <1>1 DEF ListInv
<1> QED BY <1>2 DEF Throws, Existing

LEMMA ExactNext == TypeOK /\ ListInv /\ ExactInv /\ [Next]_vars => ExactInv'
<1> SUFFICES ASSUME TypeOK, ListInv, ExactInv, [Next]_vars PROVE ExactInv'
  OBVIOUS
<1> USE DEF ExactInv, env, loop, delivery
\* A step that leaves the two maps alone leaves alone what agrees.
<1>a. ASSUME UNCHANGED <<cloud, vmList>>
      PROVE  Existing' = Existing /\ \A id \in VMIDs : Agrees(id)' = Agrees(id)
  BY <1>a DEF Existing, Agrees, StatusOf
<1>1. ASSUME NEW id \in VMIDs, CloudChange(id) PROVE ExactInv'
  BY <1>1 DEF CloudChange
<1>2. CASE Settle
  BY <1>2 DEF Settle
<1>3. CASE RetrieveIDs
  <2>1. Range(pending') = Existing /\ phase' = "add"
    BY <1>3, ListingsTyped DEF RetrieveIDs
  <2>2. Existing' = Existing
    BY <1>3, <1>a DEF RetrieveIDs
  <2> QED
    BY <2>1, <2>2
<1>4. CASE FailToRetrieveIDs
  BY <1>4 DEF FailToRetrieveIDs
<1>5. CASE KeepKnown
  <2>1. /\ Head(pending) \in VMIDs
        /\ Range(pending) = Range(Tail(pending)) \cup {Head(pending)}
    BY <1>5, TailElements DEF KeepKnown, TypeOK
  <2>2. Range(filtered') = Range(filtered) \cup {Head(pending)}
    BY <1>5, <2>1, AppendElements DEF KeepKnown, TypeOK
  <2>3. Existing' = Existing /\ \A id \in VMIDs : Agrees(id)' = Agrees(id)
    BY <1>5, <1>a DEF KeepKnown
  <2> QED
    BY <1>5, <2>1, <2>2, <2>3 DEF KeepKnown, Existing
<1>6. CASE AddNew
  <2>1. PICK i \in VMIDs : /\ i = Head(pending)
                         /\ Range(pending) = Range(Tail(pending)) \cup {i}
    BY <1>6, TailElements DEF AddNew, TypeOK
  <2>2. CASE Retrieves(i) /\ addVM(i, cloud[i]) /\ UNCHANGED succes
    <3>1. cloud[i] \in VM /\ cloud[i] # Null
      BY <2>1, <2>2, VMTyped DEF Retrieves
    <3>2. Agrees(i)'
      BY <1>6, <2>1, <2>2, <3>1, AddEffect DEF AddNew, Agrees, StatusOf
    <3>3. cloud' = cloud /\ \A id \in VMIDs \ {i} : vmList'[id] = vmList[id]
      BY <1>6, <2>1, <2>2, <3>1, AddEffect DEF AddNew
    <3>4. Existing' = Existing
      BY <3>3 DEF Existing
    <3>5. ASSUME NEW id \in VMIDs, Agrees(id) PROVE Agrees(id)'
      BY <3>2, <3>3, <3>5 DEF Agrees, StatusOf
    <3> QED
      BY <1>6, <2>1, <2>2, <3>2, <3>4, <3>5 DEF AddNew, Existing
  <2>3. CASE Throws(i) /\ RequestFails
    <3>1. ~(steady /\ quiet)
      BY <1>6, <2>1, <2>3, RestedAnswers DEF AddNew
    <3> QED
      BY <1>6, <2>3, <3>1 DEF RequestFails, AddNew
  <2> QED
    BY <1>6, <2>1, <2>2, <2>3 DEF AddNew
<1>7. CASE StartUpdating
  <2>1. Existing' = Existing /\ \A id \in VMIDs : Agrees(id)' = Agrees(id)
    BY <1>7, <1>a DEF StartUpdating
  <2>2. Range(pending) = {}
    BY <1>7, EmptyElements DEF StartUpdating
  <2> QED
    BY <1>7, <2>1, <2>2 DEF StartUpdating, ToUpdate, Existing
<1>8. CASE UpdateKnown
  <2>1. PICK i \in VMIDs : /\ i = Head(pending) /\ i \in Known
                         /\ Range(pending) = Range(Tail(pending)) \cup {i}
    BY <1>8, TailElements DEF UpdateKnown, TypeOK, ListInv
  <2>2. CASE Retrieves(i) /\ updateVM(i, cloud[i]) /\ UNCHANGED succes
    <3>1. cloud[i] \in VM /\ cloud[i] # Null
      BY <2>1, <2>2, VMTyped DEF Retrieves
    <3>2. Agrees(i)'
      BY <1>8, <2>1, <2>2, <3>1, UpdateEffect DEF UpdateKnown, Agrees, StatusOf
    <3>3. cloud' = cloud /\ \A id \in VMIDs \ {i} : vmList'[id] = vmList[id]
      BY <1>8, <2>1, <2>2, <3>1, UpdateEffect DEF UpdateKnown
    <3>4. Existing' = Existing
      BY <3>3 DEF Existing
    <3>5. ASSUME NEW id \in VMIDs, Agrees(id) PROVE Agrees(id)'
      BY <3>2, <3>3, <3>5 DEF Agrees, StatusOf
    <3> QED
      BY <1>8, <2>1, <2>2, <3>2, <3>4, <3>5 DEF UpdateKnown, Existing
  <2>3. CASE /\ Retrieves(i) /\ vmList[i].status = cloud[i].status
             /\ UNCHANGED <<vmList, delivery, succes>>
    <3>1. Existing' = Existing /\ \A id \in VMIDs : Agrees(id)' = Agrees(id)
      BY <1>8, <2>3, <1>a DEF UpdateKnown
    <3>2. Agrees(i)
      BY <2>1, <2>3 DEF Agrees, StatusOf, Retrieves, Known
    <3> QED
      BY <1>8, <2>1, <2>3, <3>1, <3>2 DEF UpdateKnown, Existing
  <2>4. CASE Throws(i) /\ RequestFails
    <3>1. ~(steady /\ quiet)
      BY <1>8, <2>1, <2>4, RestedAnswers DEF UpdateKnown
    <3> QED
      BY <1>8, <2>4, <3>1 DEF RequestFails, UpdateKnown
  <2> QED
    BY <1>8, <2>1, <2>2, <2>3, <2>4 DEF UpdateKnown
<1>9. CASE StartRemoving
  <2>1. Existing' = Existing /\ \A id \in VMIDs : Agrees(id)' = Agrees(id)
    BY <1>9, <1>a DEF StartRemoving
  <2>2. Range(pending) = {}
    BY <1>9, EmptyElements DEF StartRemoving
  <2>3. ASSUME steady, succes \/ quiet, NEW id \in VMIDs, id \notin doomed' PROVE Agrees(id)
    <3>1. CASE id \in Existing
      BY <1>9, <2>2, <2>3, <3>1 DEF StartRemoving
    <3>2. CASE id \notin Existing
      <4>1. id \notin Range(vmIDs)
        BY <1>9, <2>3, <3>2 DEF StartRemoving, ListInv
      <4>2. id \notin Known
        BY <1>9, <2>3, <4>1 DEF StartRemoving, ToRemove
      <4> QED
        BY <3>2, <4>2 DEF Existing, Known, Agrees, StatusOf
    <3> QED
      BY <3>1, <3>2
  <2> QED
    BY <1>9, <2>1, <2>3 DEF StartRemoving
<1>10. ASSUME NEW i \in VMIDs, RemoveOld(i) PROVE ExactInv'
  <2>1. ASSUME steady PROVE i \notin Existing
    BY <1>10, <2>1 DEF RemoveOld, ListInv
  <2>2. ASSUME steady PROVE Agrees(i)'
    BY <1>10, <2>1, <2>2, RemoveEffect DEF RemoveOld, Agrees, StatusOf, Existing
  <2>3. \A id \in VMIDs \ {i} : Agrees(id)' = Agrees(id)
    BY <1>10, RemoveEffect DEF RemoveOld, Agrees, StatusOf
  <2> QED
    BY <1>10, <2>2, <2>3 DEF RemoveOld
<1>11. CASE Return
  BY <1>11, <1>a DEF Return
<1>12. CASE CallHandler
  BY <1>12, <1>a DEF CallHandler, Existing
<1>13. CASE HandlerThrows
  BY <1>13, <1>a DEF HandlerThrows, Existing
<1>14. CASE AllCalled
  BY <1>14, <1>a DEF AllCalled, Existing
<1>15. ASSUME NEW h \in Handlers, registerVMEventHandler(h) PROVE ExactInv'
  BY <1>15, <1>a DEF registerVMEventHandler, Existing
<1>16. CASE UNCHANGED vars
  BY <1>16, <1>a DEF vars, Existing
<1> QED
  BY <1>1, <1>2, <1>3, <1>4, <1>5, <1>6, <1>7, <1>8, <1>9, <1>10, <1>11, <1>12, <1>13,
     <1>14, <1>15, <1>16
  DEF Next, refreshVMList, addNewVMs, updateVMs, removeVMs, NotifyHandlers

-----------------------------------------------------------------------------
(* What the handlers know.                                                   *)

\* A change of one VM after which every handler has yet to be called.
LEMMA ChangeKeepsViews ==
    ASSUME TypeOK, ViewsAgree, note = Null, NEW id \in VMIDs,
           \A i \in VMIDs \ {id} : vmList'[i] = vmList[i],
           note' # Null, note'.id = id, next' = 1,
           UNCHANGED <<handlers, view>>
    PROVE  ViewsAgree'
<1>1. ASSUME NEW i \in DOMAIN handlers, Shielded(i), NEW v \in VMIDs, v # id
      PROVE  view[handlers[i]][v] = StatusOf(vmList'[v])
  BY <1>1 DEF ViewsAgree, StatusOf
<1>2. \A i \in DOMAIN handlers : Shielded(i)' = Shielded(i) /\ next' <= i
  <2>1. \A i \in DOMAIN handlers : Shielded(i)' = Shielded(i)
    BY DEF Shielded
  <2>2. handlers \in Seq(Handlers)
    BY DEF TypeOK
  <2>3. \A i \in DOMAIN handlers : i \in Nat /\ 1 <= i
    BY <2>2
  <2> QED
    BY <2>1, <2>3
<1> QED
  BY <1>1, <1>2 DEF ViewsAgree

LEMMA ViewsNext == TypeOK /\ ListInv /\ NoteInv /\ ViewsAgree /\ [Next]_vars => ViewsAgree'
<1> SUFFICES ASSUME TypeOK, ListInv, NoteInv, ViewsAgree, [Next]_vars PROVE ViewsAgree'
  OBVIOUS
<1> USE DEF env, loop, delivery
\* Most steps change neither vmList nor what the handlers were told.
<1>a. ASSUME UNCHANGED <<vmList, handlers, delivery, view>> PROVE ViewsAgree'
  BY <1>a DEF ViewsAgree, Shielded, StatusOf
<1>1. ASSUME NEW id \in VMIDs, CloudChange(id) PROVE ViewsAgree'
  BY <1>1, <1>a DEF CloudChange
<1>2. CASE Settle
  BY <1>2, <1>a DEF Settle
<1>3. CASE RetrieveIDs
  BY <1>3, <1>a DEF RetrieveIDs
<1>4. CASE FailToRetrieveIDs
  BY <1>4, <1>a DEF FailToRetrieveIDs
<1>5. CASE KeepKnown
  BY <1>5, <1>a DEF KeepKnown
<1>6. CASE AddNew
  <2>1. PICK i \in VMIDs : i = Head(pending)
    BY <1>6, TailElements DEF AddNew, TypeOK
  <2>2. CASE Retrieves(i) /\ addVM(i, cloud[i])
    <3>1. cloud[i] \in VM
      BY <2>2, VMTyped DEF Retrieves
    <3> QED
      BY <1>6, <2>2, <3>1, AddEffect, ChangeKeepsViews DEF AddNew
  <2>3. CASE RequestFails
    BY <1>6, <2>3, <1>a DEF AddNew, RequestFails
  <2> QED
    BY <1>6, <2>1, <2>2, <2>3 DEF AddNew
<1>7. CASE StartUpdating
  BY <1>7, <1>a DEF StartUpdating
<1>8. CASE UpdateKnown
  <2>1. PICK i \in VMIDs : i = Head(pending) /\ i \in Known
    BY <1>8, TailElements DEF UpdateKnown, TypeOK, ListInv
  <2>2. CASE Retrieves(i) /\ updateVM(i, cloud[i])
    <3>1. cloud[i] \in VM
      BY <2>2, VMTyped DEF Retrieves
    <3> QED
      BY <1>8, <2>1, <2>2, <3>1, UpdateEffect, ChangeKeepsViews DEF UpdateKnown
  <2>3. CASE UNCHANGED <<vmList, delivery>>
    BY <1>8, <2>3, <1>a DEF UpdateKnown
  <2> QED
    BY <1>8, <2>1, <2>2, <2>3 DEF UpdateKnown, RequestFails
<1>9. CASE StartRemoving
  BY <1>9, <1>a DEF StartRemoving
<1>10. ASSUME NEW id \in VMIDs, RemoveOld(id) PROVE ViewsAgree'
  BY <1>10, RemoveEffect, ChangeKeepsViews DEF RemoveOld
<1>11. CASE Return
  BY <1>11, <1>a DEF Return
<1>12. CASE CallHandler
  <2> DEFINE h == handlers[next]
  <2>1. /\ note # Null /\ h \in Handlers /\ note.id \in VMIDs
        /\ note.learns = StatusOf(vmList[note.id])
    BY <1>12 DEF CallHandler, TypeOK, NoteInv, Note
  <2>2. UNCHANGED <<vmList, handlers, note>> /\ next' = next + 1
    BY <1>12 DEF CallHandler
  <2>3. ASSUME NEW g \in Handlers, NEW v \in VMIDs
        PROVE  view'[g][v] = IF g = h /\ v = note.id THEN note.learns ELSE view[g][v]
    BY <1>12, <2>1 DEF CallHandler, TypeOK
  <2>4. SUFFICES ASSUME NEW i \in DOMAIN handlers, Shielded(i), NEW v \in VMIDs,
                        ~(note.id = v /\ next' <= i)
                 PROVE  view'[handlers[i]][v] = StatusOf(vmList[v])
    BY <2>1, <2>2 DEF ViewsAgree, Shielded, StatusOf
  <2>5. i \in 1 .. Len(handlers) /\ handlers[i] \in Handlers /\ next \in Nat
    BY DEF TypeOK
  <2>6. CASE v = note.id /\ next = i
    BY <2>1, <2>3, <2>5, <2>6
  <2>7. CASE ~(v = note.id /\ next <= i)
    BY <2>1, <2>3, <2>4, <2>5, <2>7 DEF ViewsAgree
  <2> QED
    BY <2>2, <2>4, <2>5, <2>6, <2>7
<1>13. CASE HandlerThrows
  <2>1. CASE phase = "remove"
    BY <1>13, <2>1, <1>a DEF HandlerThrows
  <2>2. CASE phase # "remove"
    <3>1. /\ note # Null /\ next \in Nat \ {0} /\ handlers[next] \in ThrowingHandlers
          /\ UNCHANGED <<vmList, handlers, view>> /\ note' = Null
      BY <1>13, <2>2 DEF HandlerThrows, EndDelivery, TypeOK
    <3>2. ASSUME NEW i \in DOMAIN handlers, Shielded(i) PROVE ~(next <= i)
      BY <3>1, <3>2 DEF Shielded, TypeOK
    <3> QED
      BY <3>1, <3>2 DEF ViewsAgree, Shielded, StatusOf
  <2> QED
    BY <2>1, <2>2
<1>14. CASE AllCalled
  <2>1. /\ next > Len(handlers) /\ note' = Null
        /\ UNCHANGED <<vmList, handlers, view>>
    BY <1>14 DEF AllCalled, EndDelivery
  <2>2. ASSUME NEW i \in DOMAIN handlers PROVE ~(next <= i)
    BY <2>1 DEF TypeOK
  <2> QED
    BY <2>1, <2>2 DEF ViewsAgree, Shielded, StatusOf
<1>15. ASSUME NEW h \in Handlers, registerVMEventHandler(h) PROVE ViewsAgree'
  <2>1. /\ DOMAIN handlers' = 1 .. Len(handlers) + 1
        /\ \A i \in 1 .. Len(handlers) : handlers'[i] = handlers[i]
        /\ handlers'[Len(handlers) + 1] = h
    BY <1>15, AppendProperties DEF registerVMEventHandler, TypeOK
  <2>2. /\ UNCHANGED <<vmList, delivery>>
        /\ view'[h] = Statuses(vmList)
        /\ \A g \in Handlers \ {h} : view'[g] = view[g]
    BY <1>15 DEF registerVMEventHandler, TypeOK
  <2>3. \A v \in VMIDs : view'[h][v] = StatusOf(vmList[v])
    BY <2>2 DEF Statuses
  <2>4. SUFFICES ASSUME NEW i \in DOMAIN handlers', Shielded(i)', NEW v \in VMIDs
                 PROVE  \/ view'[handlers'[i]][v] = StatusOf(vmList[v])
                        \/ note # Null /\ note.id = v /\ next <= i
    BY <2>2 DEF ViewsAgree, StatusOf
  <2>5. CASE handlers'[i] = h
    BY <2>3, <2>5
  <2>6. CASE handlers'[i] # h
    <3>1. i \in DOMAIN handlers /\ handlers'[i] = handlers[i] /\ handlers[i] \in Handlers
      BY <2>1, <2>6 DEF TypeOK
    <3>2. Shielded(i)
      <4>1. ASSUME NEW j \in 1 .. i PROVE handlers[j] = handlers'[j]
        <5>1. i \in 1 .. Len(handlers) /\ Len(handlers) \in Nat
          BY <3>1, LenProperties DEF TypeOK
        <5>2. j \in 1 .. Len(handlers)
          BY <5>1
        <5> QED
          BY <2>1, <5>2
      <4>2. \A j \in 1 .. i : handlers'[j] \notin ThrowingHandlers
        BY <2>4, Zenon DEF Shielded
      <4> QED
        BY <4>1, <4>2 DEF Shielded
    <3> QED
      BY <2>2, <2>6, <3>1, <3>2 DEF ViewsAgree
  <2> QED
    BY <2>5, <2>6
<1>16. CASE UNCHANGED vars
  BY <1>16, <1>a DEF vars
<1> QED
  BY <1>1, <1>2, <1>3, <1>4, <1>5, <1>6, <1>7, <1>8, <1>9, <1>10, <1>11, <1>12, <1>13,
     <1>14, <1>15, <1>16
  DEF Next, refreshVMList, addNewVMs, updateVMs, removeVMs, NotifyHandlers

-----------------------------------------------------------------------------
(* A refresh whose requests are all answered.                                *)

LEMMA CleanNext ==
    ASSUME ThrowingHandlers = {}, TypeOK, ListInv, CleanInv, [Next]_vars
    PROVE  CleanInv'
<1> USE DEF CleanInv, env, loop, delivery
<1>a. ASSUME quiet, steady, phase \in {"add", "update"}, pending # << >>, Throws(Head(pending))
      PROVE  FALSE
  BY <1>a, RestedAnswers
<1>1. ASSUME NEW id \in VMIDs, CloudChange(id) PROVE CleanInv'
  BY <1>1 DEF CloudChange
<1>2. CASE Settle
  BY <1>2 DEF Settle
<1>3. CASE RetrieveIDs
  BY <1>3 DEF RetrieveIDs, RefreshBegins
<1>4. CASE FailToRetrieveIDs
  BY <1>4 DEF FailToRetrieveIDs
<1>5. CASE KeepKnown
  BY <1>5 DEF KeepKnown
<1>6. CASE AddNew
  <2>1. CASE UNCHANGED succes
    BY <1>6, <2>1 DEF AddNew
  <2>2. CASE Throws(Head(pending))
    BY <1>6, <1>a, <2>2 DEF AddNew
  <2> QED
    BY <1>6, <2>1, <2>2 DEF AddNew
<1>7. CASE StartUpdating
  BY <1>7 DEF StartUpdating
<1>8. CASE UpdateKnown
  <2>1. CASE UNCHANGED succes
    BY <1>8, <2>1 DEF UpdateKnown
  <2>2. CASE Throws(Head(pending))
    BY <1>8, <1>a, <2>2 DEF UpdateKnown
  <2> QED
    BY <1>8, <2>1, <2>2 DEF UpdateKnown
<1>9. CASE StartRemoving
  BY <1>9 DEF StartRemoving
<1>10. ASSUME NEW id \in VMIDs, RemoveOld(id) PROVE CleanInv'
  BY <1>10 DEF RemoveOld
<1>11. CASE Return
  BY <1>11 DEF Return
<1>12. CASE CallHandler
  BY <1>12 DEF CallHandler
<1>13. CASE HandlerThrows
  BY <1>13 DEF HandlerThrows
<1>14. CASE AllCalled
  BY <1>14 DEF AllCalled
<1>15. ASSUME NEW h \in Handlers, registerVMEventHandler(h) PROVE CleanInv'
  BY <1>15 DEF registerVMEventHandler
<1>16. CASE UNCHANGED vars
  BY <1>16 DEF vars
<1> QED
  BY <1>1, <1>2, <1>3, <1>4, <1>5, <1>6, <1>7, <1>8, <1>9, <1>10, <1>11, <1>12, <1>13,
     <1>14, <1>15, <1>16
  DEF Next, refreshVMList, addNewVMs, updateVMs, removeVMs, NotifyHandlers

-----------------------------------------------------------------------------
(* The theorems.                                                             *)

LEMMA InvInit == Init => IInv
<1> SUFFICES ASSUME Init PROVE IInv
  OBVIOUS
<1>1. TypeOK
  BY TypeInit
<1>2. ListInv
  BY DEF Init, ListInv
<1>3. NoteInv
  BY DEF Init, NoteInv
<1>4. ExactInv
  BY DEF Init, ExactInv
<1>5. ViewsAgree
  <2>1. DOMAIN handlers = {}
    BY DEF Init
  <2> QED
    BY <2>1 DEF ViewsAgree
<1> QED
  BY <1>1, <1>2, <1>3, <1>4, <1>5 DEF IInv

LEMMA InvNext == IInv /\ [Next]_vars => IInv'
BY TypeNext, ListFinds, ListNext, NoteNext, ExactNext, ViewsNext DEF IInv

\* The invariant holds in every state of VMManager.
THEOREM Invariance == Spec => []IInv
BY InvInit, InvNext, PTL DEF Spec

\* refreshVMList and its loops keep every variable in its type: in particular
\* updateVM never meets an empty pointer, and handlers read back real statuses.
THEOREM TypeCorrect == Spec => []TypeOK
<1>1. IInv => TypeOK
  BY DEF IInv
<1> QED
  BY <1>1, Invariance, PTL

\* FOREACH_EVENTHANDLER keeps every handler that no throwing handler precedes in
\* step with vmList, whatever requests fail and whenever the handler registered.
THEOREM HandlersAgree == Spec => []ViewsAgree
<1>1. IInv => ViewsAgree
  BY DEF IInv
<1> QED
  BY <1>1, Invariance, PTL

\* A refresh that returns true has made the statuses of vmList the middleware's,
\* if the middleware did not change while it ran.
THEOREM ExactRefresh == Spec => []SuccessfulRefreshIsExact
<1>1. IInv => SuccessfulRefreshIsExact
  BY DEF IInv, ExactInv, SuccessfulRefreshIsExact, Agrees, Statuses
<1> QED
  BY <1>1, Invariance, PTL

\* One refresh of a middleware at rest repairs the list, whatever it was before and
\* even if hooks throw under it: the change of vmList comes before the event.
THEOREM RestedRefresh == Spec => []RestedRefreshIsExact
<1>1. IInv => RestedRefreshIsExact
  BY DEF IInv, ExactInv, RestedRefreshIsExact, Agrees, Statuses
<1> QED
  BY <1>1, Invariance, PTL

\* updateVMs never creates an entry of vmList by looking one up.
THEOREM UpdatesSafe == Spec => []UpdatesFindTheirVM
<1>1. IInv => UpdatesFindTheirVM
  BY DEF IInv, ListInv, UpdatesFindTheirVM
<1> QED
  BY <1>1, Invariance, PTL

\* If no hook throws, refreshVMList returns false only because a request failed.
THEOREM CleanRefresh == ThrowingHandlers = {} => (Spec => []CleanRefreshSucceeds)
<1> SUFFICES ASSUME ThrowingHandlers = {} PROVE Spec => []CleanRefreshSucceeds
  OBVIOUS
<1>1. Init => CleanInv
  BY DEF Init, CleanInv
<1>2. IInv /\ CleanInv /\ [Next]_vars => CleanInv'
  BY CleanNext DEF IInv
<1>3. CleanInv => CleanRefreshSucceeds
  BY DEF CleanInv, CleanRefreshSucceeds
<1> QED
  BY <1>1, <1>2, <1>3, Invariance, PTL DEF Spec

\* If no hook throws, every handler has been told of every VM by the time
\* refreshVMList returns: only an exception keeps a new VM from being announced.
THEOREM NewVMsHeard == ThrowingHandlers = {} => (Spec => []NewVMsAnnounced)
<1> SUFFICES ASSUME ThrowingHandlers = {} PROVE Spec => []NewVMsAnnounced
  OBVIOUS
<1>1. IInv => NewVMsAnnounced
  <2> SUFFICES ASSUME IInv, phase = "idle", NEW h \in Range(handlers), NEW id \in Known
               PROVE  view[h][id] # Null
    BY DEF NewVMsAnnounced
  <2>1. PICK i \in DOMAIN handlers : h = handlers[i]
    BY DEF Range
  <2>2. Shielded(i) /\ note = Null
    BY DEF Shielded, IInv, NoteInv
  <2>3. view[h][id] = StatusOf(vmList[id])
    BY <2>1, <2>2 DEF IInv, ViewsAgree, Known
  <2>4. vmList[id] \in VM /\ vmList[id] # Null
    BY DEF IInv, TypeOK, Known
  <2> QED
    BY <2>3, <2>4, VMManagerAssumption DEF StatusOf, VM
<1> QED
  BY <1>1, Invariance, PTL

-----------------------------------------------------------------------------
(* What a step may never do.                                                 *)

LEMMA OnlyRemoveOldLeaves ==
    ASSUME TypeOK, UpdateFinds, [Next]_vars, ~ \E id \in VMIDs : RemoveOld(id)
    PROVE  Known \subseteq Known'
<1> USE DEF env, loop, delivery
<1>a. ASSUME UNCHANGED vmList PROVE Known \subseteq Known'
  BY <1>a DEF Known
<1>1. CASE AddNew
  <2>1. PICK i \in VMIDs : i = Head(pending)
    BY <1>1, TailElements DEF AddNew, TypeOK
  <2>2. CASE Retrieves(i) /\ addVM(i, cloud[i])
    <3>1. cloud[i] \in VM
      BY <2>2, VMTyped DEF Retrieves
    <3> QED
      BY <2>2, <3>1, AddEffect
  <2> QED
    BY <1>1, <1>a, <2>1, <2>2 DEF AddNew, RequestFails
<1>2. CASE UpdateKnown
  <2>1. PICK i \in VMIDs : i = Head(pending) /\ i \in Known
    BY <1>2, TailElements DEF UpdateKnown, TypeOK, UpdateFinds
  <2>2. CASE Retrieves(i) /\ updateVM(i, cloud[i])
    <3>1. cloud[i] \in VM
      BY <2>2, VMTyped DEF Retrieves
    <3> QED
      BY <2>1, <2>2, <3>1, UpdateEffect
  <2> QED
    BY <1>2, <1>a, <2>1, <2>2 DEF UpdateKnown, RequestFails
<1>3. CASE ~AddNew /\ ~UpdateKnown
  <2>1. UNCHANGED vmList
    BY <1>3
    DEF Next, refreshVMList, addNewVMs, updateVMs, removeVMs, NotifyHandlers, vars,
        CloudChange, Settle, RetrieveIDs, FailToRetrieveIDs, KeepKnown, StartUpdating,
        StartRemoving, Return, CallHandler, HandlerThrows, AllCalled,
        registerVMEventHandler
  <2> QED
    BY <1>a, <2>1
<1> QED
  BY <1>1, <1>2, <1>3

\* removeVMs drops only VMs that do not exist any more, whatever requests failed,
\* unless the middleware changed since refreshVMList asked for the list.
THEOREM RemovalsJustified == Spec => OnlyGoneVMsLeave
<1>1. IInv /\ [Next]_vars =>
        [\A id \in VMIDs :
            (steady /\ vmList[id] # Null /\ vmList'[id] = Null) => cloud[id] = Null]_vars
  <2> SUFFICES ASSUME IInv, [Next]_vars, NEW id \in VMIDs,
                      steady, vmList[id] # Null, vmList'[id] = Null
               PROVE  cloud[id] = Null
    OBVIOUS
  <2>1. id \in Known /\ id \notin Known'
    BY DEF Known
  <2>2. PICK i \in VMIDs : RemoveOld(i)
    BY <2>1, ListFinds, OnlyRemoveOldLeaves DEF IInv
  <2>3. id = i
    BY <2>1, <2>2, RemoveEffect DEF RemoveOld, IInv
  <2>4. id \notin Existing
    BY <2>2, <2>3 DEF RemoveOld, IInv, ListInv
  <2> QED
    BY <2>4 DEF Existing
<1> QED
  BY <1>1, Invariance, PTL DEF Spec, OnlyGoneVMsLeave

LEMMA RepairsStep ==
    IInv /\ [Next]_vars =>
        [\A id \in VMIDs :
            (steady /\ steady' /\ StatusOf(vmList[id]) = StatusOf(cloud[id])) =>
                StatusOf(vmList'[id]) = StatusOf(cloud'[id])]_vars
<1> SUFFICES ASSUME IInv, [Next]_vars, NEW id \in VMIDs, steady, steady', Agrees(id)
             PROVE  Agrees(id)'
  BY DEF Agrees, StatusOf
<1> USE DEF env, loop, delivery
<1>a. ASSUME UNCHANGED <<cloud, vmList>> PROVE Agrees(id)'
  BY <1>a DEF Agrees, StatusOf
<1>1. TypeOK /\ ListInv /\ UpdateFinds
  BY ListFinds DEF IInv
<1>2. CASE AddNew
  <2>1. PICK i \in VMIDs : i = Head(pending)
    BY <1>1, <1>2, TailElements DEF AddNew, TypeOK
  <2>2. CASE Retrieves(i) /\ addVM(i, cloud[i])
    <3>1. cloud[i] \in VM /\ cloud' = cloud
      BY <1>1, <1>2, <2>2, VMTyped DEF Retrieves, AddNew
    <3> QED
      BY <1>1, <2>2, <3>1, AddEffect DEF Agrees, StatusOf
  <2> QED
    BY <1>2, <1>a, <2>1, <2>2 DEF AddNew, RequestFails
<1>3. CASE UpdateKnown
  <2>1. PICK i \in VMIDs : i = Head(pending) /\ i \in Known
    BY <1>1, <1>3, TailElements DEF UpdateKnown, TypeOK, UpdateFinds
  <2>2. CASE Retrieves(i) /\ updateVM(i, cloud[i])
    <3>1. cloud[i] \in VM /\ cloud' = cloud
      BY <1>1, <1>3, <2>2, VMTyped DEF Retrieves, UpdateKnown
    <3>2. /\ StatusOf(vmList'[i]) = cloud[i].status
          /\ \A j \in VMIDs \ {i} : vmList'[j] = vmList[j]
      BY <1>1, <2>1, <2>2, <3>1, UpdateEffect
    <3>3. cloud[i].status = StatusOf(cloud'[i])
      BY <3>1, VMManagerAssumption DEF StatusOf
    <3>4. CASE id = i
      BY <3>2, <3>3, <3>4 DEF Agrees, StatusOf
    <3>5. CASE id # i
      BY <3>1, <3>2, <3>5 DEF Agrees, StatusOf
    <3> QED
      BY <3>4, <3>5
  <2> QED
    BY <1>3, <1>a, <2>1, <2>2 DEF UpdateKnown, RequestFails
<1>4. ASSUME NEW i \in VMIDs, RemoveOld(i) PROVE Agrees(id)'
  <2>1. i \in Known /\ i \notin Existing /\ cloud' = cloud
    BY <1>1, <1>4 DEF RemoveOld, ListInv
  <2>2. id # i
    <3>1. StatusOf(cloud[i]) = Null /\ StatusOf(vmList[i]) \in VMStatus
      BY <1>1, <2>1, KnownTyped DEF StatusOf, Known, Existing
    <3> QED
      BY <3>1, VMManagerAssumption DEF Agrees
  <2> QED
    BY <1>1, <1>4, <2>1, <2>2, RemoveEffect DEF RemoveOld, Agrees, StatusOf
<1>5. ASSUME NEW i \in VMIDs, CloudChange(i) PROVE Agrees(id)'
  BY <1>5 DEF CloudChange
<1>6. CASE ~AddNew /\ ~UpdateKnown /\ ~(\E i \in VMIDs : RemoveOld(i) \/ CloudChange(i))
  <2>1. UNCHANGED <<cloud, vmList>>
    BY <1>6
    DEF Next, refreshVMList, addNewVMs, updateVMs, removeVMs, NotifyHandlers, vars,
        Settle, RetrieveIDs, FailToRetrieveIDs, KeepKnown, StartUpdating,
        StartRemoving, Return, CallHandler, HandlerThrows, AllCalled,
        registerVMEventHandler
  <2> QED
    BY <1>a, <2>1
<1> QED
  BY <1>2, <1>3, <1>4, <1>5, <1>6

\* What a refresh adds, updates or removes differed from the middleware before, and
\* does not any more: no step spoils an entry that was right.
THEOREM RefreshOnlyRepairs == Spec => OnlyRepairs
BY RepairsStep, Invariance, PTL DEF Spec, OnlyRepairs

-----------------------------------------------------------------------------
(* A refresh ends.                                                           *)

\* FOREACH_EVENTHANDLER stays within the list, and one past it.
TurnInv == note # Null => next <= Len(handlers) + 1

LEMMA TurnNext == TypeOK /\ TurnInv /\ [Next]_vars => TurnInv'
<1> SUFFICES ASSUME TypeOK, TurnInv, [Next]_vars PROVE TurnInv'
  OBVIOUS
<1> USE DEF TurnInv, env, loop, delivery
<1>t. Len(handlers) \in Nat /\ next \in Nat \ {0}
  BY DEF TypeOK
<1>1. CASE CallHandler
  BY <1>t, <1>1 DEF CallHandler
<1>2. CASE HandlerThrows \/ AllCalled
  BY <1>2 DEF HandlerThrows, AllCalled, EndDelivery
<1>3. ASSUME NEW h \in Handlers, registerVMEventHandler(h) PROVE TurnInv'
  <2>1. Len(handlers') = Len(handlers) + 1
    BY <1>3, AppendProperties DEF registerVMEventHandler, TypeOK
  <2> QED BY <1>t, <1>3, <2>1 DEF registerVMEventHandler
<1>4. CASE AddNew \/ UpdateKnown \/ \E id \in VMIDs : RemoveOld(id)
  BY <1>t, <1>4 DEF AddNew, UpdateKnown, RemoveOld, RequestFails, addVM, updateVM, removeVM, Notify
<1>5. CASE \/ \E id \in VMIDs : CloudChange(id)
           \/ Settle \/ RetrieveIDs \/ FailToRetrieveIDs \/ KeepKnown \/ StartUpdating
           \/ StartRemoving \/ Return \/ UNCHANGED vars
  BY <1>5 DEF CloudChange, Settle, RetrieveIDs, FailToRetrieveIDs, KeepKnown, StartUpdating,
              StartRemoving, Return, vars
<1> QED
  BY <1>1, <1>2, <1>3, <1>4, <1>5
     DEF Next, refreshVMList, addNewVMs, updateVMs, removeVMs, NotifyHandlers

\* The order of LeftToDo, position by position.
LEMMA Descends ==
    ASSUME NEW a \in Nat, NEW b \in Nat, NEW c \in Nat, NEW d \in Nat,
           NEW e \in Nat, NEW f \in Nat, NEW g \in Nat, NEW h \in Nat,
           \/ a < e
           \/ a = e /\ b < f
           \/ a = e /\ b = f /\ c < g
           \/ a = e /\ b = f /\ c = g /\ d < h
    PROVE  Precedes(<<a, b, c, d>>, <<e, f, g, h>>)
<1> DEFINE s == <<a, b, c, d>>
           t == <<e, f, g, h>>
<1>1. s \in Seq(Nat) /\ DOMAIN s = 1..4
  OBVIOUS
<1>2. /\ s[1] = a /\ s[2] = b /\ s[3] = c /\ s[4] = d
      /\ t[1] = e /\ t[2] = f /\ t[3] = g /\ t[4] = h
  OBVIOUS
<1> HIDE DEF s, t
<1>3. \E i \in 1..4 : s[i] < t[i] /\ \A j \in 1..(i - 1) : s[j] = t[j]
  <2>1. CASE a < e
    BY <1>2, <2>1
  <2>2. CASE a = e /\ b < f
    <3>1. \A j \in 1..(2 - 1) : s[j] = t[j]
      BY <1>2, <2>2
    <3> QED BY <1>2, <2>2, <3>1
  <2>3. CASE a = e /\ b = f /\ c < g
    <3>1. \A j \in 1..(3 - 1) : s[j] = t[j]
      BY <1>2, <2>3
    <3> QED BY <1>2, <2>3, <3>1
  <2>4. CASE a = e /\ b = f /\ c = g /\ d < h
    <3>1. \A j \in 1..(4 - 1) : s[j] = t[j]
      BY <1>2, <2>4
    <3> QED BY <1>2, <2>4, <3>1
  <2> QED BY <2>1, <2>2, <2>3, <2>4
<1>4. Precedes(s, t)
  BY <1>1, <1>3 DEF Precedes
<1> QED BY <1>4 DEF s, t

\* What is left are numbers.
LEMMA LeftTyped ==
    ASSUME IsFiniteSet(Handlers), IsFiniteSet(VMIDs), TypeOK, TurnInv
    PROVE  Unregistered \in Nat /\ Loops[phase] \in Nat /\ Turns \in Nat /\ Calls \in Nat
<1>1. Unregistered \in Nat
  <2>1. IsFiniteSet(Handlers \ Range(handlers))
    BY FS_Subset
  <2> QED BY <2>1, FS_CardinalityType DEF Unregistered
<1>2. Loops[phase] \in Nat
  BY DEF TypeOK, Phases, Loops
<1>3. Turns \in Nat
  <2>1. IsFiniteSet(doomed)
    BY FS_Subset DEF TypeOK
  <2>2. Cardinality(doomed) \in Nat
    BY <2>1, FS_CardinalityType
  <2>3. Len(pending) \in Nat
    BY DEF TypeOK
  <2> QED BY <2>2, <2>3 DEF Turns
<1>4. Calls \in Nat
  BY DEF Calls, TypeOK, TurnInv
<1> QED BY <1>1, <1>2, <1>3, <1>4

\* Registering takes a handler from those that can.
LEMMA RegisterCounts ==
    ASSUME IsFiniteSet(Handlers), TypeOK, NEW h \in Handlers, registerVMEventHandler(h)
    PROVE  Unregistered' < Unregistered
<1> DEFINE S == Handlers \ Range(handlers)
<1>1. Range(handlers') = Range(handlers) \cup {h}
  BY AppendElements DEF registerVMEventHandler, TypeOK
<1>2. Handlers \ Range(handlers') = S \ {h} /\ h \in S
  BY <1>1 DEF registerVMEventHandler
<1>3. IsFiniteSet(S)
  BY FS_Subset
<1>4. Cardinality(S \ {h}) = Cardinality(S) - 1 /\ Cardinality(S) \in Nat
  BY <1>2, <1>3, FS_RemoveElement, FS_CardinalityType
<1>5. Unregistered' = Cardinality(S \ {h}) /\ Unregistered = Cardinality(S)
  BY <1>2 DEF Unregistered
<1> HIDE DEF S
<1> QED BY <1>4, <1>5

\* A step of a refresh that has begun leaves less to do, and a change of the middleware
\* leaves the same.
LEMMA StepAdvances ==
    ASSUME IsFiniteSet(Handlers), IsFiniteSet(VMIDs), TypeOK, TurnInv, phase # "idle", Next
    PROVE  IF UNCHANGED <<cloud, quiet>>
           THEN \/ Unregistered' < Unregistered
                \/ /\ Unregistered' = Unregistered
                   /\ Loops[phase]' < Loops[phase]
                \/ /\ Unregistered' = Unregistered /\ phase' = phase
                   /\ Turns' < Turns
                \/ /\ Unregistered' = Unregistered /\ phase' = phase /\ Turns' = Turns
                   /\ Calls' < Calls
           ELSE UNCHANGED <<Unregistered, phase, Turns, Calls>>
<1> USE DEF env, loop, delivery
<1>t. /\ Len(handlers) \in Nat /\ next \in Nat \ {0} /\ pending \in Seq(VMIDs)
      /\ Len(pending) \in Nat
  BY DEF TypeOK
<1>a. ASSUME UNCHANGED handlers PROVE Unregistered' = Unregistered
  BY <1>a DEF Unregistered
<1>1. ASSUME NEW id \in VMIDs, CloudChange(id) PROVE UNCHANGED <<Unregistered, phase, Turns, Calls>>
                                                    /\ cloud' # cloud
  <2>1. UNCHANGED <<handlers, phase, doomed, pending, note, next>>
    BY <1>1 DEF CloudChange
  <2>2. cloud' # cloud
    BY <1>1 DEF CloudChange, TypeOK
  <2> QED BY <2>1, <2>2 DEF Unregistered, Turns, Calls
<1>2. CASE Settle
  <2>1. UNCHANGED <<handlers, phase, doomed, pending, note, next>> /\ quiet' # quiet
    BY <1>2 DEF Settle
  <2> QED BY <2>1 DEF Unregistered, Turns, Calls
<1>3. ASSUME NEW h \in Handlers, registerVMEventHandler(h)
      PROVE  Unregistered' < Unregistered /\ UNCHANGED <<cloud, quiet>>
  BY <1>3, RegisterCounts DEF registerVMEventHandler
<1>4. CASE KeepKnown \/ AddNew \/ UpdateKnown
  <2>1. /\ UNCHANGED <<cloud, quiet, handlers, phase>>
        /\ phase \in {"add", "update"} /\ pending # << >> /\ pending' = Tail(pending)
    BY <1>4 DEF KeepKnown, AddNew, UpdateKnown
  <2>2. Len(Tail(pending)) < Len(pending)
    BY <1>t, <2>1
  <2> QED BY <1>a, <2>1, <2>2 DEF Turns
<1>5. CASE StartUpdating \/ StartRemoving \/ Return
  BY <1>5, <1>a DEF StartUpdating, StartRemoving, Return, Loops
<1>6. ASSUME NEW id \in VMIDs, RemoveOld(id)
      PROVE  UNCHANGED <<cloud, quiet, Unregistered, phase>> /\ Turns' < Turns
  <2>1. /\ UNCHANGED <<cloud, quiet, handlers, phase>>
        /\ phase = "remove" /\ id \in doomed /\ doomed' = doomed \ {id}
    BY <1>6 DEF RemoveOld
  <2>2. IsFiniteSet(doomed)
    BY FS_Subset DEF TypeOK
  <2>3. Cardinality(doomed \ {id}) = Cardinality(doomed) - 1 /\ Cardinality(doomed) \in Nat
    BY <2>1, <2>2, FS_RemoveElement, FS_CardinalityType
  <2> QED BY <1>a, <2>1, <2>3 DEF Turns
<1>7. CASE CallHandler
  <2>1. /\ UNCHANGED <<cloud, quiet, handlers, phase, pending, doomed, note>>
        /\ note # Null /\ next' = next + 1
    BY <1>7 DEF CallHandler
  <2> QED BY <1>a, <1>t, <2>1 DEF Turns, Calls
<1>8. CASE AllCalled
  <2>1. /\ UNCHANGED <<cloud, quiet, handlers, phase, pending, doomed>>
        /\ note # Null /\ note' = Null
    BY <1>8 DEF AllCalled, EndDelivery
  <2>2. Calls' = 0 /\ Calls > 0
    BY <1>t, <2>1 DEF Calls, TurnInv
  <2> QED BY <1>a, <2>1, <2>2 DEF Turns
<1>9. CASE HandlerThrows
  <2>1. UNCHANGED <<cloud, quiet, handlers, pending, doomed>> /\ note # Null
    BY <1>9 DEF HandlerThrows
  <2>2. CASE phase = "remove"
    BY <1>9, <1>a, <2>1, <2>2 DEF HandlerThrows, Loops
  <2>3. CASE phase # "remove"
    <3>1. phase' = phase /\ note' = Null
      BY <1>9, <2>3 DEF HandlerThrows, EndDelivery
    <3>2. Calls' = 0 /\ Calls > 0
      BY <1>t, <2>1, <3>1 DEF Calls, TurnInv
    <3> QED BY <1>a, <2>1, <3>1, <3>2 DEF Turns
  <2> QED BY <2>2, <2>3
<1>10. ~RetrieveIDs /\ ~FailToRetrieveIDs
  BY DEF RetrieveIDs, FailToRetrieveIDs
<1> QED
  BY <1>1, <1>2, <1>3, <1>4, <1>5, <1>6, <1>7, <1>8, <1>9, <1>10
     DEF Next, refreshVMList, addNewVMs, updateVMs, removeVMs, NotifyHandlers

\* With finitely many VMs and handlers every refresh ends, without any assumption on what
\* the middleware answers or the hooks throw and register.
THEOREM RefreshEnds ==
    IsFiniteSet(Handlers) /\ IsFiniteSet(VMIDs) => (Spec => RefreshAdvances)
<1> SUFFICES ASSUME IsFiniteSet(Handlers), IsFiniteSet(VMIDs) PROVE Spec => RefreshAdvances
  OBVIOUS
<1>1. Init => TurnInv
  BY DEF Init, TurnInv
<1>2. TypeOK /\ TurnInv => Unregistered \in Nat /\ Loops[phase] \in Nat /\ Turns \in Nat /\ Calls \in Nat
  BY LeftTyped
<1>3. (TypeOK /\ TurnInv => Unregistered \in Nat /\ Loops[phase] \in Nat /\ Turns \in Nat /\ Calls \in Nat)'
  BY <1>2, PTL
<1>4. TypeOK /\ TypeOK' /\ TurnInv /\ TurnInv' /\ [Next]_vars =>
        [phase # "idle" =>
            IF UNCHANGED <<cloud, quiet>> THEN Precedes(LeftToDo', LeftToDo)
            ELSE UNCHANGED LeftToDo]_vars
  <2> SUFFICES ASSUME TypeOK, TypeOK', TurnInv, TurnInv', Next, phase # "idle"
               PROVE  IF UNCHANGED <<cloud, quiet>> THEN Precedes(LeftToDo', LeftToDo)
                      ELSE UNCHANGED LeftToDo
    OBVIOUS
  <2>1. Unregistered \in Nat /\ Loops[phase] \in Nat /\ Turns \in Nat /\ Calls \in Nat
    BY LeftTyped
  <2>2. Unregistered' \in Nat /\ Loops[phase'] \in Nat /\ Turns' \in Nat /\ Calls' \in Nat
    BY <1>3
  <2>3. CASE UNCHANGED <<cloud, quiet>>
    <3>1. Precedes(<<Unregistered', Loops[phase'], Turns', Calls'>>,
                   <<Unregistered, Loops[phase], Turns, Calls>>)
      BY <2>1, <2>2, <2>3, StepAdvances, Descends
    <3> QED BY <2>3, <3>1 DEF LeftToDo
  <2>4. CASE ~UNCHANGED <<cloud, quiet>>
    <3>1. UNCHANGED <<Unregistered, phase, Turns, Calls>>
      BY <2>4, StepAdvances
    <3> QED BY <2>4, <3>1 DEF LeftToDo
  <2> QED BY <2>3, <2>4
<1>5. IInv => TypeOK
  BY DEF IInv
<1> QED BY <1>1, <1>4, <1>5, TurnNext, Invariance, PTL DEF Spec, RefreshAdvances

-----------------------------------------------------------------------------
(* Refinement: VMManager implements VMFeed.                                  *)

LEMMA FeedInit == Init => Feed!Init
<1> SUFFICES ASSUME Init PROVE Feed!Init
  OBVIOUS
<1>1. Statuses(vmList) = [id \in VMIDs |-> Null]
  BY DEF Init, Statuses, StatusOf
<1>2. Informed = {}
  BY DEF Init, Informed
<1>3. InformedViews = << >>
  BY <1>2 DEF InformedViews
<1> QED
  BY <1>1, <1>3 DEF Feed!Init

\* Between two events every informed handler knows exactly what vmList holds.
LEMMA InformedSynced ==
    ASSUME TypeOK, ViewsAgree, note = Null
    PROVE  Feed!Synced
<1>1. ASSUME NEW h \in Informed PROVE view[h] = Statuses(vmList)
  <2>1. PICK i \in DOMAIN handlers : Shielded(i) /\ h = handlers[i]
    BY DEF Informed
  <2>2. h \in Handlers
    BY <2>1 DEF TypeOK
  <2>3. \A id \in VMIDs : view[h][id] = StatusOf(vmList[id])
    BY <2>1 DEF ViewsAgree
  <2>4. view[h] \in [VMIDs -> VMStatus \cup {Null}]
    BY <2>2 DEF TypeOK
  <2> QED
    BY <2>3, <2>4 DEF Statuses
<1> QED
  BY <1>1 DEF Feed!Synced, InformedViews

LEMMA SameInformed ==
    ASSUME UNCHANGED <<handlers, view>>
    PROVE  Informed' = Informed /\ InformedViews' = InformedViews
<1>1. \A i \in DOMAIN handlers : Shielded(i)' = Shielded(i)
  BY DEF Shielded
<1>2. Informed' = Informed
  BY <1>1 DEF Informed
<1> QED
  BY <1>2 DEF InformedViews

LEMMA OneVMChanges ==
    ASSUME TypeOK, ViewsAgree, note = Null, NEW id \in VMIDs, NEW s \in VMStatus \cup {Null},
           \A i \in VMIDs \ {id} : vmList'[i] = vmList[i],
           StatusOf(vmList'[id]) = s, s # StatusOf(vmList[id]),
           UNCHANGED <<handlers, view>>
    PROVE  Feed!Next
<1>1. Statuses(vmList') = [Statuses(vmList) EXCEPT ![id] = s]
  BY DEF Statuses, StatusOf
<1>2. Statuses(vmList)[id] # s
  BY DEF Statuses
<1>3. InformedViews' = InformedViews
  BY SameInformed
<1>4. Feed!Change(id)
  BY <1>1, <1>2, <1>3, InformedSynced DEF Feed!Change
<1> QED
  BY <1>4 DEF Feed!Next

\* Calling a hook delivers the event, or changes nothing an informed handler sees.
LEMMA CallDelivers ==
    ASSUME TypeOK, NoteInv, ViewsAgree, CallHandler
    PROVE  Feed!Next \/ UNCHANGED Feed!vars
<1> DEFINE h == handlers[next]
<1>1. /\ note # Null /\ h \in Handlers /\ note.id \in VMIDs
      /\ note.learns = StatusOf(vmList[note.id])
  BY DEF CallHandler, TypeOK, NoteInv, Note
<1>2. UNCHANGED <<vmList, handlers>>
  BY DEF CallHandler
<1>3. view' = [view EXCEPT ![h] = [view[h] EXCEPT ![note.id] = note.learns]]
  BY DEF CallHandler
<1>4. \A g \in Handlers : g # h => view'[g] = view[g]
  BY <1>1, <1>3 DEF TypeOK
<1>5. Informed' = Informed /\ Informed \subseteq Handlers
  <2>1. \A i \in DOMAIN handlers : Shielded(i)' = Shielded(i)
    BY <1>2 DEF Shielded
  <2> QED
    BY <1>2, <2>1 DEF Informed, TypeOK
<1>6. Statuses(vmList)' = Statuses(vmList)
  BY <1>2 DEF Statuses, StatusOf
<1>7. CASE h \in Informed
  <2>1. PICK i \in DOMAIN handlers : Shielded(i) /\ handlers[i] = h
    BY <1>7 DEF Informed
  <2>2. view'[h] = Statuses(vmList)
    <3>1. view[h] \in [VMIDs -> VMStatus \cup {Null}]
      BY <1>1 DEF TypeOK
    <3>2. view'[h] = [view[h] EXCEPT ![note.id] = note.learns]
      BY <1>1, <1>3 DEF TypeOK
    <3>3. \A v \in VMIDs : v # note.id => view[h][v] = StatusOf(vmList[v])
      BY <2>1 DEF ViewsAgree
    <3> QED
      BY <1>1, <3>1, <3>2, <3>3 DEF Statuses
  <2>3. InformedViews' = [InformedViews EXCEPT ![h] = Statuses(vmList)]
    BY <1>4, <1>5, <1>7, <2>2 DEF InformedViews
  <2>4. CASE view[h] = Statuses(vmList)
    <3>1. InformedViews' = InformedViews
      BY <1>4, <1>5, <2>2, <2>4 DEF InformedViews
    <3> QED
      BY <1>6, <3>1 DEF Feed!vars
  <2>5. CASE view[h] # Statuses(vmList)
    <3>1. Feed!Deliver(h)
      BY <1>6, <1>7, <2>3, <2>5 DEF Feed!Deliver, InformedViews
    <3> QED
      BY <1>1, <3>1 DEF Feed!Next
  <2> QED
    BY <2>4, <2>5
<1>8. CASE h \notin Informed
  <2>1. InformedViews' = InformedViews
    BY <1>4, <1>5, <1>8 DEF InformedViews
  <2> QED
    BY <1>6, <2>1 DEF Feed!vars
<1> QED
  BY <1>7, <1>8

\* Registering behind throwing handlers changes nothing an informed handler sees.
LEMMA RegisterSubscribes ==
    ASSUME TypeOK, NEW h \in Handlers, registerVMEventHandler(h)
    PROVE  Feed!Next \/ UNCHANGED Feed!vars
<1>0. PICK n \in Nat : n = Len(handlers) + 1
  BY LenProperties DEF TypeOK
<1>1. /\ DOMAIN handlers = 1 .. Len(handlers) /\ Len(handlers) \in Nat
      /\ DOMAIN handlers' = 1 .. n
      /\ \A i \in 1 .. Len(handlers) : handlers'[i] = handlers[i]
      /\ handlers'[n] = h
  BY <1>0, AppendProperties, LenProperties DEF registerVMEventHandler, TypeOK
<1>2. /\ UNCHANGED vmList
      /\ view'[h] = Statuses(vmList)
      /\ \A g \in Handlers \ {h} : view'[g] = view[g]
  BY DEF registerVMEventHandler, TypeOK
<1>3. Statuses(vmList)' = Statuses(vmList)
  BY <1>2 DEF Statuses, StatusOf
<1>4. h \notin Informed /\ Informed \subseteq Handlers
  BY DEF registerVMEventHandler, Informed, Range, TypeOK
<1>5. ASSUME NEW i \in 1 .. Len(handlers) PROVE Shielded(i)' <=> Shielded(i)
  <2>1. \A j \in 1 .. i : handlers'[j] = handlers[j]
    BY <1>1
  <2> QED
    BY <2>1 DEF Shielded
<1>6. CASE \A j \in 1 .. n : handlers'[j] \notin ThrowingHandlers
  <2>1. Informed' = Informed \cup {h}
    <3>1. \A i \in 1 .. n : \A j \in 1 .. i : handlers'[j] \notin ThrowingHandlers
      BY <1>0, <1>1, <1>6
    <3>2. \A i \in 1 .. Len(handlers) : \A j \in 1 .. i : handlers[j] \notin ThrowingHandlers
      BY <1>0, <1>1, <1>6
    <3>3. Informed' = {handlers'[i] : i \in 1 .. n}
      BY <1>0, <1>1, <3>1 DEF Informed, Shielded
    <3>4. Informed = {handlers[i] : i \in 1 .. Len(handlers)}
      BY <1>0, <1>1, <3>2 DEF Informed, Shielded
    <3> QED
      BY <1>0, <1>1, <3>3, <3>4
  <2>2. InformedViews' = [g \in Informed \cup {h} |->
                             IF g = h THEN Statuses(vmList) ELSE InformedViews[g]]
    BY <1>2, <1>4, <2>1 DEF InformedViews
  <2>3. DOMAIN InformedViews = Informed
    BY DEF InformedViews
  <2>4. Feed!Subscribe(h)
    BY <1>3, <1>4, <2>2, <2>3 DEF Feed!Subscribe
  <2> QED
    BY <2>4 DEF Feed!Next
<1>7. CASE ~ \A j \in 1 .. n : handlers'[j] \notin ThrowingHandlers
  <2>1. ~Shielded(n)'
    BY <1>7, Zenon DEF Shielded
  <2>2. {j \in 1 .. n : Shielded(j)'} = {j \in 1 .. Len(handlers) : Shielded(j)}
    BY <1>0, <1>1, <1>5, <2>1
  <2>3. Informed' = Informed
    BY <1>1, <2>2 DEF Informed
  <2>4. InformedViews' = InformedViews
    BY <1>2, <1>4, <2>3 DEF InformedViews
  <2> QED
    BY <1>3, <2>4 DEF Feed!vars
<1> QED
  BY <1>6, <1>7

LEMMA FeedStep == IInv /\ [Next]_vars => Feed!Next \/ UNCHANGED Feed!vars
<1> SUFFICES ASSUME IInv, [Next]_vars PROVE Feed!Next \/ UNCHANGED Feed!vars
  OBVIOUS
<1> USE DEF IInv, env, loop, delivery
<1>a. ASSUME UNCHANGED <<vmList, handlers, view>> PROVE UNCHANGED Feed!vars
  <2>1. Statuses(vmList)' = Statuses(vmList)
    BY <1>a DEF Statuses, StatusOf
  <2> QED
    BY <1>a, <2>1, SameInformed DEF Feed!vars
<1>1. CASE AddNew
  <2>1. PICK i \in VMIDs : i = Head(pending)
    BY <1>1, TailElements DEF AddNew, TypeOK
  <2>2. CASE Retrieves(i) /\ addVM(i, cloud[i])
    <3>1. cloud[i] \in VM /\ cloud[i].status \in VMStatus
      BY <2>2, VMTyped DEF Retrieves
    <3>2. StatusOf(vmList[i]) = Null
      BY <1>1, <2>1 DEF AddNew, StatusOf
    <3>3. cloud[i].status # Null
      BY <3>1, VMManagerAssumption
    <3>4. note = Null /\ UNCHANGED <<handlers, view>>
      BY <1>1 DEF AddNew
    <3>5. /\ \A j \in VMIDs \ {i} : vmList'[j] = vmList[j]
          /\ StatusOf(vmList'[i]) = cloud[i].status
      BY <2>2, <3>1, AddEffect
    <3> QED
      BY <3>1, <3>2, <3>3, <3>4, <3>5, OneVMChanges
  <2> QED
    BY <1>1, <1>a, <2>1, <2>2 DEF AddNew, RequestFails
<1>2. CASE UpdateKnown
  <2>1. PICK i \in VMIDs : i = Head(pending) /\ i \in Known
    BY <1>2, TailElements DEF UpdateKnown, TypeOK, ListInv
  <2>2. CASE Retrieves(i) /\ vmList[i].status # cloud[i].status /\ updateVM(i, cloud[i])
    <3>1. cloud[i] \in VM /\ cloud[i].status \in VMStatus
      BY <2>2, VMTyped DEF Retrieves
    <3>2. StatusOf(vmList[i]) # cloud[i].status
      BY <2>1, <2>2 DEF Known, StatusOf
    <3>3. note = Null /\ UNCHANGED <<handlers, view>>
      BY <1>2 DEF UpdateKnown
    <3> QED
      BY <2>1, <2>2, <3>1, <3>2, <3>3, UpdateEffect, OneVMChanges
  <2> QED
    BY <1>2, <1>a, <2>1, <2>2 DEF UpdateKnown, RequestFails
<1>3. ASSUME NEW id \in VMIDs, RemoveOld(id) PROVE Feed!Next
  <2>1. id \in Known
    BY <1>3 DEF RemoveOld, ListInv
  <2>2. StatusOf(vmList[id]) # Null
    BY <2>1, KnownTyped, VMManagerAssumption DEF Known, StatusOf
  <2>3. removeVM(id) /\ note = Null /\ UNCHANGED <<handlers, view>>
    BY <1>3 DEF RemoveOld
  <2> QED
    BY <2>2, <2>3, RemoveEffect, OneVMChanges
<1>4. CASE CallHandler
  BY <1>4, CallDelivers
<1>5. ASSUME NEW h \in Handlers, registerVMEventHandler(h)
      PROVE  Feed!Next \/ UNCHANGED Feed!vars
  BY <1>5, RegisterSubscribes
<1>6. ASSUME NEW id \in VMIDs, CloudChange(id) PROVE UNCHANGED Feed!vars
  BY <1>6, <1>a DEF CloudChange
<1>7. CASE Settle \/ RetrieveIDs \/ FailToRetrieveIDs \/ KeepKnown \/ StartUpdating
           \/ StartRemoving \/ Return \/ HandlerThrows \/ AllCalled \/ UNCHANGED vars
  BY <1>7, <1>a
  DEF Settle, RetrieveIDs, FailToRetrieveIDs, KeepKnown, StartUpdating, StartRemoving,
      Return, HandlerThrows, AllCalled, vars
<1> QED
  BY <1>1, <1>2, <1>3, <1>4, <1>5, <1>6, <1>7
  DEF Next, refreshVMList, addNewVMs, updateVMs, removeVMs, NotifyHandlers

\* addVM, updateVM and removeVM with FOREACH_EVENTHANDLER implement VMFeed for the
\* handlers no throwing handler precedes: no event is lost, repeated or reordered.
THEOREM ImplementsFeed == Spec => FeedSpec
<1>1. IInv /\ [Next]_vars => [Feed!Next]_(Feed!vars)
  BY FeedStep
<1> QED
  BY <1>1, FeedInit, Invariance, PTL DEF Spec, FeedSpec, Feed!Spec
=============================================================================
