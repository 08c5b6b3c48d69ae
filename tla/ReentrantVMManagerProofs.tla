---------------------- MODULE ReentrantVMManagerProofs ----------------------
(***************************************************************************)
(* Theorems about ReentrantVMManager, for every nesting of refreshes: what   *)
(* a call leaves to do is done by the calls inside its hooks or is still to   *)
(* be done by itself, because all of them look at the same middleware.        *)
(***************************************************************************)
EXTENDS ReentrantVMManager, VMManagerProofs

FrameType ==
    [phase : {"add", "update", "remove"},
     vmIDs : Seq(VMIDs), pending : Seq(VMIDs), filtered : Seq(VMIDs), doomed : SUBSET VMIDs,
     note : Note, next : Nat \ {0}, succes : BOOLEAN, steady : BOOLEAN]

NestTypeOK ==
    /\ TypeOK
    /\ outer \in Seq(FrameType)
    /\ called \in BOOLEAN
    /\ empty \subseteq VMIDs

\* Hooks run, and a new list of known VMs is begun, only inside a call.
CallInv ==
    /\ note # Null => phase # "idle"
    /\ phase = "idle" => filtered = << >>

\* A change of the middleware is a change under every call inside.
SteadyInv ==
    \A i \in DOMAIN outer : outer[i].steady => steady /\ \A j \in i..Len(outer) : outer[j].steady

\* The lists of a call under which the middleware did not change.
Lists(call) ==
    /\ call.phase \in {"add", "update", "remove"} => Range(call.vmIDs) = Existing
    /\ call.phase = "add" => Range(call.filtered) \cup Range(call.pending) \subseteq Existing
    /\ call.phase = "update" => Range(call.pending) \subseteq Existing
    /\ call.phase = "remove" => call.doomed \cap Existing = {}

\* The work left to it, if it has not failed so far.
WorkLeft(call) ==
    call.succes =>
        /\ call.phase = "add" =>
               \A id \in Existing : id \in Range(call.filtered) \cup Range(call.pending) \/ Agrees(id)
        /\ call.phase = "update" => \A id \in Existing : id \in Range(call.pending) \/ Agrees(id)
        /\ call.phase = "remove" => \A id \in VMIDs : id \in call.doomed \/ Agrees(id)

WaitingInv == \A i \in DOMAIN outer : outer[i].steady => Lists(outer[i]) /\ WorkLeft(outer[i])

RunningInv == steady => Lists(Frame) /\ WorkLeft(Frame)

ReturnedInv ==
    /\ (phase = "idle" /\ ~called /\ succes /\ steady) => \A id \in VMIDs : Agrees(id)
    /\ phase = "idle" /\ (outer = << >> \/ (~called /\ succes)) => empty = {}

\* The VMs that the loops of a call will look up in vmList are there.
Meets(call) ==
    /\ call.phase = "add" => Range(call.filtered) \subseteq Known
    /\ call.phase = "update" => Range(call.pending) \subseteq Known

MeetsInv ==
    AllSteady => /\ empty = {}
                 /\ Meets(Frame)
                 /\ \A i \in DOMAIN outer : Meets(outer[i])

NestInv ==
    /\ NestTypeOK /\ CallInv /\ SteadyInv
    /\ WaitingInv /\ RunningInv /\ ReturnedInv /\ MeetsInv

-----------------------------------------------------------------------------
(* Type correctness, and the shape of the stack.                             *)

LEMMA FrameTyped ==
    ASSUME TypeOK, phase \in {"add", "update", "remove"}, note # Null
    PROVE  Frame \in FrameType
BY DEF TypeOK, Frame, FrameType

LEMMA OuterTyped ==
    ASSUME outer \in Seq(FrameType), NEW i \in DOMAIN outer
    PROVE  outer[i] \in FrameType /\ DOMAIN outer = 1..Len(outer) /\ Len(outer) \in Nat
OBVIOUS

LEMMA PushTyped ==
    ASSUME outer \in Seq(FrameType), NEW frame \in FrameType
    PROVE  /\ Append(outer, frame) \in Seq(FrameType)
           /\ Len(Append(outer, frame)) = Len(outer) + 1
           /\ \A i \in 1..Len(outer) : Append(outer, frame)[i] = outer[i]
           /\ Append(outer, frame)[Len(outer) + 1] = frame
BY AppendProperties

LEMMA CutTyped ==
    ASSUME outer \in Seq(FrameType), NEW n \in 0..Len(outer)
    PROVE  /\ SubSeq(outer, 1, n) \in Seq(FrameType)
           /\ Len(SubSeq(outer, 1, n)) = n
           /\ \A i \in 1..n : SubSeq(outer, 1, n)[i] = outer[i]
BY SubSeqProperties

LEMMA SpoiltTyped ==
    ASSUME outer \in Seq(FrameType),
           outer' = [i \in DOMAIN outer |-> [outer[i] EXCEPT !.steady = FALSE]]
    PROVE  /\ outer' \in Seq(FrameType)
           /\ DOMAIN outer' = DOMAIN outer
           /\ \A i \in DOMAIN outer : ~outer'[i].steady
<1>1. DOMAIN outer = 1..Len(outer) /\ Len(outer) \in Nat
  OBVIOUS
<1>2. ASSUME NEW i \in 1..Len(outer)
      PROVE  [outer[i] EXCEPT !.steady = FALSE] \in FrameType /\ ~outer'[i].steady
  <2>1. outer[i] \in FrameType
    OBVIOUS
  <2>2. outer'[i] = [outer[i] EXCEPT !.steady = FALSE]
    BY <1>1
  <2> QED BY <2>1, <2>2 DEF FrameType
<1> QED BY <1>1, <1>2

\* The steps of the module that are steps of VMManager.
LEMMA NestedSteps ==
    /\ (RetrieveIDs \/ FailToRetrieveIDs \/ addNewVMs \/ updateVMs \/ removeVMs \/ NotifyHandlers) => Next
BY DEF Next, refreshVMList

LEMMA NestTypeNext == NestTypeOK /\ CallInv /\ [ReentrantNext]_allVars => NestTypeOK'
<1> SUFFICES ASSUME NestTypeOK, CallInv, [ReentrantNext]_allVars PROVE NestTypeOK'
  OBVIOUS
<1>t. TypeOK /\ outer \in Seq(FrameType) /\ called \in BOOLEAN /\ empty \subseteq VMIDs
  BY DEF NestTypeOK
<1> USE DEF env, loop, delivery, nesting
<1>1. ASSUME (\E id \in VMIDs : CloudChange(id)) \/ Settle,
             outer' = [i \in DOMAIN outer |-> [outer[i] EXCEPT !.steady = FALSE]],
             UNCHANGED <<called, empty>>
      PROVE  NestTypeOK'
  <2>1. TypeOK'
    BY <1>t, <1>1 DEF TypeOK, CloudChange, Settle
  <2>2. outer' \in Seq(FrameType)
    BY <1>t, <1>1, SpoiltTyped
  <2> QED BY <1>t, <1>1, <2>1, <2>2 DEF NestTypeOK
<1>2. ASSUME NEW h \in Handlers, registerVMEventHandler(h), UNCHANGED nesting
      PROVE  NestTypeOK'
  <2>1. Statuses(vmList) \in [VMIDs -> VMStatus \cup {Null}]
    BY <1>t, KnownTyped DEF Statuses, StatusOf
  <2>2. Append(handlers, h) \in Seq(Handlers)
    BY <1>t, AppendElements DEF TypeOK
  <2>3. TypeOK'
    BY <1>t, <1>2, <2>1, <2>2 DEF registerVMEventHandler, TypeOK
  <2> QED BY <1>t, <1>2, <2>3 DEF NestTypeOK
<1>3. CASE HookRefreshes
  <2>1. phase \in {"add", "update", "remove"}
    BY <1>t, <1>3 DEF HookRefreshes, CallInv, TypeOK, Phases
  <2>2. outer' \in Seq(FrameType)
    BY <1>t, <1>3, <2>1, FrameTyped, PushTyped DEF HookRefreshes
  <2>3. TypeOK'
    BY <1>t, <1>3, EmptyElements DEF HookRefreshes, EndDelivery, TypeOK, Phases
  <2> QED BY <1>t, <1>3, <2>2, <2>3 DEF NestTypeOK, HookRefreshes
<1>4. CASE InnerReturns
  <2>1. Len(outer) \in DOMAIN outer
    BY <1>t, <1>4 DEF InnerReturns, Depth
  <2>2. Last(outer) = outer[Len(outer)] /\ outer[Len(outer)] \in FrameType
    BY <1>t, <2>1 DEF Last
  <2>3. outer' \in Seq(FrameType)
    BY <1>t, <1>4, <2>1, CutTyped DEF InnerReturns, Front
  <2>4. /\ phase' \in Phases /\ vmIDs' \in Seq(VMIDs) /\ pending' \in Seq(VMIDs)
        /\ filtered' \in Seq(VMIDs) /\ doomed' \in SUBSET VMIDs
        /\ note' \in Note \cup {Null} /\ next' \in Nat \ {0}
    BY <1>4, <2>2 DEF InnerReturns, Restore, ResumeLoop, FrameType, Phases
  <2>5. succes' \in BOOLEAN /\ steady' \in BOOLEAN
    BY <1>4, <2>2 DEF InnerReturns, FrameType
  <2>6. TypeOK'
    BY <1>t, <1>4, <2>4, <2>5 DEF InnerReturns, TypeOK
  <2> QED BY <1>t, <1>4, <2>3, <2>6 DEF NestTypeOK, InnerReturns
<1>5. CASE HookThrowsThrough
  <2>1. PICK i \in Catching :
            /\ phase' = outer[i].phase
            /\ Restore(outer[i])
            /\ steady' = outer[i].steady
            /\ outer' = SubSeq(outer, 1, i - 1)
    BY <1>5 DEF HookThrowsThrough
  <2>2. i \in DOMAIN outer /\ outer[i] \in FrameType /\ i - 1 \in 0..Len(outer)
    BY <1>t DEF Catching
  <2>3. outer' \in Seq(FrameType)
    BY <1>t, <2>1, <2>2, CutTyped
  <2>4. /\ phase' \in Phases /\ vmIDs' \in Seq(VMIDs) /\ pending' \in Seq(VMIDs)
        /\ filtered' \in Seq(VMIDs) /\ doomed' \in SUBSET VMIDs
    BY <2>1, <2>2 DEF Restore, ResumeLoop, FrameType, Phases
  <2>5. /\ note' \in Note \cup {Null} /\ next' \in Nat \ {0}
        /\ succes' \in BOOLEAN /\ steady' \in BOOLEAN
    <3>1. note' = Null /\ next' = 1
      BY <1>5 DEF HookThrowsThrough, EndDelivery
    <3>2. succes' \in BOOLEAN
      BY <1>5, Zenon DEF HookThrowsThrough
    <3>3. steady' \in BOOLEAN
      BY <2>1, <2>2 DEF FrameType
    <3> QED BY <3>1, <3>2, <3>3
  <2>6. UNCHANGED <<cloud, quiet, vmList, handlers, view, called, empty>>
    BY <1>5 DEF HookThrowsThrough
  <2>7. TypeOK'
    BY <1>t, <2>4, <2>5, <2>6 DEF TypeOK
  <2> QED BY <1>t, <2>3, <2>6, <2>7 DEF NestTypeOK
<1>6. CASE Begin
  <2>1. UpdateFinds
    BY <1>6 DEF Begin, RetrieveIDs, FailToRetrieveIDs, UpdateFinds
  <2> QED BY <1>t, <1>6, <2>1, NestedSteps, TypeNext DEF Begin, NestTypeOK
<1>7. CASE KeepEmpty
  <2>1. Head(pending) \in VMIDs /\ Tail(pending) \in Seq(VMIDs)
    BY <1>t, <1>7, TailElements DEF KeepEmpty, TypeOK
  <2>2. Append(filtered, Head(pending)) \in Seq(VMIDs)
    BY <1>t, <2>1, AppendElements DEF TypeOK
  <2> QED BY <1>t, <1>7, <2>1, <2>2 DEF KeepEmpty, NestTypeOK, TypeOK
<1>8. CASE AddNewVMs
  <2>1. UpdateFinds
    BY <1>8 DEF AddNewVMs, addNewVMs, KeepKnown, AddNew, StartUpdating, UpdateFinds
  <2> QED BY <1>t, <1>8, <2>1, NestedSteps, TypeNext DEF AddNewVMs, NestTypeOK
<1>9. CASE UpdateMissing
  <2>1. Head(pending) \in VMIDs /\ Tail(pending) \in Seq(VMIDs)
    BY <1>t, <1>9, TailElements DEF UpdateMissing, TypeOK
  <2>2. phase' \in Phases /\ succes' \in BOOLEAN
    BY <1>t, <1>9 DEF UpdateMissing, TypeOK, Phases
  <2> QED BY <1>t, <1>9, <2>1, <2>2 DEF UpdateMissing, NestTypeOK, TypeOK
<1>10. CASE UpdateVMs
  <2>1. UpdateFinds
    <3>1. pending # << >> => Head(pending) \in VMIDs
      BY <1>t, TailElements DEF TypeOK
    <3> QED BY <1>10, <3>1 DEF UpdateVMs, UpdateFinds, Known
  <2> QED BY <1>t, <1>10, <2>1, NestedSteps, TypeNext DEF UpdateVMs, NestTypeOK
<1>11. CASE RemoveReadsEmpty
  BY <1>t, <1>11 DEF RemoveReadsEmpty, NestTypeOK, TypeOK, Phases
<1>12. CASE RemoveVMs
  <2>1. UpdateFinds
    BY <1>12 DEF RemoveVMs, RemoveOld, Return, UpdateFinds
  <2>2. removeVMs
    BY <1>12 DEF RemoveVMs, removeVMs
  <2> QED BY <1>t, <1>12, <2>1, <2>2, NestedSteps, TypeNext DEF RemoveVMs, NestTypeOK
<1>13. CASE NotifyThem
  <2>1. UpdateFinds
    BY <1>13 DEF NotifyThem, CallHandler, AllCalled, HandlerThrows, UpdateFinds
  <2>2. NotifyHandlers
    BY <1>13 DEF NotifyThem, NotifyHandlers
  <2> QED BY <1>t, <1>13, <2>1, <2>2, NestedSteps, TypeNext DEF NotifyThem, NestTypeOK
<1>14. CASE UNCHANGED allVars
  BY <1>t, <1>14 DEF allVars, vars, NestTypeOK, TypeOK
<1> QED
  BY <1>1, <1>2, <1>3, <1>4, <1>5, <1>6, <1>7, <1>8, <1>9, <1>10, <1>11, <1>12, <1>13, <1>14
     DEF ReentrantNext, Environment

-----------------------------------------------------------------------------
(* The running call and the calls that wait.                                 *)

LEMMA FrameFields ==
    /\ Frame.phase = phase /\ Frame.vmIDs = vmIDs /\ Frame.pending = pending
    /\ Frame.filtered = filtered /\ Frame.doomed = doomed /\ Frame.succes = succes
    /\ Frame.steady = steady
BY DEF Frame

LEMMA FrameFieldsNext ==
    /\ Frame'.phase = phase' /\ Frame'.vmIDs = vmIDs' /\ Frame'.pending = pending'
    /\ Frame'.filtered = filtered' /\ Frame'.doomed = doomed' /\ Frame'.succes = succes'
    /\ Frame'.steady = steady'
BY DEF Frame

\* What a step may do to vmList under a call without spoiling its work.
Helpful ==
    /\ \A id \in VMIDs : vmList'[id] = vmList[id] \/ Agrees(id)'
    /\ Known \cap Existing \subseteq Known'

LEMMA CallKept ==
    ASSUME cloud' = cloud, Helpful, NEW call, Lists(call), WorkLeft(call)
    PROVE  Lists(call)' /\ WorkLeft(call)'
<1>1. Existing' = Existing /\ Existing \subseteq VMIDs
  BY DEF Existing
<1>2. \A id \in VMIDs : Agrees(id) => Agrees(id)'
  BY DEF Helpful, Agrees
<1>3. Lists(call)'
  BY <1>1 DEF Lists
<1>4. WorkLeft(call)'
  BY <1>1, <1>2 DEF WorkLeft
<1> QED BY <1>3, <1>4

LEMMA SameIsHelpful ==
    ASSUME UNCHANGED vmList
    PROVE  Helpful
BY DEF Helpful, Known

\* When the outermost call is steady, so are all.
LEMMA Outermost ==
    ASSUME NestInv, outer # << >>, outer[1].steady
    PROVE  AllSteady
<1>1. DOMAIN outer = 1..Len(outer) /\ Len(outer) \in Nat \ {0}
  BY DEF NestInv, NestTypeOK
<1> QED BY <1>1 DEF NestInv, SteadyInv, AllSteady

\* A step of the running call leaves the waiting ones as they should be.
LEMMA WaitingKept ==
    ASSUME NestInv, UNCHANGED <<cloud, outer>>, steady \in BOOLEAN,
           steady => steady', steady => Helpful
    PROVE  SteadyInv' /\ WaitingInv'
<1>1. SteadyInv'
  BY DEF NestInv, SteadyInv
<1>2. WaitingInv'
  <2> SUFFICES ASSUME NEW i \in DOMAIN outer, outer[i].steady
               PROVE  Lists(outer[i])' /\ WorkLeft(outer[i])'
    BY DEF WaitingInv
  <2>1. Helpful
    BY DEF NestInv, SteadyInv
  <2>2. Lists(outer[i]) /\ WorkLeft(outer[i])
    BY DEF NestInv, WaitingInv
  <2> QED BY <2>1, <2>2, CallKept
<1> QED BY <1>1, <1>2

\* A step of the running call does not take from vmList what the calls will look up.
LEMMA MeetsKept ==
    ASSUME NestInv, UNCHANGED <<cloud, outer>>, steady => Helpful,
           AllSteady' => empty' = {} /\ Meets(Frame)'
    PROVE  MeetsInv'
<1> SUFFICES ASSUME AllSteady', NEW i \in DOMAIN outer PROVE Meets(outer[i])'
  BY DEF MeetsInv
<1>1. DOMAIN outer = 1..Len(outer) /\ Len(outer) \in Nat /\ outer # << >>
  BY DEF NestInv, NestTypeOK
<1>2. outer[1].steady
  BY <1>1 DEF AllSteady
<1>3. AllSteady /\ steady
  BY <1>1, <1>2, Outermost DEF AllSteady
<1>4. Meets(outer[i]) /\ Lists(outer[i])
  BY <1>3 DEF NestInv, MeetsInv, WaitingInv, AllSteady
<1>5. Known \cap Existing \subseteq Known'
  BY <1>3 DEF Helpful
<1> QED BY <1>4, <1>5 DEF Meets, Lists

\* What a step of the running call has to show.
Steps ==
    /\ UNCHANGED <<cloud, outer>>
    /\ steady => steady' /\ Helpful
    /\ AllSteady' => empty' = {} /\ Meets(Frame)'
    /\ CallInv' /\ RunningInv' /\ ReturnedInv'

LEMMA StepKeeps ==
    ASSUME NestInv, [ReentrantNext]_allVars, Steps
    PROVE  NestInv'
<1>1. NestTypeOK'
  BY NestTypeNext DEF NestInv
<1>2. steady \in BOOLEAN
  BY DEF NestInv, NestTypeOK, TypeOK
<1>3. SteadyInv' /\ WaitingInv'
  BY <1>2, WaitingKept DEF Steps
<1>4. MeetsInv'
  BY MeetsKept DEF Steps
<1> QED BY <1>1, <1>3, <1>4 DEF NestInv, Steps

-----------------------------------------------------------------------------
(* One lemma per part of refreshVMList.                                      *)

\* A call begins: nothing of it is done, all of it listed.
LEMMA BeginSteps == NestInv /\ Begin => Steps
<1> SUFFICES ASSUME NestInv, Begin PROVE Steps
  OBVIOUS
<1>t. /\ TypeOK /\ outer \in Seq(FrameType) /\ phase = "idle" /\ filtered = << >>
      /\ note = Null
  BY DEF NestInv, NestTypeOK, CallInv, Begin, RetrieveIDs, FailToRetrieveIDs
<1>1. /\ UNCHANGED <<cloud, vmList, filtered, note, outer, empty>>
      /\ steady' /\ ~called'
  BY DEF Begin, RetrieveIDs, FailToRetrieveIDs, loop, delivery
<1>2. Existing' = Existing /\ Existing \subseteq VMIDs
  BY <1>1 DEF Existing
<1>3. Range(filtered') = {}
  BY <1>t, <1>1, EmptyElements
<1>4. AllSteady' => empty' = {}
  <2> SUFFICES ASSUME AllSteady' PROVE empty = {}
    BY <1>1
  <2>1. CASE outer = << >>
    BY <1>t, <2>1 DEF NestInv, ReturnedInv
  <2>2. CASE outer # << >>
    <3>1. outer[1].steady
      BY <1>t, <1>1, <2>2 DEF AllSteady
    <3> QED BY <2>2, <3>1, Outermost DEF NestInv, MeetsInv
  <2> QED BY <2>1, <2>2
<1>5. CASE RetrieveIDs
  <2>1. Range(vmIDs') = Existing /\ pending' = vmIDs' /\ phase' = "add"
    BY <1>5, ListingsTyped DEF RetrieveIDs
  <2>2. Meets(Frame)'
    BY <1>3, <2>1, FrameFieldsNext DEF Meets
  <2>3. Lists(Frame)' /\ WorkLeft(Frame)'
    BY <1>2, <1>3, <2>1, FrameFieldsNext DEF Lists, WorkLeft
  <2> QED
    BY <1>1, <1>4, <2>1, <2>2, <2>3, SameIsHelpful DEF Steps, CallInv, RunningInv, ReturnedInv
<1>6. CASE FailToRetrieveIDs
  <2>1. phase' = "idle" /\ ~succes'
    BY <1>t, <1>6 DEF FailToRetrieveIDs, loop
  <2>2. Meets(Frame)' /\ Lists(Frame)' /\ WorkLeft(Frame)'
    BY <2>1, FrameFieldsNext DEF Meets, Lists, WorkLeft
  <2>3. ReturnedInv'
    BY <1>t, <1>1, <2>1 DEF NestInv, ReturnedInv
  <2> QED
    BY <1>t, <1>1, <1>4, <2>1, <2>2, <2>3, SameIsHelpful DEF Steps, CallInv, RunningInv
<1> QED BY <1>5, <1>6 DEF Begin

\* addNewVMs: what it takes off the list is known, added, or the call has failed.
LEMMA AddSteps == NestInv /\ (AddNewVMs \/ KeepEmpty) => Steps
<1> SUFFICES ASSUME NestInv, AddNewVMs \/ KeepEmpty PROVE Steps
  OBVIOUS
<1>t. TypeOK
  BY DEF NestInv, NestTypeOK
<1>1. UNCHANGED <<cloud, steady, outer, empty>>
  BY DEF AddNewVMs, addNewVMs, KeepEmpty, KeepKnown, AddNew, StartUpdating, nesting, env
<1>2. phase = "add" /\ note = Null
  BY DEF AddNewVMs, addNewVMs, KeepEmpty, KeepKnown, AddNew, StartUpdating
<1>3. Existing' = Existing /\ Existing \subseteq VMIDs
  BY <1>1 DEF Existing
<1>4. AllSteady' => AllSteady
  BY <1>1 DEF AllSteady
<1>5. steady => Lists(Frame) /\ WorkLeft(Frame)
  BY DEF NestInv, RunningInv
<1>6. AllSteady => empty = {} /\ Meets(Frame)
  BY DEF NestInv, MeetsInv
<1>7. CASE StartUpdating
  <2>1. /\ UNCHANGED <<vmList, vmIDs, succes>>
        /\ phase' = "update" /\ pending' = filtered /\ note' = Null
    BY <1>2, <1>7 DEF StartUpdating, ToUpdate, delivery
  <2>2. Range(pending) = {}
    BY <1>7, EmptyElements DEF StartUpdating
  <2>3. Known' = Known /\ \A id \in VMIDs : Agrees(id)' = Agrees(id)
    BY <1>1, <2>1 DEF Known, Agrees
  <2>4. RunningInv'
    BY <1>1, <1>2, <1>3, <1>5, <2>1, <2>2, <2>3, FrameFields, FrameFieldsNext
       DEF RunningInv, Lists, WorkLeft
  <2>5. AllSteady' => Meets(Frame)'
    BY <1>2, <1>4, <1>6, <2>1, <2>3, FrameFields, FrameFieldsNext DEF Meets
  <2> QED
    BY <1>1, <1>4, <1>6, <2>1, <2>4, <2>5, SameIsHelpful DEF Steps, CallInv, ReturnedInv
<1>8. ASSUME ~StartUpdating
      PROVE  Steps
  <2>0. PICK id \in VMIDs : id = Head(pending)
    BY <1>8, <1>t, TailElements
       DEF AddNewVMs, addNewVMs, KeepEmpty, KeepKnown, AddNew, TypeOK
  <2>1. /\ id \in VMIDs /\ Range(pending) = Range(pending') \cup {id}
        /\ phase' = "add" /\ vmIDs' = vmIDs
    BY <1>2, <1>8, <1>t, <2>0, TailElements
       DEF AddNewVMs, addNewVMs, KeepEmpty, KeepKnown, AddNew, TypeOK
  <2>2. CASE KeepEmpty \/ KeepKnown
    <3>1. /\ UNCHANGED <<vmList, succes, note>> /\ filtered' = Append(filtered, id)
          /\ id \in empty \/ id \in Known
      BY <2>0, <2>1, <2>2 DEF KeepEmpty, KeepKnown, delivery, Known
    <3>2. Range(filtered') = Range(filtered) \cup {id}
      BY <1>t, <2>1, <3>1, AppendElements DEF TypeOK
    <3>3. Known' = Known /\ \A v \in VMIDs : Agrees(v)' = Agrees(v)
      BY <1>1, <3>1 DEF Known, Agrees
    <3>4. RunningInv'
      BY <1>1, <1>2, <1>3, <1>5, <2>1, <3>1, <3>2, <3>3, FrameFields, FrameFieldsNext
         DEF RunningInv, Lists, WorkLeft
    <3>5. AllSteady' => Meets(Frame)'
      BY <1>2, <1>4, <1>6, <2>1, <3>1, <3>2, <3>3, FrameFields, FrameFieldsNext DEF Meets
    <3> QED
      BY <1>1, <1>2, <1>4, <1>6, <2>1, <3>1, <3>4, <3>5, SameIsHelpful
         DEF Steps, CallInv, ReturnedInv
  <2>3. CASE AddNew
    <3>1. filtered' = filtered
      BY <2>3 DEF AddNew
    <3>2. /\ Known \subseteq Known'
          /\ \A v \in VMIDs \ {id} : vmList'[v] = vmList[v]
          /\ vmList'[id] = vmList[id] \/ Agrees(id)'
          /\ succes' => succes /\ Agrees(id)'
      <4>1. CASE Retrieves(id) /\ addVM(id, cloud[id]) /\ UNCHANGED succes
        <5>1. cloud[id] \in VM /\ cloud[id] # Null
          BY <1>t, <2>1, <4>1, VMTyped DEF Retrieves
        <5>2. /\ vmList'[id] = cloud[id] /\ Known \subseteq Known'
              /\ \A v \in VMIDs \ {id} : vmList'[v] = vmList[v]
          BY <1>t, <4>1, <5>1, AddEffect
        <5>3. Agrees(id)'
          BY <1>1, <5>2 DEF Agrees
        <5> QED BY <4>1, <5>2, <5>3
      <4>2. CASE RequestFails
        BY <4>2 DEF RequestFails, Known
      <4> QED BY <2>0, <2>3, <4>1, <4>2 DEF AddNew
    <3>3. Helpful
      BY <3>2 DEF Helpful
    <3>4. \A v \in VMIDs : Agrees(v) => Agrees(v)'
      BY <1>1, <3>2 DEF Agrees
    <3>5. RunningInv'
      <4>1. steady => Lists(Frame)'
        BY <1>2, <1>3, <1>5, <2>1, <3>1, FrameFields, FrameFieldsNext DEF Lists
      <4>2. steady => WorkLeft(Frame)'
        BY <1>2, <1>3, <1>5, <2>1, <3>1, <3>2, <3>4, FrameFields, FrameFieldsNext DEF WorkLeft
      <4> QED BY <1>1, <4>1, <4>2 DEF RunningInv
    <3>6. AllSteady' => Meets(Frame)'
      BY <1>2, <1>4, <1>6, <2>1, <3>1, <3>2, FrameFields, FrameFieldsNext DEF Meets
    <3> QED
      BY <1>1, <1>4, <1>6, <2>1, <3>3, <3>5, <3>6 DEF Steps, CallInv, ReturnedInv
  <2> QED BY <1>8, <2>2, <2>3 DEF AddNewVMs, addNewVMs
<1> QED BY <1>7, <1>8

\* updateVMs: the VMs it looks up are there, unless the middleware changed.
LEMMA UpdateSteps == NestInv /\ (UpdateVMs \/ UpdateMissing) => Steps
<1> SUFFICES ASSUME NestInv, UpdateVMs \/ UpdateMissing PROVE Steps
  OBVIOUS
<1>t. TypeOK
  BY DEF NestInv, NestTypeOK
<1>1. UNCHANGED <<cloud, steady, outer>>
  BY DEF UpdateVMs, updateVMs, UpdateMissing, UpdateKnown, StartRemoving, nesting, env
<1>2. phase = "update" /\ note = Null
  BY DEF UpdateVMs, updateVMs, UpdateMissing, UpdateKnown, StartRemoving
<1>3. Existing' = Existing /\ Existing \subseteq VMIDs
  BY <1>1 DEF Existing
<1>4. AllSteady' => AllSteady
  BY <1>1 DEF AllSteady
<1>5. steady => Lists(Frame) /\ WorkLeft(Frame)
  BY DEF NestInv, RunningInv
<1>6. AllSteady => empty = {} /\ Meets(Frame)
  BY DEF NestInv, MeetsInv
<1>7. CASE StartRemoving /\ UNCHANGED nesting
  <2>1. /\ UNCHANGED <<vmList, vmIDs, succes, empty>>
        /\ phase' = "remove" /\ doomed' = Known \ Range(vmIDs) /\ note' = Null
    BY <1>2, <1>7 DEF StartRemoving, ToRemove, delivery, nesting
  <2>2. Range(pending) = {}
    BY <1>7, EmptyElements DEF StartRemoving
  <2>3. \A id \in VMIDs : Agrees(id)' = Agrees(id)
    BY <1>1, <2>1 DEF Agrees
  <2>4. \A id \in VMIDs : id \in Existing \/ id \in Known \/ Agrees(id)
    BY DEF Existing, Known, Agrees
  <2>5. RunningInv'
    BY <1>1, <1>2, <1>3, <1>5, <2>1, <2>2, <2>3, <2>4, FrameFields, FrameFieldsNext
       DEF RunningInv, Lists, WorkLeft
  <2>6. Meets(Frame)'
    BY <2>1, FrameFieldsNext DEF Meets
  <2> QED
    BY <1>1, <1>4, <1>6, <2>1, <2>5, <2>6, SameIsHelpful DEF Steps, CallInv, ReturnedInv
<1>8. ASSUME UpdateMissing \/ (UpdateKnown /\ UpdateVMs)
      PROVE  Steps
  <2>1. PICK id \in VMIDs : id = Head(pending) /\ Range(pending) = Range(pending') \cup {id}
    BY <1>t, <1>8, TailElements DEF UpdateMissing, UpdateKnown, TypeOK
  <2>2. vmIDs' = vmIDs
    BY <1>8 DEF UpdateMissing, UpdateKnown
  <2>3. CASE UpdateMissing
    <3>1. ~AllSteady
      BY <1>2, <1>6, <2>1, <2>3, FrameFields DEF UpdateMissing, Meets, Known
    <3>2. /\ UNCHANGED <<vmList, note>>
          /\ phase' = "terminated" \/ (phase' = "update" /\ ~succes')
      BY <1>2, <2>3 DEF UpdateMissing, delivery
    <3>3. RunningInv'
      BY <1>1, <1>2, <1>3, <1>5, <2>1, <2>2, <3>2, FrameFields, FrameFieldsNext
         DEF RunningInv, Lists, WorkLeft
    <3> QED
      BY <1>1, <1>4, <3>1, <3>2, <3>3, SameIsHelpful DEF Steps, CallInv, ReturnedInv
  <2>4. CASE UpdateKnown /\ UpdateVMs
    <3>1. id \in Known /\ phase' = "update" /\ UNCHANGED empty
      BY <1>2, <2>1, <2>4 DEF UpdateVMs, UpdateKnown, Known, nesting
    <3>2. /\ Known' = Known
          /\ \A v \in VMIDs \ {id} : vmList'[v] = vmList[v]
          /\ vmList'[id] = vmList[id] \/ Agrees(id)'
          /\ succes' => succes /\ Agrees(id)'
      <4>1. CASE Retrieves(id) /\ updateVM(id, cloud[id]) /\ UNCHANGED succes
        <5>1. cloud[id] \in VM /\ cloud[id] # Null
          BY <1>t, <2>1, <4>1, VMTyped DEF Retrieves
        <5>2. /\ \A v \in VMIDs \ {id} : vmList'[v] = vmList[v]
              /\ Known' = Known
              /\ StatusOf(vmList'[id]) = cloud[id].status
          BY <1>t, <3>1, <4>1, <5>1, UpdateEffect
        <5>3. Agrees(id)'
          BY <1>1, <5>1, <5>2 DEF Agrees, StatusOf
        <5> QED BY <4>1, <5>2, <5>3
      <4>2. CASE Retrieves(id) /\ vmList[id].status = cloud[id].status
                 /\ UNCHANGED <<vmList, delivery, succes>>
        <5>1. Agrees(id)'
          BY <1>1, <3>1, <4>2 DEF Retrieves, Agrees, StatusOf, Known
        <5> QED BY <4>2, <5>1 DEF Known
      <4>3. CASE RequestFails
        BY <4>3 DEF RequestFails, Known
      <4> QED BY <2>1, <2>4, <4>1, <4>2, <4>3 DEF UpdateKnown
    <3>3. Helpful
      BY <3>2 DEF Helpful
    <3>4. \A v \in VMIDs : Agrees(v) => Agrees(v)'
      BY <1>1, <3>2 DEF Agrees
    <3>5. RunningInv'
      BY <1>1, <1>2, <1>3, <1>5, <2>1, <2>2, <3>1, <3>2, <3>4, FrameFields, FrameFieldsNext
         DEF RunningInv, Lists, WorkLeft
    <3>6. AllSteady' => Meets(Frame)'
      BY <1>2, <1>4, <1>6, <2>1, <3>1, <3>2, FrameFields, FrameFieldsNext DEF Meets
    <3> QED
      BY <1>1, <1>4, <1>6, <3>1, <3>3, <3>5, <3>6 DEF Steps, CallInv, ReturnedInv
  <2> QED BY <1>8, <2>3, <2>4
<1> QED BY <1>7, <1>8 DEF UpdateVMs, updateVMs

\* removeVMs: the VMs it drops are gone, unless the middleware changed.
LEMMA RemoveSteps == NestInv /\ (RemoveVMs \/ RemoveReadsEmpty) => Steps
<1> SUFFICES ASSUME NestInv, RemoveVMs \/ RemoveReadsEmpty PROVE Steps
  OBVIOUS
<1>t. TypeOK
  BY DEF NestInv, NestTypeOK
<1>1. UNCHANGED <<cloud, steady, outer, empty>>
  BY DEF RemoveVMs, RemoveReadsEmpty, RemoveOld, Return, nesting, env
<1>2. phase = "remove" /\ note = Null
  BY DEF RemoveVMs, RemoveReadsEmpty, RemoveOld, Return
<1>3. Existing' = Existing /\ Existing \subseteq VMIDs
  BY <1>1 DEF Existing
<1>4. AllSteady' => AllSteady
  BY <1>1 DEF AllSteady
<1>5. steady => Lists(Frame) /\ WorkLeft(Frame)
  BY DEF NestInv, RunningInv
<1>6. AllSteady => empty = {}
  BY DEF NestInv, MeetsInv
<1>7. ASSUME NEW id \in VMIDs, RemoveOld(id) PROVE Steps
  <2>1. /\ UNCHANGED <<vmIDs, succes>> /\ phase' = "remove" /\ doomed' = doomed \ {id}
        /\ id \in doomed /\ removeVM(id)
    BY <1>2, <1>7 DEF RemoveOld
  <2>2. /\ \A v \in VMIDs \ {id} : vmList'[v] = vmList[v]
        /\ Known' = Known \ {id} /\ vmList'[id] = Null
    BY <1>t, <2>1, RemoveEffect
  <2>3. steady => id \notin Existing
    BY <1>2, <1>5, <2>1, FrameFields DEF Lists
  <2>4. steady => Agrees(id)'
    BY <1>1, <2>2, <2>3 DEF Agrees, Existing
  <2>5. steady => Helpful
    BY <2>2, <2>3, <2>4 DEF Helpful
  <2>6. \A v \in VMIDs : v # id /\ Agrees(v) => Agrees(v)'
    BY <1>1, <2>2 DEF Agrees
  <2>7. RunningInv'
    BY <1>1, <1>2, <1>3, <1>5, <2>1, <2>4, <2>6, FrameFields, FrameFieldsNext
       DEF RunningInv, Lists, WorkLeft
  <2>8. Meets(Frame)'
    BY <2>1, FrameFieldsNext DEF Meets
  <2> QED
    BY <1>1, <1>4, <1>6, <2>1, <2>5, <2>7, <2>8 DEF Steps, CallInv, ReturnedInv
<1>8. CASE (Return /\ empty = {}) \/ RemoveReadsEmpty
  <2>1. /\ UNCHANGED <<vmList, note, succes>>
        /\ \/ phase' = "terminated"
           \/ phase' = "idle" /\ doomed = {} /\ filtered' = << >> /\ empty = {}
    BY <1>8 DEF Return, RemoveReadsEmpty, delivery
  <2>2. \A id \in VMIDs : Agrees(id)' = Agrees(id)
    BY <1>1, <2>1 DEF Agrees
  <2>3. Meets(Frame)' /\ Lists(Frame)' /\ WorkLeft(Frame)'
    BY <2>1, FrameFieldsNext DEF Meets, Lists, WorkLeft
  <2>4. ReturnedInv'
    BY <1>1, <1>2, <1>5, <2>1, <2>2, FrameFields DEF ReturnedInv, WorkLeft
  <2> QED
    BY <1>1, <1>2, <1>4, <1>6, <2>1, <2>3, <2>4, SameIsHelpful DEF Steps, CallInv, RunningInv
<1> QED BY <1>7, <1>8 DEF RemoveVMs

\* Calling the hooks does not touch what the calls work on.
LEMMA NotifySteps ==
    ASSUME NestInv, NotifyThem \/ ((\E h \in Handlers : registerVMEventHandler(h)) /\ UNCHANGED nesting)
                    \/ UNCHANGED allVars
    PROVE  Steps
<1>1. /\ UNCHANGED <<cloud, steady, outer, called, empty, vmList, vmIDs, pending, filtered, doomed>>
      /\ \/ UNCHANGED <<phase, note, succes>>
         \/ note # Null /\ note' = Null /\ UNCHANGED <<phase, succes>>
         \/ note # Null /\ UNCHANGED <<phase, note, succes>>
         \/ note # Null /\ note' = Null /\ phase' = phase /\ ~succes'
         \/ note # Null /\ phase' = "terminated"
  BY DEF NotifyThem, CallHandler, AllCalled, HandlerThrows, EndDelivery, registerVMEventHandler,
         nesting, env, loop, delivery, allVars, vars
<1>2. Existing' = Existing /\ Known' = Known /\ \A id \in VMIDs : Agrees(id)' = Agrees(id)
  BY <1>1 DEF Existing, Known, Agrees
<1>3. AllSteady' => AllSteady
  BY <1>1 DEF AllSteady
<1>4. RunningInv'
  BY <1>1, <1>2, FrameFields, FrameFieldsNext DEF NestInv, RunningInv, Lists, WorkLeft, Existing
<1>5. AllSteady' => empty' = {} /\ Meets(Frame)'
  BY <1>1, <1>2, <1>3, FrameFields, FrameFieldsNext DEF NestInv, MeetsInv, Meets
<1>6. CallInv' /\ ReturnedInv'
  BY <1>1, <1>2 DEF NestInv, CallInv, ReturnedInv
<1> QED BY <1>1, <1>4, <1>5, <1>6, SameIsHelpful DEF Steps

-----------------------------------------------------------------------------
(* The steps that change the stack of calls.                                 *)

\* After a change of the middleware no call is steady, and nothing is promised.
LEMMA ChangeKeeps ==
    ASSUME NestInv, [ReentrantNext]_allVars,
           (\E id \in VMIDs : CloudChange(id)) \/ Settle,
           outer' = [i \in DOMAIN outer |-> [outer[i] EXCEPT !.steady = FALSE]],
           UNCHANGED <<called, empty>>
    PROVE  NestInv'
<1>1. NestTypeOK'
  BY NestTypeNext DEF NestInv
<1>2. /\ DOMAIN outer' = DOMAIN outer
      /\ \A i \in DOMAIN outer : ~outer'[i].steady
  BY SpoiltTyped DEF NestInv, NestTypeOK
<1>3. ~steady' /\ UNCHANGED <<note, phase, filtered, succes>>
  BY DEF CloudChange, Settle, loop, delivery
<1>4. outer' = << >> => outer = << >>
  BY <1>1, <1>2 DEF NestInv, NestTypeOK
<1>5. SteadyInv' /\ WaitingInv'
  BY <1>2 DEF SteadyInv, WaitingInv
<1>6. RunningInv' /\ MeetsInv'
  BY <1>3 DEF RunningInv, MeetsInv, AllSteady
<1>7. CallInv' /\ ReturnedInv'
  BY <1>3, <1>4 DEF NestInv, CallInv, ReturnedInv
<1> QED BY <1>1, <1>5, <1>6, <1>7 DEF NestInv

\* The call whose hook refreshes waits as it ran.
LEMMA PushKeeps ==
    ASSUME NestInv, [ReentrantNext]_allVars, HookRefreshes
    PROVE  NestInv'
<1>1. NestTypeOK'
  BY NestTypeNext DEF NestInv
<1>t. TypeOK /\ outer \in Seq(FrameType) /\ steady \in BOOLEAN
  BY DEF NestInv, NestTypeOK, TypeOK
<1>2. PICK n \in Nat : n = Len(outer)
  BY <1>t
<1>3. /\ Frame \in FrameType /\ Frame.steady = steady
      /\ UNCHANGED <<cloud, steady, vmList, empty>>
      /\ phase' = "idle" /\ called' /\ note' = Null /\ filtered' = << >>
  <2>1. phase \in {"add", "update", "remove"}
    BY <1>t DEF HookRefreshes, NestInv, CallInv, TypeOK, Phases
  <2>2. Frame \in FrameType
    BY <1>t, <2>1, FrameTyped DEF HookRefreshes
  <2> QED BY <2>2, FrameFields DEF HookRefreshes, EndDelivery, env
<1>4. /\ Len(outer') = n + 1 /\ DOMAIN outer' = 1..(n + 1)
      /\ DOMAIN outer = 1..n
      /\ \A i \in 1..n : outer'[i] = outer[i]
      /\ outer'[n + 1] = Frame
  BY <1>1, <1>2, <1>3, <1>t, PushTyped DEF HookRefreshes, NestTypeOK
<1>5. SteadyInv'
  <2> SUFFICES ASSUME NEW i \in 1..(n + 1), outer'[i].steady
               PROVE  steady' /\ \A j \in i..(n + 1) : outer'[j].steady
    BY <1>4 DEF SteadyInv
  <2>1. CASE i \in 1..n
    <3>1. steady /\ \A j \in i..n : outer[j].steady
      BY <1>2, <1>4, <2>1 DEF NestInv, SteadyInv
    <3>2. ASSUME NEW j \in i..(n + 1) PROVE outer'[j].steady
      <4>1. j \in i..n \/ j = n + 1
        OBVIOUS
      <4>2. i..n \subseteq 1..n
        OBVIOUS
      <4> QED BY <1>3, <1>4, <3>1, <4>1, <4>2
    <3> QED BY <1>3, <3>1, <3>2
  <2>2. CASE i = n + 1
    BY <1>3, <1>4, <2>2
  <2> QED BY <2>1, <2>2
<1>6. WaitingInv'
  <2> SUFFICES ASSUME NEW i \in 1..(n + 1), outer'[i].steady
               PROVE  Lists(outer[i])' /\ WorkLeft(outer[i])'
    BY <1>4 DEF WaitingInv
  <2>1. PICK call \in FrameType : call = outer'[i]
    BY <1>1, <1>4 DEF NestTypeOK
  <2>2. Lists(call) /\ WorkLeft(call)
    <3>1. CASE i \in 1..n
      BY <1>4, <2>1, <3>1 DEF NestInv, WaitingInv
    <3>2. CASE i = n + 1
      BY <1>3, <1>4, <2>1, <3>2 DEF NestInv, RunningInv
    <3> QED BY <3>1, <3>2
  <2>3. Lists(call)' /\ WorkLeft(call)'
    BY <1>3, <2>2, SameIsHelpful, CallKept
  <2> QED BY <2>1, <2>3
<1>7. RunningInv' /\ ReturnedInv' /\ CallInv' /\ Meets(Frame)'
  <2>1. outer' # << >>
    BY <1>4
  <2> QED
    BY <1>3, <2>1, FrameFieldsNext DEF RunningInv, Lists, WorkLeft, ReturnedInv, CallInv, Meets
<1>8. MeetsInv'
  <2> SUFFICES ASSUME AllSteady'
               PROVE  empty = {} /\ \A i \in 1..(n + 1) : Meets(outer[i])'
    BY <1>3, <1>4, <1>7 DEF MeetsInv
  <2>1. AllSteady
    BY <1>3, <1>4 DEF AllSteady
  <2>2. Known' = Known
    BY <1>3 DEF Known
  <2>3. ASSUME NEW i \in 1..(n + 1) PROVE Meets(outer[i])'
    <3>1. Meets(outer'[i])
      BY <1>4, <2>1 DEF NestInv, MeetsInv
    <3> QED BY <2>2, <3>1 DEF Meets
  <2> QED BY <2>1, <2>3 DEF NestInv, MeetsInv
<1> QED BY <1>1, <1>5, <1>6, <1>7, <1>8 DEF NestInv

\* A call that goes on, after the calls inside it, finds what it left.
LEMMA ResumeKeeps ==
    ASSUME NestInv, [ReentrantNext]_allVars, NEW k \in DOMAIN outer,
           UNCHANGED <<cloud, vmList, empty>>,
           phase' = outer[k].phase, Restore(outer[k]), steady' = outer[k].steady,
           outer' = SubSeq(outer, 1, k - 1), succes' => outer[k].succes
    PROVE  NestInv'
<1>1. NestTypeOK'
  BY NestTypeNext DEF NestInv
<1>2. /\ outer \in Seq(FrameType) /\ DOMAIN outer = 1..Len(outer) /\ Len(outer) \in Nat
      /\ k \in 1..Len(outer) /\ k - 1 \in 0..Len(outer)
      /\ outer[k] \in FrameType
  BY DEF NestInv, NestTypeOK
<1>3. /\ Len(outer') = k - 1 /\ DOMAIN outer' = 1..(k - 1)
      /\ \A i \in 1..(k - 1) : outer'[i] = outer[i]
  <2>1. /\ Len(outer') = k - 1
        /\ \A i \in 1..(k - 1) : outer'[i] = outer[i]
    BY <1>2, CutTyped
  <2> QED BY <1>1, <2>1 DEF NestTypeOK
<1>4. phase' \in {"add", "update", "remove"}
  BY <1>2 DEF FrameType
<1>5. SteadyInv'
  <2> SUFFICES ASSUME NEW i \in 1..(k - 1), outer'[i].steady
               PROVE  steady' /\ \A j \in i..(k - 1) : outer'[j].steady
    BY <1>3 DEF SteadyInv
  <2>1. \A j \in i..Len(outer) : outer[j].steady
    BY <1>2, <1>3 DEF NestInv, SteadyInv
  <2> QED BY <1>2, <1>3, <2>1
<1>6. WaitingInv'
  <2> SUFFICES ASSUME NEW i \in 1..(k - 1), outer'[i].steady
               PROVE  Lists(outer[i])' /\ WorkLeft(outer[i])'
    BY <1>3 DEF WaitingInv
  <2>1. PICK call \in FrameType : call = outer[i] /\ call = outer'[i]
    BY <1>2, <1>3
  <2>2. Lists(call) /\ WorkLeft(call)
    BY <1>2, <1>3, <2>1 DEF NestInv, WaitingInv
  <2>3. Lists(call)' /\ WorkLeft(call)'
    BY <2>2, SameIsHelpful, CallKept
  <2> QED BY <2>1, <2>3
<1>7. RunningInv'
  <2> SUFFICES ASSUME outer[k].steady PROVE Lists(Frame)' /\ WorkLeft(Frame)'
    BY DEF RunningInv
  <2>1. PICK call \in FrameType : call = outer[k]
    BY <1>2
  <2>2. Lists(call)' /\ WorkLeft(call)'
    BY <1>2, <2>1, SameIsHelpful, CallKept DEF NestInv, WaitingInv
  <2> QED BY <2>1, <2>2, FrameFieldsNext DEF Restore, ResumeLoop, Lists, WorkLeft
<1>8. CallInv' /\ ReturnedInv'
  BY <1>4 DEF CallInv, ReturnedInv
<1>9. MeetsInv'
  <2> SUFFICES ASSUME AllSteady'
               PROVE  empty = {} /\ Meets(Frame)' /\ \A i \in 1..(k - 1) : Meets(outer[i])'
    BY <1>3 DEF MeetsInv
  <2>1. outer[1].steady
    <3>1. CASE k = 1
      BY <3>1 DEF AllSteady
    <3>2. CASE k # 1
      <4>1. 1 \in 1..(k - 1)
        BY <1>2, <3>2
      <4> QED BY <1>3, <4>1 DEF AllSteady
    <3> QED BY <3>1, <3>2
  <2>2. empty = {} /\ \A i \in DOMAIN outer : Meets(outer[i])
    BY <1>2, <2>1, Outermost DEF NestInv, MeetsInv
  <2>3. Known' = Known
    BY DEF Known
  <2>4. Meets(Frame)'
    BY <1>2, <2>2, <2>3, FrameFieldsNext DEF Restore, ResumeLoop, Meets
  <2>5. ASSUME NEW i \in 1..(k - 1) PROVE Meets(outer[i])'
    BY <1>2, <1>3, <2>2, <2>3 DEF Meets
  <2> QED BY <2>2, <2>4, <2>5
<1> QED BY <1>1, <1>5, <1>6, <1>7, <1>8, <1>9 DEF NestInv

-----------------------------------------------------------------------------
(* The theorems.                                                             *)

LEMMA NestInit == ReentrantInit => NestInv
<1> SUFFICES ASSUME ReentrantInit PROVE NestInv
  OBVIOUS
<1>1. TypeOK
  BY TypeInit DEF ReentrantInit
<1>2. outer = << >> /\ ~called /\ empty = {} /\ phase = "idle" /\ ~succes /\ ~steady
      /\ filtered = << >> /\ note = Null
  BY DEF ReentrantInit, Init
<1>3. NestTypeOK
  BY <1>1, <1>2, EmptyElements DEF NestTypeOK, ReentrantInit
<1> QED
  BY <1>2, <1>3 DEF NestInv, CallInv, SteadyInv, WaitingInv, RunningInv, ReturnedInv, MeetsInv,
                    AllSteady

LEMMA NestNext == NestInv /\ [ReentrantNext]_allVars => NestInv'
<1> SUFFICES ASSUME NestInv, [ReentrantNext]_allVars PROVE NestInv'
  OBVIOUS
<1>1. CASE Begin \/ KeepEmpty \/ AddNewVMs \/ UpdateMissing \/ UpdateVMs \/ RemoveReadsEmpty
           \/ RemoveVMs
  BY <1>1, BeginSteps, AddSteps, UpdateSteps, RemoveSteps, StepKeeps
<1>2. CASE NotifyThem \/ UNCHANGED allVars
  BY <1>2, NotifySteps, StepKeeps
<1>3. CASE Environment
  BY <1>3, ChangeKeeps, NotifySteps, StepKeeps DEF Environment
<1>4. CASE HookRefreshes
  BY <1>4, PushKeeps
<1>5. CASE InnerReturns
  <2>1. /\ Len(outer) \in DOMAIN outer /\ Last(outer) = outer[Len(outer)]
        /\ Front(outer) = SubSeq(outer, 1, Len(outer) - 1)
    BY <1>5 DEF InnerReturns, Depth, NestInv, NestTypeOK, Last, Front
  <2> QED BY <1>5, <2>1, ResumeKeeps DEF InnerReturns
<1>6. CASE HookThrowsThrough
  <2>1. PICK k \in Catching :
            /\ phase' = outer[k].phase
            /\ Restore(outer[k])
            /\ steady' = outer[k].steady
            /\ outer' = SubSeq(outer, 1, k - 1)
    BY <1>6 DEF HookThrowsThrough
  <2>2. UNCHANGED <<cloud, vmList, empty>> /\ ~succes' /\ k \in DOMAIN outer
    BY <1>6 DEF HookThrowsThrough, Catching
  <2> QED BY <2>1, <2>2, ResumeKeeps
<1> QED BY <1>1, <1>2, <1>3, <1>4, <1>5, <1>6 DEF ReentrantNext

LEMMA NestInvariance == ReentrantSpec => []NestInv
BY NestInit, NestNext, PTL DEF ReentrantSpec

\* Whatever hooks refresh and however deep, a call that returns true has made the list
\* exact, and has left no empty entry, if the middleware did not change under it.
THEOREM EveryCallIsExact == ReentrantSpec => []EveryCallExact
<1>1. NestInv => EveryCallExact
  BY DEF NestInv, ReturnedInv, EveryCallExact, Statuses, Agrees
<1> QED BY <1>1, NestInvariance, PTL

\* vmList[*it] in updateVMs and a refresh inside a hook leave an empty pointer in vmList
\* only if the middleware changed while the outermost call was waiting or running.
THEOREM SteadyEntriesHoldVMs == ReentrantSpec => []EntriesHoldVMsIfSteady
<1>1. NestInv => EntriesHoldVMsIfSteady
  BY DEF NestInv, MeetsInv, EntriesHoldVMsIfSteady
<1> QED BY <1>1, NestInvariance, PTL

\* removeVMs, with its copy of a list that calls inside its hooks change, drops only VMs
\* that the middleware does not have, unless it changed under the waiting calls.
THEOREM NestedRemovalIsJustified == ReentrantSpec => OnlyGoneVMsLeaveNested
<1>1. NestInv /\ [ReentrantNext]_allVars =>
        [\A id \in VMIDs :
            (AllSteady /\ vmList[id] # Null /\ vmList'[id] = Null) => cloud[id] = Null]_allVars
  <2> SUFFICES ASSUME NestInv, [ReentrantNext]_allVars, NEW id \in VMIDs,
                      AllSteady, vmList[id] # Null, vmList'[id] = Null
               PROVE  cloud[id] = Null
    OBVIOUS
  <2>1. ~UNCHANGED vmList /\ id \in Known /\ id \notin Known'
    BY DEF Known
  <2>2. CASE AddNewVMs \/ KeepEmpty \/ UpdateVMs \/ UpdateMissing
    <3>1. Known \cap Existing \subseteq Known'
      BY <2>2, AddSteps, UpdateSteps DEF Steps, AllSteady, Helpful
    <3> QED BY <2>1, <3>1 DEF Existing
  <2>3. CASE RemoveVMs
    <3>1. Known \cap Existing \subseteq Known'
      BY <2>3, RemoveSteps DEF Steps, AllSteady, Helpful
    <3> QED BY <2>1, <3>1 DEF Existing
  <2>4. Environment \/ HookRefreshes \/ InnerReturns \/ HookThrowsThrough \/ Begin
            \/ RemoveReadsEmpty \/ NotifyThem \/ UNCHANGED allVars => UNCHANGED vmList
    BY DEF Environment, CloudChange, Settle, registerVMEventHandler, HookRefreshes, InnerReturns,
           HookThrowsThrough, Begin, RetrieveIDs, FailToRetrieveIDs, RemoveReadsEmpty, NotifyThem,
           CallHandler, AllCalled, HandlerThrows, allVars, vars
  <2> QED BY <2>1, <2>2, <2>3, <2>4 DEF ReentrantNext
<1> QED BY <1>1, NestInvariance, PTL DEF ReentrantSpec, OnlyGoneVMsLeaveNested

-----------------------------------------------------------------------------
(* Hooks that leave refreshVMList alone.                                     *)

\* No call waits, so every ID in vmList stays mapped to a VM.
PlainInv ==
    /\ NestInv /\ IInv
    /\ DOMAIN outer = {} /\ ~called /\ empty = {}

LEMMA PlainInit == ReentrantInit => PlainInv
<1>1. ReentrantInit => NestInv /\ IInv
  BY NestInit, InvInit DEF ReentrantInit
<1> QED BY <1>1 DEF ReentrantInit, PlainInv

\* The steps that only a call inside a hook makes possible are not taken.
LEMMA PlainStep ==
    ASSUME RefreshingHandlers = {}, PlainInv, [ReentrantNext]_allVars
    PROVE  [Next]_vars /\ DOMAIN outer' = {} /\ ~called' /\ empty' = {}
<1>t. /\ TypeOK /\ outer \in Seq(FrameType) /\ DOMAIN outer = {} /\ Depth = 0
      /\ ~called /\ empty = {} /\ UpdateFinds
  <2>1. TypeOK /\ ListInv /\ outer \in Seq(FrameType)
    BY DEF PlainInv, IInv, NestInv, NestTypeOK
  <2>2. DOMAIN outer = 1..Len(outer) /\ Len(outer) \in Nat
    BY <2>1
  <2> QED BY <2>1, <2>2, ListFinds DEF PlainInv, Depth
<1> USE DEF nesting
<1>1. CASE Environment
  <2>1. CASE /\ (\E id \in VMIDs : CloudChange(id)) \/ Settle
             /\ outer' = [i \in DOMAIN outer |-> [outer[i] EXCEPT !.steady = FALSE]]
             /\ UNCHANGED <<called, empty>>
    <3>1. DOMAIN outer' = {}
      BY <1>t, <2>1
    <3> QED BY <1>t, <2>1, <3>1 DEF Next
  <2>2. CASE (\E h \in Handlers : registerVMEventHandler(h)) /\ UNCHANGED nesting
    BY <1>t, <2>2 DEF Next
  <2> QED BY <1>1, <2>1, <2>2 DEF Environment
<1>2. ~HookRefreshes
  BY DEF HookRefreshes
<1>3. ~InnerReturns
  BY <1>t DEF InnerReturns
<1>4. ~HookThrowsThrough
  BY <1>t DEF HookThrowsThrough, Catching
<1>5. CASE Begin
  BY <1>t, <1>5, NestedSteps DEF Begin
<1>6. ~KeepEmpty /\ ~RemoveReadsEmpty
  BY <1>t DEF KeepEmpty, RemoveReadsEmpty
<1>7. CASE AddNewVMs
  BY <1>t, <1>7, NestedSteps DEF AddNewVMs
<1>8. ~UpdateMissing
  <2> SUFFICES ASSUME UpdateMissing PROVE FALSE
    OBVIOUS
  <2>1. phase = "update" /\ note = Null /\ pending # << >> /\ vmList[Head(pending)] = Null
    BY DEF UpdateMissing
  <2>2. Head(pending) \in Known
    BY <1>t, <2>1 DEF UpdateFinds
  <2> QED BY <2>1, <2>2 DEF Known
<1>9. CASE UpdateVMs
  BY <1>t, <1>9, NestedSteps DEF UpdateVMs
<1>10. CASE RemoveVMs
  BY <1>t, <1>10, NestedSteps DEF RemoveVMs, removeVMs
<1>11. CASE NotifyThem
  BY <1>t, <1>11, NestedSteps DEF NotifyThem, NotifyHandlers
<1>12. CASE UNCHANGED allVars
  BY <1>t, <1>12 DEF allVars
<1> QED
  BY <1>1, <1>2, <1>3, <1>4, <1>5, <1>6, <1>7, <1>8, <1>9, <1>10, <1>11, <1>12
     DEF ReentrantNext

LEMMA PlainNext ==
    ASSUME RefreshingHandlers = {}, PlainInv, [ReentrantNext]_allVars
    PROVE  PlainInv'
<1>1. [Next]_vars /\ DOMAIN outer' = {} /\ ~called' /\ empty' = {}
  BY PlainStep
<1>2. NestInv' /\ IInv'
  BY <1>1, NestNext, InvNext DEF PlainInv
<1> QED BY <1>1, <1>2 DEF PlainInv

\* Without hooks that call refreshVMList this module is VMManager: a hook that refreshes
\* is what it takes for vmList to map an ID to an empty pointer, and all that is proved
\* of VMManager is proved of every program whose hooks do not.
THEOREM PlainHooks ==
    RefreshingHandlers = {} => (ReentrantSpec => Spec /\ []EntriesHoldVMs)
<1> SUFFICES ASSUME RefreshingHandlers = {} PROVE ReentrantSpec => Spec /\ []EntriesHoldVMs
  OBVIOUS
<1>1. PlainInv /\ [ReentrantNext]_allVars => PlainInv' /\ [Next]_vars
  BY PlainStep, PlainNext
<1>2. ReentrantInit => Init
  BY DEF ReentrantInit
<1>3. PlainInv => EntriesHoldVMs
  BY DEF PlainInv, EntriesHoldVMs
<1> QED BY <1>1, <1>2, <1>3, PlainInit, PTL DEF ReentrantSpec, Spec
=============================================================================
