------------------------ MODULE ResourceListingProofs ------------------------
(***************************************************************************)
(* Proofs that ResourceListing keeps its types, never sends to a closed    *)
(* channel and returns complete lists only, as if in one step, for any     *)
(* workloads, kinds and number of slots.                                   *)
(***************************************************************************)
EXTENDS ResourceListing, TLAPS

LEMMA TypeStep == TypeOK /\ [Next]_vars => TypeOK'
<1> SUFFICES ASSUME TypeOK, [Next]_vars PROVE TypeOK' OBVIOUS
<1> USE ConstantsAssumption DEF TypeOK
<1>1. CASE Closer BY <1>1 DEF Closer, callVars, itemVars, listVars
<1>2. CASE Cancel BY <1>2 DEF Cancel, itemVars, listVars, syncVars
<1>3. CASE Caller
  <2> USE DEF Return, callVars, itemVars, listVars, syncVars
  <2>1. CASE List BY <2>1 DEF List
  <2>2. CASE SpawnCloser BY <2>2 DEF SpawnCloser
  <2>3. CASE ReceiveError BY <2>3 DEF ReceiveError
  <2>4. CASE ReceiveClosed BY <2>4 DEF ReceiveClosed
  <2>5. CASE ReceiveDone BY <2>5 DEF ReceiveDone
  <2>6. ASSUME NEW i \in Workload, Spawn(i) PROVE TypeOK' BY <2>6 DEF Spawn, Stage
  <2> QED BY <1>3, <2>1, <2>2, <2>3, <2>4, <2>5, <2>6 DEF Caller
<1>4. ASSUME NEW i \in Workload, ProcessItem(i) PROVE TypeOK'
  <2> USE DEF Goto, callVars, itemVars, listVars, syncVars, Stage
  <2>1. CASE Acquire(i) BY <2>1 DEF Acquire
  <2>2. CASE ProcessFails(i) BY <2>2 DEF ProcessFails
  <2>3. CASE Process(i)
    <3>1. position[i] + 1 \in Nat /\ position[i] + 1 <= Len(images[i])
      BY <2>3 DEF Process
    <3>2. cache' \subseteq Valid BY <2>3 DEF Process
    <3> QED BY <2>3, <3>1, <3>2 DEF Process
  <2>4. CASE Report(i) BY <2>4 DEF Report
  <2>5. CASE Lock(i) BY <2>5 DEF Lock
  <2>6. CASE AppendLocal(i)
    <3>1. seen[i] \cup {<<i, position[i]>>} \subseteq (Workload \X Nat) OBVIOUS
    <3>2. seen' \in [Workload -> SUBSET (Workload \X Nat)] BY <2>6 DEF AppendLocal
    <3> QED BY <2>6, <3>1, <3>2 DEF AppendLocal
  <2>7. CASE Release(i) BY <2>7 DEF Release
  <2>8. CASE Done(i) BY <2>8 DEF Done
  <2> QED BY <1>4, <2>1, <2>2, <2>3, <2>4, <2>5, <2>6, <2>7, <2>8 DEF ProcessItem
<1>5. CASE UNCHANGED vars BY <1>5 DEF vars, callVars, itemVars, listVars, syncVars
<1> QED BY <1>1, <1>2, <1>3, <1>4, <1>5 DEF Next

\* The variables of a listing keep their types; the cache holds valid names only.
THEOREM ListingTypeCorrect == Spec => []TypeOK
<1>1. ASSUME Init PROVE TypeOK
  <2> USE ConstantsAssumption, <1>1 DEF Init
  <2>1. images \in [Workload -> Seq(Image)] OBVIOUS
  <2>2. \A i \in Workload : position[i] <= Len(images[i])
    <3> SUFFICES ASSUME NEW i \in Workload PROVE 0 <= Len(images[i]) OBVIOUS
    <3>1. images[i] \in Seq(Image) BY <2>1
    <3> QED BY <3>1
  <2>3. kind \in 1 .. Kinds OBVIOUS
  <2>4. goroutine \in [Workload -> Stage] BY DEF Stage
  <2> QED BY <2>1, <2>2, <2>3, <2>4 DEF TypeOK
<1> QED BY <1>1, TypeStep, PTL DEF Spec

-----------------------------------------------------------------------------
\* The inductive invariant.

Ended == {"leaving", "released", "done"}

\* What has been parsed is valid, and what a goroutine has appended is all it has.
ParsedInv ==
  \A i \in Workload :
    /\ \A n \in 1 .. position[i] : images[i][n] \in Valid
    /\ \A n \in Nat : <<i, n>> \in containersList => n = position[i] /\ n = Len(images[i])

\* The goroutine that appends holds the mutex and has read the latest list.
MutexInv ==
  \A i \in Workload : goroutine[i] = "appending" =>
    mu = i /\ seen[i] = containersList /\ position[i] = Len(images[i])

\* A goroutine that has ended without an append has left an error behind.
ErrorInv ==
  \A i \in Workload : goroutine[i] \in Ended =>
    Appended(i) \in containersList \/ errChan = "error" \/ caller = "error"

\* The wait group counts the goroutines that have started and not ended.
CountInv ==
  \A i \in Workload : i \in wg <=> goroutine[i] \notin {"none", "done"}

\* The kinds are listed one after the other.
KindInv ==
  \A i \in Workload :
    /\ KindOf[i] < kind => goroutine[i] = "done"
    /\ KindOf[i] > kind \/ (KindOf[i] = kind /\ caller = "list") => goroutine[i] = "none"
    /\ KindOf[i] = kind /\ closer # "none" => goroutine[i] # "none"

CloserInv ==
  /\ caller \in {"list", "spawn"} => closer = "none"
  /\ caller \in {"select", "ok"} => closer # "none"
  /\ closer = "closed" => wg = {}
  /\ caller = "ok" => kind = Kinds /\ closer = "closed" /\ errChan = "empty"

ListingInv ==
  ParsedInv /\ MutexInv /\ ErrorInv /\ CountInv /\ KindInv /\ CloserInv

-----------------------------------------------------------------------------
\* Every action keeps the inductive invariant.

LEMMA CallerInv ==
  ASSUME TypeOK, ListingInv, Caller
  PROVE  ListingInv'
<1> USE ConstantsAssumption
    DEF TypeOK, Return, Appended, Ended, callVars, itemVars, listVars, syncVars,
        ListingInv, ParsedInv, MutexInv, ErrorInv, CountInv, KindInv, CloserInv
<1>1. CASE List BY <1>1 DEF List
<1>2. ASSUME NEW i \in Workload, Spawn(i) PROVE ListingInv' BY <1>2 DEF Spawn
<1>3. CASE SpawnCloser BY <1>3 DEF SpawnCloser, Spawned, OfKind
<1>4. CASE ReceiveError BY <1>4 DEF ReceiveError
<1>5. CASE ReceiveClosed /\ kind = Kinds BY <1>5 DEF ReceiveClosed
<1>6. CASE ReceiveClosed /\ kind # Kinds BY <1>6 DEF ReceiveClosed
<1>7. CASE ReceiveDone BY <1>7 DEF ReceiveDone
<1> QED BY <1>1, <1>2, <1>3, <1>4, <1>5, <1>6, <1>7 DEF Caller

LEMMA CloserStepInv ==
  ASSUME TypeOK, ListingInv, Closer \/ Cancel \/ UNCHANGED vars
  PROVE  ListingInv'
BY DEF Closer, Cancel, vars, callVars, itemVars, listVars, syncVars, TypeOK, Appended, Ended,
       ListingInv, ParsedInv, MutexInv, ErrorInv, CountInv, KindInv, CloserInv

LEMMA ProcessItemInv ==
  ASSUME TypeOK, ListingInv, NEW i \in Workload, ProcessItem(i)
  PROVE  ListingInv'
<1> USE ConstantsAssumption, NobodyAssumption
    DEF TypeOK, Goto, Appended, Ended, callVars, itemVars, listVars, syncVars,
        ListingInv, ParsedInv, MutexInv, ErrorInv, CountInv, KindInv, CloserInv
<1>1. CASE Acquire(i) BY <1>1 DEF Acquire
<1>2. CASE ProcessFails(i) BY <1>2 DEF ProcessFails
<1>3. CASE Process(i) BY <1>3 DEF Process, NextImage
<1>4. CASE Report(i) BY <1>4 DEF Report
<1>5. CASE Lock(i) BY <1>5 DEF Lock
<1>6. CASE AppendLocal(i) BY <1>6 DEF AppendLocal
<1>7. CASE Release(i) BY <1>7 DEF Release
<1>8. CASE Done(i) BY <1>8 DEF Done
<1> QED BY <1>1, <1>2, <1>3, <1>4, <1>5, <1>6, <1>7, <1>8 DEF ProcessItem

LEMMA ListingStep == TypeOK /\ ListingInv /\ [Next]_vars => ListingInv'
BY CallerInv, CloserStepInv, ProcessItemInv DEF Next

\* The inductive invariant holds of every listing.
THEOREM ListingInvariant == Spec => []ListingInv
<1>1. Init => ListingInv
  BY ConstantsAssumption DEF Init, ListingInv, ParsedInv, MutexInv, ErrorInv, CountInv, KindInv,
                             CloserInv, Ended
<1> QED BY <1>1, ListingStep, ListingTypeCorrect, PTL DEF Spec

\* A list returned without an error has every container of every workload.
THEOREM ReturnsCompleteList == Spec => []CompleteList
<1>1. ASSUME TypeOK, ListingInv, caller = "ok" PROVE CompleteList
  <2> USE DEF ListingInv
  <2>1. \A i \in Workload : goroutine[i] = "done"
    BY <1>1, ConstantsAssumption DEF CountInv, CloserInv, KindInv, TypeOK
  <2>2. \A i \in Workload : Appended(i) \in containersList
    BY <1>1, <2>1 DEF ErrorInv, CloserInv, Ended
  <2>3. containersList = {Appended(i) : i \in Workload}
    BY <1>1, <2>2 DEF ParsedInv, TypeOK, Appended
  <2>4. \A i \in Workload : \A n \in 1 .. Len(images[i]) : images[i][n] \in Valid
    BY <1>1, <2>2 DEF ParsedInv, TypeOK, Appended
  <2> QED BY <2>1, <2>3, <2>4 DEF CompleteList
<1>2. TypeOK /\ ListingInv => CompleteList BY <1>1 DEF CompleteList
<1> QED BY <1>2, ListingInvariant, ListingTypeCorrect, PTL

\* No goroutine sends to the channel when it is closed.
THEOREM SendsToOpenChannel == Spec => []NeverSendsOnClosed
<1>1. TypeOK /\ ListingInv => NeverSendsOnClosed
  BY DEF ListingInv, CountInv, CloserInv, KindInv, NeverSendsOnClosed, OfKind, TypeOK
<1> QED BY <1>1, ListingInvariant, ListingTypeCorrect, PTL

-----------------------------------------------------------------------------
\* The listing implements AtomicListing.

\* What a complete list stands for.
AllContainers ==
  /\ Containers(containersList) = UNION {{i} \X Atomic!Names(images[i]) : i \in Workload}
  /\ \A i \in Workload : Atomic!Names(images[i]) \subseteq Valid

LEMMA CompleteIsAll == CompleteList /\ caller = "ok" => AllContainers
<1> SUFFICES ASSUME CompleteList, caller = "ok" PROVE AllContainers OBVIOUS
<1> DEFINE Of(i) == {<<i, images[i][n]>> : n \in 1 .. Len(images[i])}
<1>1. \A i \in Workload : Of(i) = {i} \X Atomic!Names(images[i]) BY DEF Atomic!Names
<1>2. \A i : Appended(i)[1] = i /\ Appended(i)[2] = Len(images[i]) BY DEF Appended
<1>3. containersList = {Appended(i) : i \in Workload} BY DEF CompleteList
<1>4. Containers(containersList) = UNION {Of(i) : i \in Workload}
  BY <1>2, <1>3 DEF Containers
<1>5. UNION {Of(i) : i \in Workload} = UNION {{i} \X Atomic!Names(images[i]) : i \in Workload}
  <2> HIDE DEF Of
  <2> QED BY <1>1
<1>6. \A i \in Workload : Atomic!Names(images[i]) \subseteq Valid
  BY DEF CompleteList, Atomic!Names
<1> QED BY <1>4, <1>5, <1>6 DEF AllContainers

LEMMA CallerMoves ==
  ASSUME [Next]_vars
  PROVE  /\ images' = images
         /\ caller' = caller \/ ~ Returned
BY DEF Next, Caller, Closer, Cancel, ProcessItem, List, Spawn, SpawnCloser, ReceiveError,
       ReceiveClosed, ReceiveDone, Acquire, ProcessFails, Process, Report, Lock, AppendLocal,
       Release, Done, Return, Returned, vars, callVars

LEMMA AtomicStep ==
  ASSUME CompleteList, CompleteList', [Next]_vars
  PROVE  [Atomic!Succeed \/ Atomic!Fail]_(Atomic!listingVars)
<1> USE DEF Returned
<1>1. images' = images /\ (caller' = caller \/ ~ Returned) BY CallerMoves
<1>2. CASE caller' = caller
  <2>1. caller = "ok" => Containers(containersList)' = Containers(containersList)
    <3>1. SUFFICES ASSUME caller = "ok" PROVE containersList' = containersList
      BY <1>1 DEF Containers
    <3> QED BY <1>1, <1>2, <3>1 DEF CompleteList, Appended
  <2> QED BY <1>1, <1>2, <2>1 DEF Atomic!listingVars
<1>3. CASE caller' # caller /\ caller' = "error"
  BY <1>1, <1>3 DEF Atomic!Fail
<1>4. CASE caller' # caller /\ caller' = "ok"
  <2>1. (CompleteList /\ caller = "ok" => AllContainers)' BY CompleteIsAll, PTL
  <2>2. AllContainers' BY <1>4, <2>1
  <2>3. \A s : Atomic!Names(s)' = Atomic!Names(s) BY DEF Atomic!Names
  <2> QED BY <1>1, <1>4, <2>2, <2>3 DEF AllContainers, Atomic!Succeed
<1>5. CASE caller' # caller /\ caller' \notin {"ok", "error"}
  BY <1>1, <1>5 DEF Atomic!listingVars
<1> QED BY <1>2, <1>3, <1>4, <1>5

\* Goroutines, channel and mutex together make one step: all containers or an error.
THEOREM ListingIsAtomic == Spec => ListsAtomically
<1>1. Init => Atomic!Init BY DEF Init, Atomic!Init, Returned
<1>2. CompleteList /\ CompleteList' /\ [Next]_vars =>
        [Atomic!Succeed \/ Atomic!Fail]_(Atomic!listingVars)
  BY AtomicStep
<1> QED BY <1>1, <1>2, ReturnsCompleteList, PTL
        DEF Spec, ListsAtomically, Atomic!Spec
=============================================================================
