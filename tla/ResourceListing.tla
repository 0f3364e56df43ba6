--------------------------- MODULE ResourceListing ---------------------------
(***************************************************************************)
(* How an export finds the images in use: listImagesInCluster calls        *)
(* ListAndProcessResources (internal/shared/k8s.go) for one kind of        *)
(* workload after the other, and each call hands every workload to a       *)
(* goroutine of its own.  The goroutines share a list under a mutex, a     *)
(* semaphore, a wait group, a channel of capacity one for the first error  *)
(* and a cache of parsed image names; one more closes the channel when the *)
(* others are done.                                                        *)
(*                                                                         *)
(* An image name is a value that ProcessContainerName can parse (Valid) or *)
(* not.  The containers that goroutine i has put in its own list are the   *)
(* first position[i] of the workload, so containersList is the set of the  *)
(* pairs <<workload, number of its containers>> appended to it.            *)
(***************************************************************************)
EXTENDS Integers, FiniteSets, Sequences

CONSTANTS
  Workload,    \* the Deployments, Jobs, DaemonSets and CronJobs of the cluster
  Kinds,       \* the number of kinds, listed in the order 1, 2, ...
  KindOf,      \* the kind of each workload
  Image,       \* image names
  Valid,       \* those that can be parsed
  Contents,    \* what the cluster may hold: the image names of each workload
  Slots,       \* the capacity of the semaphore
  Nobody       \* not a workload: the mutex is free

ASSUME ConstantsAssumption ==
  /\ Kinds \in Nat \ {0}
  /\ KindOf \in [Workload -> 1 .. Kinds]
  /\ Valid \subseteq Image
  /\ Contents \subseteq [Workload -> Seq(Image)]
  /\ Slots \in Nat \ {0}

ASSUME NobodyAssumption == Nobody \notin Workload

VARIABLES
  images,          \* the image names of each workload; never changes
  kind,            \* the kind that is being listed
  caller,          \* where listImagesInCluster is, or what it has returned
  cancelled,       \* the context of the call is done
  goroutine,       \* where processItem is for each workload
  position,        \* how many containers of each workload it has parsed
  containersList,  \* the list of the caller
  seen,            \* the list as the goroutine that appends to it has read it
  mu,              \* who holds the mutex of the list
  semaphore,       \* who holds a slot
  wg,              \* who is counted by the wait group
  errChan,         \* what is in the channel
  closer,          \* the goroutine that closes the channel
  cache            \* containerCache: the names parsed so far

callVars == <<images, kind, caller, cancelled>>
itemVars == <<goroutine, position>>
listVars == <<containersList, seen, mu>>
syncVars == <<semaphore, wg, errChan, closer>>
vars == <<callVars, itemVars, listVars, syncVars, cache>>

Returned == caller \in {"ok", "error"}
OfKind(k) == {i \in Workload : KindOf[i] = k}
Appended(i) == <<i, Len(images[i])>>

\* The cache is what earlier calls have left in it.
Init ==
  /\ images \in Contents
  /\ kind = 1 /\ caller = "list" /\ cancelled = FALSE
  /\ goroutine = [i \in Workload |-> "none"]
  /\ position = [i \in Workload |-> 0]
  /\ containersList = {} /\ seen = [i \in Workload |-> {}] /\ mu = Nobody
  /\ semaphore = {} /\ wg = {} /\ errChan = "empty" /\ closer = "none"
  /\ cache \in SUBSET Valid

-----------------------------------------------------------------------------
\* The caller

Return(result) == caller' = result /\ UNCHANGED <<images, kind, cancelled>>

\* r.List
List ==
  /\ caller = "list"
  /\ \E next \in {"spawn", "error"} : Return(next)
  /\ UNCHANGED <<itemVars, listVars, syncVars, cache>>

Spawn(i) ==
  /\ caller = "spawn" /\ KindOf[i] = kind /\ goroutine[i] = "none"
  /\ wg' = wg \cup {i}
  /\ goroutine' = [goroutine EXCEPT ![i] = "waiting"]
  /\ UNCHANGED <<callVars, position, listVars, semaphore, errChan, closer, cache>>

Spawned == \A i \in OfKind(kind) : goroutine[i] # "none"

\* Only when every workload has been counted is the goroutine started that waits.
SpawnCloser ==
  /\ caller = "spawn" /\ Spawned
  /\ closer' = "waiting"
  /\ Return("select")
  /\ UNCHANGED <<itemVars, listVars, semaphore, wg, errChan, cache>>

ReceiveError ==
  /\ caller = "select" /\ errChan = "error"
  /\ errChan' = "empty"
  /\ Return("error")
  /\ UNCHANGED <<itemVars, listVars, semaphore, wg, closer, cache>>

\* The channel is closed and empty: the next kind, with a channel of its own.
ReceiveClosed ==
  /\ caller = "select" /\ errChan = "empty" /\ closer = "closed"
  /\ IF kind = Kinds
     THEN Return("ok") /\ UNCHANGED closer
     ELSE /\ kind' = kind + 1 /\ caller' = "list" /\ closer' = "none"
          /\ UNCHANGED <<images, cancelled>>
  /\ UNCHANGED <<itemVars, listVars, semaphore, wg, errChan, cache>>

\* select takes any case that is ready.
ReceiveDone ==
  /\ caller = "select" /\ cancelled
  /\ Return("error")
  /\ UNCHANGED <<itemVars, listVars, syncVars, cache>>

Caller ==
  \/ List \/ SpawnCloser \/ ReceiveError \/ ReceiveClosed \/ ReceiveDone
  \/ \E i \in Workload : Spawn(i)

\* wg.Wait and close(errChan)
Closer ==
  /\ closer = "waiting" /\ wg = {}
  /\ closer' = "closed"
  /\ UNCHANGED <<callVars, itemVars, listVars, semaphore, wg, errChan, cache>>

\* The operator stops.
Cancel ==
  /\ ~ cancelled /\ ~ Returned
  /\ cancelled' = TRUE
  /\ UNCHANGED <<images, kind, caller, itemVars, listVars, syncVars, cache>>

-----------------------------------------------------------------------------
\* processItem for workload i

Goto(i, from, to) ==
  /\ goroutine[i] = from
  /\ goroutine' = [goroutine EXCEPT ![i] = to]

\* Mutant: wg.Done when the goroutine starts, not when it ends.
Acquire_DoneAtOnce(i) ==
  /\ Goto(i, "waiting", "processing")
  /\ Cardinality(semaphore) < Slots
  /\ semaphore' = semaphore \cup {i}
  /\ wg' = wg \ {i}
  /\ UNCHANGED <<callVars, position, listVars, errChan, closer, cache>>

Acquire(i) ==
  /\ Goto(i, "waiting", "processing")
  /\ Cardinality(semaphore) < Slots
  /\ semaphore' = semaphore \cup {i}
  /\ UNCHANGED <<callVars, position, listVars, wg, errChan, closer, cache>>

NextImage(i) == images[i][position[i] + 1]

\* Mutant: the name is put in the cache before it is found to be invalid.
ProcessFails_Cached(i) ==
  /\ position[i] < Len(images[i])
  /\ cancelled \/ NextImage(i) \notin cache \cup Valid
  /\ Goto(i, "processing", "reporting")
  /\ cache' = cache \cup {NextImage(i)}
  /\ UNCHANGED <<callVars, position, listVars, syncVars>>

\* processContainer fails for the next container: the context is done, or its
\* name cannot be parsed.  A name in the cache is not parsed.
ProcessFails(i) ==
  /\ position[i] < Len(images[i])
  /\ cancelled \/ NextImage(i) \notin cache \cup Valid
  /\ Goto(i, "processing", "reporting")
  /\ UNCHANGED <<callVars, position, listVars, syncVars, cache>>

\* Get and Set of the cache are one step: what two goroutines put there for a
\* name is the same.
Process(i) ==
  /\ goroutine[i] = "processing" /\ position[i] < Len(images[i])
  /\ ~ cancelled /\ NextImage(i) \in cache \cup Valid
  /\ position' = [position EXCEPT ![i] = @ + 1]
  /\ cache' = cache \cup {NextImage(i)}
  /\ UNCHANGED <<callVars, goroutine, listVars, syncVars>>

\* Mutant: no default case, so that the second error waits for a receiver.
Report_Waits(i) ==
  /\ errChan = "empty"
  /\ Goto(i, "reporting", "leaving")
  /\ errChan' = "error"
  /\ UNCHANGED <<callVars, position, listVars, semaphore, wg, closer, cache>>

\* The error goes to the channel, or is dropped if there is one already.
Report(i) ==
  /\ Goto(i, "reporting", "leaving")
  /\ errChan' = "error"
  /\ UNCHANGED <<callVars, position, listVars, semaphore, wg, closer, cache>>

\* Mutant: without the mutex.
Lock_Unlocked(i) ==
  /\ position[i] = Len(images[i])
  /\ Goto(i, "processing", "appending")
  /\ mu' = i
  /\ seen' = [seen EXCEPT ![i] = containersList]
  /\ UNCHANGED <<callVars, position, containersList, syncVars, cache>>

\* All containers are parsed: mu.Lock, and append reads the list ...
Lock(i) ==
  /\ position[i] = Len(images[i])
  /\ Goto(i, "processing", "appending")
  /\ mu = Nobody
  /\ mu' = i
  /\ seen' = [seen EXCEPT ![i] = containersList]
  /\ UNCHANGED <<callVars, position, containersList, syncVars, cache>>

\* ... and writes it, mu.Unlock.
AppendLocal(i) ==
  /\ Goto(i, "appending", "leaving")
  /\ containersList' = seen[i] \cup {<<i, position[i]>>}
  /\ seen' = [seen EXCEPT ![i] = {}]
  /\ mu' = Nobody
  /\ UNCHANGED <<callVars, position, syncVars, cache>>

\* The deferred calls, the last first.
Release(i) ==
  /\ Goto(i, "leaving", "released")
  /\ semaphore' = semaphore \ {i}
  /\ UNCHANGED <<callVars, position, listVars, wg, errChan, closer, cache>>

Done(i) ==
  /\ Goto(i, "released", "done")
  /\ wg' = wg \ {i}
  /\ UNCHANGED <<callVars, position, listVars, semaphore, errChan, closer, cache>>

ProcessItem(i) ==
  \/ Acquire(i) \/ ProcessFails(i) \/ Process(i) \/ Report(i)
  \/ Lock(i) \/ AppendLocal(i) \/ Release(i) \/ Done(i)

Next == Caller \/ Closer \/ Cancel \/ \E i \in Workload : ProcessItem(i)

Spec == Init /\ [][Next]_vars

\* Goroutines that can run do.  No strong fairness is needed for the semaphore
\* and the mutex: each goroutine takes them once.
Fairness ==
  /\ WF_vars(Caller) /\ WF_vars(Closer)
  /\ \A i \in Workload : WF_vars(ProcessItem(i))

FairSpec == Spec /\ Fairness

-----------------------------------------------------------------------------
\* Properties

Stage == {"none", "waiting", "processing", "reporting", "appending", "leaving",
          "released", "done"}

TypeOK ==
  /\ images \in [Workload -> Seq(Image)]
  /\ kind \in 1 .. Kinds
  /\ caller \in {"list", "spawn", "select", "ok", "error"}
  /\ cancelled \in BOOLEAN
  /\ goroutine \in [Workload -> Stage]
  /\ position \in [Workload -> Nat]
  /\ \A i \in Workload : position[i] <= Len(images[i])
  /\ containersList \subseteq (Workload \X Nat)
  /\ seen \in [Workload -> SUBSET (Workload \X Nat)]
  /\ mu \in Workload \cup {Nobody}
  /\ semaphore \subseteq Workload /\ wg \subseteq Workload
  /\ errChan \in {"empty", "error"}
  /\ closer \in {"none", "waiting", "closed"}
  /\ cache \subseteq Valid

\* A list that is returned without an error has every container of every workload
\* of every kind, and none whose name could not be parsed: no append is lost, no
\* error is dropped and nobody writes the list any more, although errors race for
\* a channel of capacity one and the caller waits for a channel to be closed, not
\* for the goroutines (ListAndProcessResources).
CompleteList ==
  caller = "ok" =>
    /\ containersList = {Appended(i) : i \in Workload}
    /\ \A i \in Workload : \A n \in 1 .. Len(images[i]) : images[i][n] \in Valid
    /\ \A i \in Workload : goroutine[i] = "done"

\* No goroutine is about to send to the channel when it is closed, which would
\* panic: the caller may have returned long before, at the first error.
NeverSendsOnClosed ==
  closer = "closed" => \A i \in OfKind(kind) : goroutine[i] = "done"

\* The caller returns, and all goroutines end, even if the caller has left at the
\* first error and nobody receives from the channel any more.
EveryoneEnds ==
  <>[](Returned /\ closer # "waiting" /\ \A i \in Workload : goroutine[i] \in {"none", "done"})

-----------------------------------------------------------------------------
\* The goroutines make one step together.

\* The containers that the entries of a list stand for.
Containers(L) == UNION {{<<c[1], images[c[1]][n]>> : n \in 1 .. c[2]} : c \in L}

Atomic == INSTANCE AtomicListing
  WITH result <- IF Returned THEN caller ELSE "pending",
       list <- IF caller = "ok" THEN Containers(containersList) ELSE {}

\* Whatever the goroutines, the channel and the mutex do, the caller gets all
\* containers at once or an error, gets it once, and nobody writes a list that has
\* been returned (ListAndProcessResources, listImagesInCluster).
ListsAtomically == Atomic!Spec
=============================================================================
