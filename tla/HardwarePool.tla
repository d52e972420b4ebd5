---------------------------- MODULE HardwarePool ----------------------------
(***************************************************************************)
(* The hardware pool of hardware/src/pool.rs: the devices a station owns,  *)
(* the passes they are allocated to, and one circuit breaker per device.   *)
(*                                                                         *)
(* The pool is shared by concurrent tasks and guarded by three RwLocks     *)
(* (devices, allocations, circuit_breakers).  An operation is one action   *)
(* when everything it writes is written under the devices lock; release()  *)
(* reads the allocation record under a lock that it gives up before it     *)
(* takes the devices lock, so it is two actions, and other tasks run in    *)
(* between.                                                                *)
(***************************************************************************)
EXTENDS Naturals, Sequences, FiniteSets

CONSTANTS
  Devices,       \* device identifiers
  Types,         \* HardwareType
  TypeOf,        \* the hardware type of each device
  Passes,        \* pass identifiers
  Tasks,         \* concurrent callers of release()
  None,          \* no pass
  CIRCUIT_OPEN_THRESHOLD,
  MaxFailures,   \* bound on recorded failures of one device
  MaxRequest,    \* bound on the devices of one request
  ReaddHeld      \* may add_device() replace a device that a pass holds?

ASSUME PoolAssumption ==
  /\ TypeOf \in [Devices -> Types]
  /\ None \notin Passes
  /\ CIRCUIT_OPEN_THRESHOLD \in Nat \ {0}
  /\ MaxFailures \in Nat
  /\ MaxRequest \in Nat
  /\ ReaddHeld \in BOOLEAN

VARIABLES
  registered,          \* keys of the device map
  healthy,             \* HardwareDevice.healthy
  current_allocation,  \* HardwareDevice.current_allocation
  allocations,         \* devices of each pass's record; {} when there is none
  circuit,             \* CircuitBreaker.state
  failures,            \* CircuitBreaker.consecutive_failures
  cooled,              \* open circuits whose cooldown has elapsed
  releasing            \* per task: the pass and the record release() has read

deviceVars == <<registered, healthy, current_allocation>>
breakerVars == <<circuit, failures, cooled>>
vars == <<deviceVars, allocations, breakerVars, releasing>>

CircuitState == {"Closed", "Open", "HalfOpen"}

NotReleasing == [pass |-> None, devices |-> {}]

ReleaseCall == [pass : Passes \cup {None}, devices : SUBSET Devices]

\* The requests a caller can make: no device list is empty, but one may name
\* an unknown device, or the same device twice.
Requests == UNION {[1..n -> Devices] : n \in 1..MaxRequest}

Init ==
  /\ registered = {}
  /\ healthy = [d \in Devices |-> TRUE]
  /\ current_allocation = [d \in Devices |-> None]
  /\ allocations = [p \in Passes |-> {}]
  /\ circuit = [d \in Devices |-> "Closed"]
  /\ failures = [d \in Devices |-> 0]
  /\ cooled = {}
  /\ releasing = [t \in Tasks |-> NotReleasing]

-----------------------------------------------------------------------------
(* Devices *)

\* add_device(): insert replaces whatever device the identifier named.
AddDevice(d) ==
  /\ registered' = registered \cup {d}
  /\ healthy' = [healthy EXCEPT ![d] = TRUE]
  /\ current_allocation' = [current_allocation EXCEPT ![d] = None]
  /\ UNCHANGED <<allocations, breakerVars, releasing>>

IsAvailableHealthOnly(d) == healthy[d]

IsAvailable(d) == healthy[d] /\ current_allocation[d] = None

\* HardwareDevice::allocate() succeeds for the i-th device of a request: the
\* devices before it already belong to the pass.
CanTake(ids, i) ==
  /\ ids[i] \in registered
  /\ IsAvailable(ids[i])
  /\ \A j \in 1..(i - 1) : ids[j] # ids[i]

\* The devices the loop of allocate() has taken when it ends or fails.
Taken(ids) ==
  {ids[i] : i \in {k \in DOMAIN ids : \A j \in 1..k : CanTake(ids, j)}}

Grant(p, S) ==
  current_allocation' =
    [d \in Devices |-> IF d \in S THEN p ELSE current_allocation[d]]

\* allocate(): all devices of the request were available.
Allocate(p, ids) ==
  /\ \A i \in DOMAIN ids : CanTake(ids, i)
  /\ Grant(p, Taken(ids))
  /\ allocations' = [allocations EXCEPT ![p] = Taken(ids)]
  /\ UNCHANGED <<registered, healthy, breakerVars, releasing>>

\* allocate(): `?` leaves the loop at the first device that cannot be taken;
\* the devices before it stay with the pass and no record is written.
AllocateFails(p, ids) ==
  /\ \E i \in DOMAIN ids : ~ CanTake(ids, i)
  /\ Grant(p, Taken(ids))
  /\ UNCHANGED <<registered, healthy, allocations, breakerVars, releasing>>

\* release(), first lock scope: clone the record of the pass.
ReleaseRead(t, p) ==
  /\ releasing[t] = NotReleasing
  /\ allocations[p] # {}
  /\ releasing' = [releasing EXCEPT
                     ![t] = [pass |-> p, devices |-> allocations[p]]]
  /\ UNCHANGED <<deviceVars, allocations, breakerVars>>

FreedAnyHolder(d, p) == TRUE

\* HardwareDevice::release(): only the pass that holds the device frees it;
\* the error of any other caller is ignored.
Freed(d, p) == current_allocation[d] = p

\* release(), second lock scope: free the devices of the record that was read,
\* then remove whatever record the pass has by now.
ReleaseCommit(t) ==
  LET p == releasing[t].pass
      S == {d \in releasing[t].devices \cap registered : Freed(d, p)}
  IN /\ p # None
     /\ current_allocation' =
          [d \in Devices |-> IF d \in S THEN None ELSE current_allocation[d]]
     /\ allocations' = [allocations EXCEPT ![p] = {}]
     /\ releasing' = [releasing EXCEPT ![t] = NotReleasing]
     /\ UNCHANGED <<registered, healthy, breakerVars>>

-----------------------------------------------------------------------------
(* Circuit breakers *)

\* CircuitBreaker::allows_allocation().
AllowsAllocation(d) == circuit[d] # "Open" \/ d \in cooled

Offerable(ty) ==
  {d \in registered : TypeOf[d] = ty /\ IsAvailable(d) /\ AllowsAllocation(d)}

\* find_available(): the lazy filter stops at the count-th device, in the
\* order of the hash map, and half-opens the cooled circuits it accepted.
FindAvailable(ty, count) ==
  \E S \in SUBSET Offerable(ty) :
    /\ \/ Cardinality(S) = count
       \/ Cardinality(S) < count /\ S = Offerable(ty)
    /\ circuit' = [d \in Devices |-> IF d \in S /\ circuit[d] = "Open"
                                     THEN "HalfOpen" ELSE circuit[d]]
    /\ cooled' = cooled \ S
    /\ UNCHANGED <<deviceVars, allocations, failures, releasing>>

RecordFailureOffByOne(d) ==
  /\ failures' = [failures EXCEPT ![d] = @ + 1]
  /\ circuit' = [circuit EXCEPT
                   ![d] = IF failures[d] + 1 > CIRCUIT_OPEN_THRESHOLD
                          THEN "Open" ELSE @]
  /\ cooled' = cooled \ {d}

\* CircuitBreaker::record_failure().
RecordFailure(d) ==
  /\ failures' = [failures EXCEPT ![d] = @ + 1]
  /\ circuit' = [circuit EXCEPT
                   ![d] = IF failures[d] + 1 >= CIRCUIT_OPEN_THRESHOLD
                          THEN "Open" ELSE @]
  /\ cooled' = IF failures[d] + 1 >= CIRCUIT_OPEN_THRESHOLD
               THEN cooled \ {d} ELSE cooled

MarkUnhealthy(d) ==
  /\ failures[d] < MaxFailures
  /\ d \in registered
  /\ healthy' = [healthy EXCEPT ![d] = FALSE]
  /\ RecordFailure(d)
  /\ UNCHANGED <<registered, current_allocation, allocations, releasing>>

\* The pool reports a success to the breaker only in the half-open state.
ClosesOnSuccess(d) == circuit[d] = "HalfOpen"

RecordSuccessSubtracts(d) ==
  /\ ClosesOnSuccess(d)
  /\ failures' = [failures EXCEPT ![d] = @ - CIRCUIT_OPEN_THRESHOLD - 1]
  /\ circuit' = [circuit EXCEPT ![d] = "Closed"]
  /\ UNCHANGED <<deviceVars, allocations, cooled, releasing>>

\* CircuitBreaker::record_success(), called by HardwarePool::record_success().
RecordSuccess(d) ==
  /\ ClosesOnSuccess(d)
  /\ failures' = [failures EXCEPT ![d] = 0]
  /\ circuit' = [circuit EXCEPT ![d] = "Closed"]
  /\ cooled' = cooled \ {d}
  /\ UNCHANGED <<deviceVars, allocations, releasing>>

\* CIRCUIT_COOLDOWN_SECS pass.
Cooldown(d) ==
  /\ circuit[d] = "Open"
  /\ d \notin cooled
  /\ cooled' = cooled \cup {d}
  /\ UNCHANGED <<deviceVars, allocations, circuit, failures, releasing>>

-----------------------------------------------------------------------------
Next ==
  \/ \E d \in Devices : (ReaddHeld \/ current_allocation[d] = None) /\ AddDevice(d)
  \/ \E p \in Passes, ids \in Requests : Allocate(p, ids)
  \/ \E p \in Passes, ids \in Requests : AllocateFails(p, ids)
  \/ \E t \in Tasks, p \in Passes : ReleaseRead(t, p)
  \/ \E t \in Tasks : ReleaseCommit(t)
  \/ \E ty \in Types, n \in 1..MaxRequest : FindAvailable(ty, n)
  \/ \E d \in Devices : MarkUnhealthy(d)
  \/ \E d \in Devices : RecordSuccess(d)
  \/ \E d \in Devices : Cooldown(d)

Spec == Init /\ [][Next]_vars

-----------------------------------------------------------------------------
(* Properties *)

\* Every field of the pool has its type.
TypeOK ==
  /\ registered \subseteq Devices
  /\ healthy \in [Devices -> BOOLEAN]
  /\ current_allocation \in [Devices -> Passes \cup {None}]
  /\ allocations \in [Passes -> SUBSET Devices]
  /\ circuit \in [Devices -> CircuitState]
  /\ failures \in [Devices -> Nat]
  /\ cooled \subseteq Devices
  /\ releasing \in [Tasks -> ReleaseCall]

\* A pass holds every device its record lists: no stale release() and no
\* failed allocate() of another task takes a device from under a recorded
\* pass, so no two records share a device.
RecordedDevicesAreHeld ==
  \A p \in Passes : \A d \in allocations[p] : current_allocation[d] = p

\* A breaker is not closed exactly when the failures on its count reached the
\* threshold: whatever the order of failures, probes and late successes, no
\* tripped device looks healthy and no healthy one stays tripped.
TrippedIffThreshold ==
  \A d \in Devices :
    (circuit[d] # "Closed") <=> (failures[d] >= CIRCUIT_OPEN_THRESHOLD)

\* A device leaves a pass only when a release() of that pass completes (or,
\* where callers do that, when the device is registered anew): it never goes
\* from one pass to another directly, and a release() that read its record long
\* ago never frees a device another pass has been given since.
LeavesOnlyByOwnRelease ==
  [][\A d \in Devices :
       current_allocation[d] \in Passes /\ current_allocation'[d] # current_allocation[d]
       => /\ current_allocation'[d] = None
          /\ \/ ReaddHeld
             \/ \E t \in Tasks : /\ releasing[t].pass = current_allocation[d]
                                 /\ releasing'[t] = NotReleasing]_vars

=============================================================================
