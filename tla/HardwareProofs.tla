--------------------------- MODULE HardwareProofs ---------------------------
(***************************************************************************)
(* Proofs for the hardware of a station: the pool (type correctness, the   *)
(* safety of the allocation records, the consistency of the breakers), the *)
(* acquisition of a pass with a shadow receiver, the ring buffer of a pass *)
(* shard, the shares and reputations that decide between tenants, and the  *)
(* pass scheduler (conflicts, annealing, keyholes), with the types of them *)
(* all, for any devices, passes, intervals, capacities, tenants, grants,   *)
(* schedules and elevation profiles.                                       *)
(***************************************************************************)
EXTENDS MCHardware, SequenceTheorems, ProofLemmas

\* The devices an allocate() call takes were all free, registered devices: the
\* loop checks is_available() before it writes.
LEMMA TakenAreFree ==
  ASSUME TypeOK, NEW ids \in Requests
  PROVE  /\ Taken(ids) \subseteq Devices
         /\ \A d \in Taken(ids) : current_allocation[d] = None
<1>1. SUFFICES ASSUME NEW d \in Taken(ids)
               PROVE  d \in Devices /\ current_allocation[d] = None
  OBVIOUS
<1>2. PICK k \in DOMAIN ids : d = ids[k] /\ \A j \in 1..k : CanTake(ids, j)
  BY DEF Taken
<1>3. PICK n \in 1..MaxRequest : ids \in [1..n -> Devices]
  BY DEF Requests
<1>4. k \in 1..k /\ k \in 1..n
  BY <1>2, <1>3, PoolAssumption
<1>5. CanTake(ids, k)
  BY <1>2, <1>4
<1>. QED
  BY <1>2, <1>3, <1>4, <1>5 DEF CanTake, IsAvailable

\* Every reachable state of the pool is well typed.
THEOREM TypeCorrect == Spec => []TypeOK
<1>1. Init => TypeOK
  BY PoolAssumption DEF Init, TypeOK, CircuitState, NotReleasing, ReleaseCall
<1>2. TypeOK /\ [Next]_vars => TypeOK'
  <2> SUFFICES ASSUME TypeOK, [Next]_vars PROVE TypeOK'
    OBVIOUS
  <2> USE PoolAssumption
  <2>1. ASSUME NEW d \in Devices, AddDevice(d) PROVE TypeOK'
    BY <2>1 DEF TypeOK, AddDevice, breakerVars
  <2>2. ASSUME NEW p \in Passes, NEW ids \in Requests, Allocate(p, ids) PROVE TypeOK'
    <3>1. Taken(ids) \subseteq Devices
      BY TakenAreFree
    <3>. QED
      BY <2>2, <3>1 DEF TypeOK, Allocate, Grant, breakerVars
  <2>3. ASSUME NEW p \in Passes, NEW ids \in Requests, AllocateFails(p, ids) PROVE TypeOK'
    BY <2>3 DEF TypeOK, AllocateFails, Grant, breakerVars
  <2>4. ASSUME NEW t \in Tasks, NEW p \in Passes, ReleaseRead(t, p) PROVE TypeOK'
    <3>1. [pass |-> p, devices |-> allocations[p]] \in ReleaseCall
      BY DEF TypeOK, ReleaseCall
    <3>. QED
      BY <2>4, <3>1 DEF TypeOK, ReleaseRead, deviceVars, breakerVars
  <2>5. ASSUME NEW t \in Tasks, ReleaseCommit(t) PROVE TypeOK'
    <3>1. NotReleasing \in ReleaseCall
      BY DEF NotReleasing, ReleaseCall
    <3>. QED
      BY <2>5, <3>1 DEF TypeOK, ReleaseCommit, breakerVars
  <2>6. ASSUME NEW ty \in Types, NEW n \in 1..MaxRequest, FindAvailable(ty, n) PROVE TypeOK'
    BY <2>6 DEF TypeOK, FindAvailable, deviceVars, CircuitState
  <2>7. ASSUME NEW d \in Devices, MarkUnhealthy(d) PROVE TypeOK'
    BY <2>7 DEF TypeOK, MarkUnhealthy, RecordFailure, CircuitState
  <2>8. ASSUME NEW d \in Devices, RecordSuccess(d) PROVE TypeOK'
    BY <2>8 DEF TypeOK, RecordSuccess, deviceVars, CircuitState
  <2>9. ASSUME NEW d \in Devices, Cooldown(d) PROVE TypeOK'
    BY <2>9 DEF TypeOK, Cooldown, deviceVars
  <2>10. CASE UNCHANGED vars
    BY <2>10 DEF TypeOK, vars, deviceVars, breakerVars
  <2>. QED
    BY <2>1, <2>2, <2>3, <2>4, <2>5, <2>6, <2>7, <2>8, <2>9, <2>10 DEF Next
<1>. QED
  BY <1>1, <1>2, PTL DEF Spec

\* Where callers do not register a held device anew, a pass holds every device
\* of its allocation record, whatever allocate() and release() calls interleave.
THEOREM RecordsAreSafe ==
  ASSUME ~ ReaddHeld
  PROVE  Spec => []RecordedDevicesAreHeld
<1>1. Init => RecordedDevicesAreHeld
  BY DEF Init, RecordedDevicesAreHeld
<1>2. TypeOK /\ RecordedDevicesAreHeld /\ [Next]_vars => RecordedDevicesAreHeld'
  <2> SUFFICES ASSUME TypeOK, RecordedDevicesAreHeld, [Next]_vars
               PROVE  RecordedDevicesAreHeld'
    OBVIOUS
  <2> USE PoolAssumption
  <2>1. ASSUME NEW d \in Devices, current_allocation[d] = None, AddDevice(d)
        PROVE  RecordedDevicesAreHeld'
    BY <2>1 DEF TypeOK, RecordedDevicesAreHeld, AddDevice
  <2>2. ASSUME NEW p \in Passes, NEW ids \in Requests, Allocate(p, ids)
        PROVE  RecordedDevicesAreHeld'
    <3>1. /\ Taken(ids) \subseteq Devices
          /\ \A d \in Taken(ids) : current_allocation[d] = None
      BY TakenAreFree
    <3>2. ASSUME NEW q \in Passes, NEW d \in allocations'[q]
          PROVE  current_allocation'[d] = q
      <4>1. CASE q = p
        BY <2>2, <3>1, <3>2, <4>1 DEF TypeOK, Allocate, Grant
      <4>2. CASE q # p
        <5>1. d \in allocations[q] /\ d \in Devices /\ current_allocation[d] = q
          BY <2>2, <3>2, <4>2 DEF TypeOK, Allocate, RecordedDevicesAreHeld
        <5>2. d \notin Taken(ids)
          BY <3>1, <5>1
        <5>. QED
          BY <2>2, <5>1, <5>2 DEF TypeOK, Allocate, Grant
      <4>. QED
        BY <4>1, <4>2
    <3>. QED
      BY <3>2 DEF RecordedDevicesAreHeld
  <2>3. ASSUME NEW p \in Passes, NEW ids \in Requests, AllocateFails(p, ids)
        PROVE  RecordedDevicesAreHeld'
    <3>1. \A d \in Taken(ids) : current_allocation[d] = None
      BY TakenAreFree
    <3>2. ASSUME NEW q \in Passes, NEW d \in allocations[q]
          PROVE  current_allocation'[d] = q
      <4>1. d \in Devices /\ current_allocation[d] = q
        BY <3>2 DEF TypeOK, RecordedDevicesAreHeld
      <4>. QED
        BY <2>3, <3>1, <4>1 DEF AllocateFails, Grant
    <3>. QED
      BY <2>3, <3>2 DEF RecordedDevicesAreHeld, AllocateFails
  <2>4. ASSUME NEW t \in Tasks, NEW p \in Passes, ReleaseRead(t, p)
        PROVE  RecordedDevicesAreHeld'
    BY <2>4 DEF RecordedDevicesAreHeld, ReleaseRead, deviceVars
  <2>5. ASSUME NEW t \in Tasks, ReleaseCommit(t) PROVE RecordedDevicesAreHeld'
    <3>1. ASSUME NEW q \in Passes, NEW d \in allocations'[q]
          PROVE  current_allocation'[d] = q
      <4>1. releasing[t].pass \in Passes
        BY <2>5 DEF TypeOK, ReleaseCall, ReleaseCommit
      <4>2. q # releasing[t].pass
        BY <2>5, <3>1, <4>1 DEF TypeOK, ReleaseCommit
      <4>3. d \in allocations[q] /\ d \in Devices /\ current_allocation[d] = q
        BY <2>5, <3>1, <4>1, <4>2 DEF TypeOK, ReleaseCommit, RecordedDevicesAreHeld
      <4>. QED
        BY <2>5, <4>2, <4>3 DEF TypeOK, ReleaseCommit, Freed
    <3>. QED
      BY <3>1 DEF RecordedDevicesAreHeld
  <2>6. ASSUME NEW ty \in Types, NEW n \in 1..MaxRequest, FindAvailable(ty, n)
        PROVE  RecordedDevicesAreHeld'
    BY <2>6 DEF RecordedDevicesAreHeld, FindAvailable, deviceVars
  <2>7. ASSUME NEW d \in Devices, MarkUnhealthy(d) PROVE RecordedDevicesAreHeld'
    BY <2>7 DEF RecordedDevicesAreHeld, MarkUnhealthy
  <2>8. ASSUME NEW d \in Devices, RecordSuccess(d) PROVE RecordedDevicesAreHeld'
    BY <2>8 DEF RecordedDevicesAreHeld, RecordSuccess, deviceVars
  <2>9. ASSUME NEW d \in Devices, Cooldown(d) PROVE RecordedDevicesAreHeld'
    BY <2>9 DEF RecordedDevicesAreHeld, Cooldown, deviceVars
  <2>10. CASE UNCHANGED vars
    BY <2>10 DEF RecordedDevicesAreHeld, vars, deviceVars
  <2>. QED
    BY <2>1, <2>2, <2>3, <2>4, <2>5, <2>6, <2>7, <2>8, <2>9, <2>10 DEF Next
<1>. QED
  BY <1>1, <1>2, TypeCorrect, PTL DEF Spec

\* A circuit is open or half-open exactly when its failure count has reached
\* the threshold.
THEOREM BreakersAreConsistent == Spec => []TrippedIffThreshold
<1> USE PoolAssumption
<1>1. Init => TrippedIffThreshold
  BY DEF Init, TrippedIffThreshold
<1>2. TypeOK /\ TrippedIffThreshold /\ [Next]_vars => TrippedIffThreshold'
  <2> SUFFICES ASSUME TypeOK, TrippedIffThreshold, [Next]_vars
               PROVE  TrippedIffThreshold'
    OBVIOUS
  <2>1. ASSUME NEW ty \in Types, NEW n \in 1..MaxRequest, FindAvailable(ty, n)
        PROVE  TrippedIffThreshold'
    BY <2>1 DEF TypeOK, TrippedIffThreshold, FindAvailable
  <2>2. ASSUME NEW d \in Devices, MarkUnhealthy(d) PROVE TrippedIffThreshold'
    <3>1. ASSUME NEW e \in Devices
          PROVE  (circuit'[e] # "Closed") <=> (failures'[e] >= CIRCUIT_OPEN_THRESHOLD)
      <4>1. CASE e = d
        BY <2>2, <4>1 DEF TypeOK, TrippedIffThreshold, MarkUnhealthy, RecordFailure
      <4>2. CASE e # d
        BY <2>2, <4>2 DEF TypeOK, TrippedIffThreshold, MarkUnhealthy, RecordFailure
      <4>. QED
        BY <4>1, <4>2
    <3>. QED
      BY <3>1 DEF TrippedIffThreshold
  <2>3. ASSUME NEW d \in Devices, RecordSuccess(d) PROVE TrippedIffThreshold'
    BY <2>3 DEF TypeOK, TrippedIffThreshold, RecordSuccess
  <2>4. CASE UNCHANGED <<circuit, failures>>
    BY <2>4 DEF TrippedIffThreshold
  <2>. QED
    BY <2>1, <2>2, <2>3, <2>4
    DEF Next, vars, breakerVars, AddDevice, Allocate, AllocateFails, ReleaseRead,
        ReleaseCommit, Cooldown
<1>. QED
  BY <1>1, <1>2, TypeCorrect, PTL DEF Spec

\* A device leaves a pass only by a release() of that pass that completes, or when it
\* is registered anew; a release() that read its record long ago frees nothing that
\* another pass was given since.
THEOREM DevicesLeaveByOwnRelease == Spec => LeavesOnlyByOwnRelease
<1> USE PoolAssumption
<1> DEFINE Leaves(d) ==
             current_allocation[d] \in Passes /\ current_allocation'[d] # current_allocation[d]
           Properly(d) ==
             /\ current_allocation'[d] = None
             /\ \/ ReaddHeld
                \/ \E t \in Tasks : /\ releasing[t].pass = current_allocation[d]
                                    /\ releasing'[t] = NotReleasing
<1>1. TypeOK /\ [Next]_vars => \A d \in Devices : Leaves(d) => Properly(d)
  <2> SUFFICES ASSUME TypeOK, [Next]_vars, NEW d \in Devices, Leaves(d) PROVE Properly(d)
    OBVIOUS
  <2>1. ASSUME NEW e \in Devices, ReaddHeld \/ current_allocation[e] = None, AddDevice(e)
        PROVE  Properly(d)
    BY <2>1 DEF TypeOK, AddDevice
  <2>2. ASSUME NEW p \in Passes, NEW ids \in Requests, Grant(p, Taken(ids)) PROVE FALSE
    BY <2>2, TakenAreFree DEF TypeOK, Grant
  <2>3. ASSUME NEW t \in Tasks, ReleaseCommit(t) PROVE Properly(d)
    <3>1. Freed(d, releasing[t].pass) /\ current_allocation'[d] = None
      BY <2>3 DEF TypeOK, ReleaseCommit
    <3>2. releasing'[t] = NotReleasing
      BY <2>3 DEF TypeOK, ReleaseCommit
    <3> QED BY <3>1, <3>2 DEF Freed
  <2>4. CASE UNCHANGED current_allocation
    BY <2>4
  <2> QED
    BY <2>1, <2>2, <2>3, <2>4
    DEF Next, vars, deviceVars, Allocate, AllocateFails, ReleaseRead, FindAvailable, MarkUnhealthy,
        RecordSuccess, Cooldown
<1> QED BY <1>1, TypeCorrect, PTL DEF Spec, LeavesOnlyByOwnRelease

-----------------------------------------------------------------------------
(* The acquisition of a pass *)

\* What a failover relies on: until the shadow has been promoted no committed sample
\* is missing and the latest snapshot holds everything before the sample it was taken
\* at; the snapshot manager's counter names the latest snapshot and is less than an
\* interval behind.
AcquisitionIInv ==
  /\ AcquisitionTypeOK
  /\ shadow_active = shadow
  /\ shadow => primary_state = 1..last_committed_sample /\ shadow_state = primary_state
  /\ Cardinality(Lost) <= snapshot_interval_samples
  /\ last_snapshot_sample <= last_committed_sample
  /\ last_committed_sample - last_snapshot_sample < snapshot_interval_samples
  /\ snapshots = <<>> => last_snapshot_sample = 0
  /\ snapshots # <<>> =>
       LET latest == snapshots[Len(snapshots)] IN
       /\ latest.sample_id = last_snapshot_sample
       /\ shadow => latest.state = 1..(last_snapshot_sample - 1)

\* add_snapshot() keeps the newest, however many have to go.
LEMMA NewestIsKept ==
  ASSUME AcquisitionTypeOK, NEW new \in [sample_id : Sample, state : SUBSET Sample]
  PROVE  LET kept == AddSnapshot(new) IN
         /\ kept \in Seq([sample_id : Sample, state : SUBSET Sample])
         /\ Len(kept) <= max_snapshots
         /\ kept # <<>>
         /\ kept[Len(kept)] = new
<1> DEFINE Snapshot == [sample_id : Sample, state : SUBSET Sample]
           n == Len(snapshots)
           all == Append(snapshots, new)
<1>1. snapshots \in Seq(Snapshot) /\ new \in Snapshot /\ n \in Nat /\ n <= max_snapshots
  BY DEF AcquisitionTypeOK
<1> HIDE DEF Snapshot
<1>2. all \in Seq(Snapshot) /\ Len(all) = n + 1 /\ all[n + 1] = new
  BY <1>1
<1> HIDE DEF n, all
<1>3. CASE n + 1 > max_snapshots
  <2>1. AddSnapshot(new) = Tail(all)
    BY <1>2, <1>3 DEF AddSnapshot, all
  <2>2. n \in Nat /\ n >= 1
    BY <1>1, <1>3, AcquisitionAssumption
  <2>3. Tail(all) \in Seq(Snapshot) /\ Len(Tail(all)) = n /\ Tail(all)[n] = all[n + 1]
    BY <1>2, <2>2
  <2>4. Tail(all) # <<>>
    BY <2>2, <2>3
  <2> QED BY <1>1, <1>2, <2>1, <2>3, <2>4 DEF Snapshot
<1>4. CASE ~ (n + 1 > max_snapshots)
  <2>1. AddSnapshot(new) = all
    BY <1>2, <1>4 DEF AddSnapshot, all
  <2>2. all # <<>> /\ Len(all) <= max_snapshots
    BY <1>1, <1>2, <1>4, AcquisitionAssumption
  <2> QED BY <1>2, <2>1, <2>2 DEF Snapshot
<1> QED BY <1>3, <1>4

LEMMA SamplePreserves ==
  ASSUME AcquisitionIInv, last_committed_sample < MaxSamples,
         ProcessPrimarySample(last_committed_sample + 1)
  PROVE  AcquisitionIInv'
<1> DEFINE s == last_committed_sample + 1
           Snapshot == [sample_id : Sample, state : SUBSET Sample]
<1> USE AcquisitionAssumption
<1>1. s \in Sample /\ last_committed_sample \in Nat /\ last_snapshot_sample \in Nat
  BY DEF AcquisitionIInv, AcquisitionTypeOK, Sample
<1>2. /\ primary_state' = primary_state \cup {s}
      /\ last_committed_sample' = s
      /\ primary_up' = primary_up /\ shadow' = shadow /\ shadow_active' = shadow_active
      /\ shadow_state' = IF shadow_active THEN primary_state \cup {s} ELSE shadow_state
  BY DEF ProcessPrimarySample, ProcessSample, Synced
<1>3. /\ primary_up' \in BOOLEAN /\ shadow' \in BOOLEAN /\ shadow_active' \in BOOLEAN
      /\ primary_state' \in SUBSET Sample /\ shadow_state' \in SUBSET Sample
      /\ last_committed_sample' \in 0..MaxSamples
  BY <1>1, <1>2 DEF AcquisitionIInv, AcquisitionTypeOK, Sample
<1>4. 1..s = (1..last_committed_sample) \cup {s}
  BY <1>1
<1>5. shadow' => primary_state' = 1..last_committed_sample' /\ shadow_state' = primary_state'
  BY <1>2, <1>4 DEF AcquisitionIInv
<1>6. Lost' = Lost
  <2>1. s \notin 1..last_committed_sample
    BY <1>1
  <2> QED BY <1>2, <1>4, <2>1 DEF Lost
<1>7. Cardinality(Lost') <= snapshot_interval_samples
  BY <1>6, Zenon DEF AcquisitionIInv
<1>8. CASE ShouldSnapshot(s)
  <2> DEFINE new == Capture(primary_state, s)
  <2>1. snapshots' = AddSnapshot(new) /\ last_snapshot_sample' = s
    BY <1>8 DEF ProcessPrimarySample, CaptureIfNeeded
  <2>2. new \in Snapshot /\ new.sample_id = s /\ new.state = primary_state
    BY <1>1 DEF Capture, AcquisitionIInv, AcquisitionTypeOK
  <2>3. /\ snapshots' \in Seq(Snapshot) /\ Len(snapshots') <= max_snapshots
        /\ snapshots' # <<>> /\ snapshots'[Len(snapshots')] = new
    BY <2>1, <2>2, NewestIsKept DEF AcquisitionIInv
  <2>4. last_snapshot_sample' - 1 = last_committed_sample
    BY <1>1, <2>1
  <2>5. /\ last_snapshot_sample' \in 0..MaxSamples
        /\ last_snapshot_sample' <= last_committed_sample'
        /\ last_committed_sample' - last_snapshot_sample' < snapshot_interval_samples
    BY <1>1, <1>2, <1>3, <2>1
  <2>6. shadow' => new.state = 1..(last_snapshot_sample' - 1)
    BY <1>2, <2>2, <2>4 DEF AcquisitionIInv
  <2> HIDE DEF new, s
  <2> QED BY <1>2, <1>3, <1>5, <1>7, <2>1, <2>2, <2>3, <2>5, <2>6 DEF AcquisitionIInv, AcquisitionTypeOK
<1>9. CASE ~ ShouldSnapshot(s)
  <2>1. snapshots' = snapshots /\ last_snapshot_sample' = last_snapshot_sample
    BY <1>9 DEF ProcessPrimarySample, CaptureIfNeeded
  <2>2. s - last_snapshot_sample < snapshot_interval_samples /\ last_snapshot_sample <= s
    BY <1>1, <1>9 DEF ShouldSnapshot, AcquisitionIInv
  <2> HIDE DEF s
  <2> QED BY <1>2, <1>3, <1>5, <1>7, <2>1, <2>2 DEF AcquisitionIInv, AcquisitionTypeOK
<1> QED BY <1>8, <1>9

LEMMA PromotionPreserves == ASSUME AcquisitionIInv, PromoteShadow PROVE AcquisitionIInv'
<1> DEFINE c == last_committed_sample
           l == last_snapshot_sample
<1> USE AcquisitionAssumption
<1>1. /\ c \in Nat /\ l \in Nat /\ l <= c /\ c - l < snapshot_interval_samples
  BY DEF AcquisitionIInv, AcquisitionTypeOK
<1>2. /\ shadow /\ shadow' = FALSE /\ primary_up' = TRUE /\ shadow_active' = FALSE
      /\ UNCHANGED <<shadow_state, last_committed_sample, snapshots, last_snapshot_sample>>
      /\ primary_state' = IF snapshots = <<>> THEN primary_state ELSE Restored
  BY DEF PromoteShadow
<1>3. CASE snapshots = <<>>
  <2>1. primary_state' = primary_state /\ Lost' = Lost
    BY <1>2, <1>3 DEF Lost
  <2>2. Cardinality(Lost') <= snapshot_interval_samples
    BY <2>1, Zenon DEF AcquisitionIInv
  <2> QED BY <1>2, <2>1, <2>2 DEF AcquisitionIInv, AcquisitionTypeOK
<1>4. CASE snapshots # <<>>
  <2>1. primary_state' = 1..(l - 1)
    BY <1>2, <1>4 DEF Restored, AcquisitionIInv
  <2>2. primary_state' \in SUBSET Sample
    BY <1>1, <2>1 DEF Sample, AcquisitionIInv, AcquisitionTypeOK
  <2>3. Lost' \in SUBSET (l..c)
    BY <1>1, <1>2, <2>1 DEF Lost
  <2>4. IsFiniteSet(l..c) /\ Cardinality(l..c) = c - l + 1
    BY <1>1, FS_Interval
  <2>5. IsFiniteSet(Lost') /\ Cardinality(Lost') <= Cardinality(l..c)
    BY <2>3, <2>4, FS_Subset
  <2>6. Cardinality(Lost') \in Nat
    BY <2>5, FS_CardinalityType
  <2>7. Cardinality(Lost') <= snapshot_interval_samples
    BY <1>1, <2>4, <2>5, <2>6
  <2> QED BY <1>2, <2>2, <2>7 DEF AcquisitionIInv, AcquisitionTypeOK
<1> QED BY <1>3, <1>4

LEMMA InitAcquisition == AcquisitionInit => AcquisitionIInv
<1> USE AcquisitionAssumption
<1> SUFFICES ASSUME AcquisitionInit PROVE AcquisitionIInv
  OBVIOUS
<1>1. 1..0 = {} /\ Lost = {}
  BY DEF AcquisitionInit, Lost
<1>2. Cardinality(Lost) = 0
  BY <1>1, FS_EmptySet, Zenon
<1>3. AcquisitionTypeOK
  BY DEF AcquisitionInit, AcquisitionTypeOK
<1> QED BY <1>1, <1>2, <1>3 DEF AcquisitionInit, AcquisitionIInv

LEMMA AcquisitionPreserves == AcquisitionIInv /\ [AcquisitionNext]_acquisitionVars => AcquisitionIInv'
<1> SUFFICES ASSUME AcquisitionIInv, [AcquisitionNext]_acquisitionVars PROVE AcquisitionIInv'
  OBVIOUS
<1>1. CASE PrimaryFails \/ UNCHANGED acquisitionVars
  <2>1. /\ UNCHANGED <<shadow, shadow_active, primary_state, shadow_state,
                       last_committed_sample, snapshots, last_snapshot_sample>>
        /\ primary_up' \in BOOLEAN
    BY <1>1 DEF PrimaryFails, acquisitionVars, AcquisitionIInv, AcquisitionTypeOK
  <2>2. Lost' = Lost
    BY <2>1 DEF Lost
  <2>3. Cardinality(Lost') <= snapshot_interval_samples
    BY <2>2, Zenon DEF AcquisitionIInv
  <2> QED BY <2>1, <2>3 DEF AcquisitionIInv, AcquisitionTypeOK
<1> QED BY <1>1, SamplePreserves, PromotionPreserves DEF AcquisitionNext

\* A failover is safe at any moment, for any interval, any number of snapshots kept
\* and any length of pass: the shadow is in step with the primary, a promotion costs
\* the samples of one interval at most and nothing else costs any, and the snapshot it
\* starts from is never older than that.
THEOREM FailoverStaysSafe == AcquisitionSpec => []FailoverIsSafe
<1>1. AcquisitionIInv => FailoverIsSafe
  <2> SUFFICES ASSUME AcquisitionIInv PROVE FailoverIsSafe
    OBVIOUS
  <2>1. ShadowInSync /\ LossIsBounded
    BY DEF AcquisitionIInv, ShadowInSync, LossIsBounded, Lost
  <2>2. LatestIsRecent
    BY AcquisitionAssumption DEF AcquisitionIInv, AcquisitionTypeOK, LatestIsRecent
  <2> QED BY <2>1, <2>2 DEF FailoverIsSafe
<1> QED BY <1>1, InitAcquisition, AcquisitionPreserves, PTL DEF AcquisitionSpec

-----------------------------------------------------------------------------
(* The ring buffer of a pass shard *)

\* A slot before the end of the block is where it is, one past it wraps around once.
LEMMA SlotWraps ==
  ASSUME NEW from \in 0..(Capacity - 1), NEW i \in 0..Capacity
  PROVE  /\ Slot(from, i) = IF from + i < Capacity THEN from + i ELSE from + i - Capacity
         /\ Slot(from, i) \in 0..(Capacity - 1)
<1> DEFINE x == from + i
           q == x \div Capacity
           r == x % Capacity
<1>1. /\ Capacity \in Nat /\ Capacity > 0 /\ from \in Nat /\ i \in Nat
      /\ x \in Nat /\ x < 2 * Capacity /\ i <= Capacity
  BY RingAssumption
<1>2. x = Capacity * q + r /\ r \in 0..(Capacity - 1) /\ q \in Int
  BY <1>1
<1> HIDE DEF q, r
<1>3. q = 0 \/ q = 1
  BY <1>1, <1>2
<1>4. r = IF x < Capacity THEN x ELSE x - Capacity
  BY <1>1, <1>2, <1>3
<1>5. Slot(from, i) = r
  BY Zenon DEF Slot, r
<1>6. r = (IF from + i < Capacity THEN from + i ELSE from + i - Capacity)
  BY <1>1, <1>4
<1> QED BY <1>2, <1>5, <1>6

\* What the two counts of the buffer amount to: one slot is never used.
LEMMA RoomAndUse ==
  ASSUME RingTypeOK
  PROVE  /\ Used \in 0..(Capacity - 1)
         /\ Available = Capacity - 1 - Used
         /\ Available \in 0..(Capacity - 1)
         /\ Slot(tail, Used) = head
<1> USE RingAssumption
<1>1. head \in 0..(Capacity - 1) /\ tail \in 0..(Capacity - 1)
  BY DEF RingTypeOK
<1>2. /\ Used \in 0..(Capacity - 1) /\ Used \in 0..Capacity
      /\ Available = Capacity - 1 - Used
      /\ Available \in 0..(Capacity - 1)
  BY <1>1 DEF Used, Available
<1>3. Slot(tail, Used) = IF tail + Used < Capacity THEN tail + Used ELSE tail + Used - Capacity
  BY <1>1, <1>2, SlotWraps
<1>4. Slot(tail, Used) = head
  BY <1>1, <1>3 DEF Used
<1> QED BY <1>2, <1>4

LEMMA SmallerOfTwo ==
  ASSUME NEW a \in Int, NEW b \in Int
  PROVE  Min({a, b}) = IF a <= b THEN a ELSE b
  BY DEF Min

LEMMA GreatestOfOne ==
  ASSUME NEW a \in Int
  PROVE  Max({a}) = a
  BY DEF Max

\* What write() puts into the block: the samples that fit, one per slot from the head
\* on; every other slot keeps its sample.
LEMMA WrittenSlots ==
  ASSUME RingTypeOK, NEW burst \in Bursts, Write(burst),
         NEW count, count = Min({Len(burst), Available})
  PROVE  /\ count \in 0..Available /\ count <= Len(burst)
         /\ \A i \in 0..(count - 1) : buffer'[Slot(head, i)] = burst[i + 1]
         /\ \A k \in 0..(Capacity - 1) :
              (\A i \in 0..(count - 1) : Slot(head, i) # k) => buffer'[k] = buffer[k]
         /\ buffer' \in [0..(Capacity - 1) -> Samples]
<1> USE RingAssumption
<1> DEFINE Hits(k) == {i \in 0..(count - 1) : Slot(head, i) = k}
<1>1. PICK n \in 0..MaxBurst : burst \in [1..n -> Samples]
  BY DEF Bursts
<1>2. Len(burst) = n /\ n \in Nat /\ DOMAIN burst = 1..n
  BY <1>1
<1>3. head \in 0..(Capacity - 1) /\ Available \in 0..(Capacity - 1) /\ buffer \in [0..(Capacity - 1) -> Samples]
  BY RoomAndUse DEF RingTypeOK
<1>4. count \in 0..Available /\ count <= n /\ count \in 0..(Capacity - 1)
  BY <1>2, <1>3, SmallerOfTwo
<1>5. buffer' = [k \in 0..(Capacity - 1) |-> IF Hits(k) = {} THEN buffer[k] ELSE burst[Max(Hits(k)) + 1]]
  BY <1>3 DEF Write
<1>6. ASSUME NEW i \in 0..(count - 1)
      PROVE  /\ Slot(head, i) \in 0..(Capacity - 1)
             /\ buffer'[Slot(head, i)] = burst[i + 1]
             /\ burst[i + 1] \in Samples
  <2>1. i \in 0..Capacity /\ i \in Int
    BY <1>3, <1>4
  <2>2. \A j \in 0..(count - 1) : j \in 0..Capacity /\ (Slot(head, j) = Slot(head, i) => j = i)
    <3> SUFFICES ASSUME NEW j \in 0..(count - 1)
                 PROVE  j \in 0..Capacity /\ (Slot(head, j) = Slot(head, i) => j = i)
      OBVIOUS
    <3>1. j \in 0..Capacity
      BY <1>4
    <3>2. Slot(head, j) = IF head + j < Capacity THEN head + j ELSE head + j - Capacity
      BY <1>3, <3>1, SlotWraps
    <3>3. Slot(head, i) = IF head + i < Capacity THEN head + i ELSE head + i - Capacity
      BY <1>3, <2>1, SlotWraps
    <3> QED BY <1>3, <1>4, <3>1, <3>2, <3>3
  <2>3. Hits(Slot(head, i)) = {i}
    BY <2>2
  <2>4. Max(Hits(Slot(head, i))) = i
    BY <2>1, <2>3, GreatestOfOne, Zenon
  <2>5. Slot(head, i) \in 0..(Capacity - 1) /\ i + 1 \in 1..n
    <3>1. Slot(head, i) \in 0..(Capacity - 1)
      BY <1>3, <2>1, SlotWraps
    <3> QED BY <1>2, <1>4, <2>1, <3>1
  <2>6. Hits(Slot(head, i)) # {}
    BY <2>3
  <2> HIDE DEF Hits
  <2> QED BY <1>1, <1>5, <2>4, <2>5, <2>6
<1>7. ASSUME NEW k \in 0..(Capacity - 1), \A i \in 0..(count - 1) : Slot(head, i) # k
      PROVE  buffer'[k] = buffer[k]
  <2>1. Hits(k) = {}
    BY <1>7
  <2> HIDE DEF Hits
  <2> QED BY <1>5, <2>1
<1>8. \A k \in 0..(Capacity - 1) : buffer'[k] \in Samples
  BY <1>3, <1>6, <1>7
<1>9. buffer' \in [0..(Capacity - 1) -> Samples]
  <2> HIDE DEF Hits
  <2> QED BY <1>5, <1>8
<1> QED BY <1>2, <1>4, <1>6, <1>7, <1>9

\* The indexes after either call: the head or the tail has gone on by the count.
LEMMA UsedAfterWrite ==
  ASSUME RingTypeOK, NEW count \in 0..Available,
         head' = Slot(head, count), tail' = tail
  PROVE  head' \in 0..(Capacity - 1) /\ Used' = Used + count
<1> USE RingAssumption
<1>1. /\ head \in 0..(Capacity - 1) /\ tail \in 0..(Capacity - 1)
      /\ Available \in 0..(Capacity - 1)
  BY RoomAndUse DEF RingTypeOK
<1>2. count \in 0..Capacity /\ count <= Available
  BY <1>1
<1>3. /\ head' = IF head + count < Capacity THEN head + count ELSE head + count - Capacity
      /\ head' \in 0..(Capacity - 1)
  BY <1>1, <1>2, SlotWraps
<1> QED BY <1>1, <1>2, <1>3 DEF Used, Available

\* A read of count samples leaves count fewer in use, across the wrap.
LEMMA UsedAfterRead ==
  ASSUME RingTypeOK, NEW count \in 0..Used,
         tail' = Slot(tail, count), head' = head
  PROVE  tail' \in 0..(Capacity - 1) /\ Used' = Used - count
<1> USE RingAssumption
<1>1. /\ head \in 0..(Capacity - 1) /\ tail \in 0..(Capacity - 1)
      /\ Used \in 0..(Capacity - 1)
  BY RoomAndUse DEF RingTypeOK
<1>2. count \in 0..Capacity /\ count <= Used
  BY <1>1
<1>3. /\ tail' = IF tail + count < Capacity THEN tail + count ELSE tail + count - Capacity
      /\ tail' \in 0..(Capacity - 1)
  BY <1>1, <1>2, SlotWraps
<1> QED BY <1>1, <1>2, <1>3 DEF Used

\* The content of the ring is read off from the tail, one sample per slot in use.
LEMMA ContentsAreASequence ==
  ASSUME RingTypeOK
  PROVE  /\ Contents \in Seq(Samples) /\ Len(Contents) = Used
         /\ \A i \in 1..Used : Contents[i] = buffer[Slot(tail, i - 1)]
<1> DEFINE f(i) == buffer[Slot(tail, i - 1)]
<1> USE RingAssumption
<1>1. Used \in Nat /\ Used < Capacity
  BY RoomAndUse
<1>2. ASSUME NEW i \in 1..Used PROVE f(i) \in Samples
  <2>1. i - 1 \in 0..Capacity /\ tail \in 0..(Capacity - 1)
    BY <1>1 DEF RingTypeOK
  <2>2. Slot(tail, i - 1) \in 0..(Capacity - 1)
    BY <2>1, SlotWraps
  <2> QED BY <2>2 DEF RingTypeOK
<1>3. Contents = [i \in 1..Used |-> f(i)]
  BY DEF Contents
<1> HIDE DEF f
<1>4. /\ Contents \in Seq(Samples) /\ Len(Contents) = Used
      /\ \A i \in 1..Used : Contents[i] = f(i)
  BY <1>1, <1>2, <1>3
<1> QED BY <1>4 DEF f

\* A write appends to the queue what there is room for.
LEMMA WriteAppends ==
  ASSUME RingTypeOK, RingTypeOK', NEW burst \in Bursts, Write(burst)
  PROVE  Fifo!Write(burst)
<1> DEFINE count == Min({Len(burst), Available})
           sent == SubSeq(burst, 1, count)
<1> USE RingAssumption
<1>1. PICK n \in 0..MaxBurst : burst \in [1..n -> Samples]
  BY DEF Bursts
<1>2. Len(burst) = n /\ n \in Nat /\ burst \in Seq(Samples)
  BY <1>1
<1>3. /\ Used \in 0..(Capacity - 1) /\ Available = Capacity - 1 - Used
      /\ Available \in 0..(Capacity - 1) /\ Slot(tail, Used) = head
      /\ head \in 0..(Capacity - 1) /\ tail \in 0..(Capacity - 1)
  BY RoomAndUse DEF RingTypeOK
<1>4. /\ count \in 0..Available /\ count <= Len(burst)
      /\ \A i \in 0..(count - 1) : buffer'[Slot(head, i)] = burst[i + 1]
      /\ \A k \in 0..(Capacity - 1) :
           (\A i \in 0..(count - 1) : Slot(head, i) # k) => buffer'[k] = buffer[k]
  BY WrittenSlots
<1>5. head' = Slot(head, count) /\ tail' = tail /\ delivered' = delivered
  BY DEF Write
<1>6. count = Fifo!Min({Len(burst), Capacity - 1 - Len(Contents)})
  BY <1>3, ContentsAreASequence, Zenon DEF Min, Fifo!Min
<1> HIDE DEF count
<1>7. Used' = Used + count
  BY <1>4, <1>5, UsedAfterWrite
<1>8. sent \in Seq(Samples) /\ Len(sent) = count /\ \A i \in 1..count : sent[i] = burst[i]
  BY <1>2, <1>3, <1>4
<1> HIDE DEF sent
<1>9. /\ Contents \in Seq(Samples) /\ Len(Contents) = Used
      /\ \A i \in 1..Used : Contents[i] = buffer[Slot(tail, i - 1)]
  BY ContentsAreASequence
<1>10. Contents' = [i \in 1..(Used + count) |-> buffer'[Slot(tail, i - 1)]]
  BY <1>5, <1>7 DEF Contents, Slot
<1>11. ASSUME NEW i \in 1..(Used + count)
       PROVE  buffer'[Slot(tail, i - 1)] = (Contents \o sent)[i]
  <2>1. i \in Nat /\ i - 1 \in 0..Capacity /\ count \in Nat /\ Used \in Nat
    BY <1>3, <1>4
  <2>2. /\ Slot(tail, i - 1) = IF tail + (i - 1) < Capacity THEN tail + (i - 1) ELSE tail + (i - 1) - Capacity
        /\ Slot(tail, i - 1) \in 0..(Capacity - 1)
    BY <1>3, <2>1, SlotWraps
  <2>3. head = IF tail + Used < Capacity THEN tail + Used ELSE tail + Used - Capacity
    <3>1. Used \in 0..Capacity
      BY <1>3
    <3> QED BY <1>3, <3>1, SlotWraps
  <2>4. \A j \in 0..(count - 1) :
          Slot(head, j) = IF head + j < Capacity THEN head + j ELSE head + j - Capacity
    <3> SUFFICES ASSUME NEW j \in 0..(count - 1)
                 PROVE  Slot(head, j) = IF head + j < Capacity THEN head + j ELSE head + j - Capacity
      OBVIOUS
    <3>1. j \in 0..Capacity
      BY <1>3, <1>4
    <3> QED BY <1>3, <3>1, SlotWraps
  <2>5. CASE i <= Used
    <3>1. \A j \in 0..(count - 1) : Slot(head, j) # Slot(tail, i - 1)
      <4> SUFFICES ASSUME NEW j \in 0..(count - 1) PROVE Slot(head, j) # Slot(tail, i - 1)
        OBVIOUS
      <4> DEFINE free == Slot(head, j)
                 slot == Slot(tail, i - 1)
      <4>1. free = IF head + j < Capacity THEN head + j ELSE head + j - Capacity
        BY <2>4
      <4>2. slot = IF tail + (i - 1) < Capacity THEN tail + (i - 1) ELSE tail + (i - 1) - Capacity
        BY <2>2
      <4>3. j \in Nat /\ j + Used < Capacity
        BY <1>3, <1>4, <2>1
      <4> HIDE DEF free, slot
      <4>4. free # slot
        BY <1>3, <2>1, <2>3, <2>5, <4>1, <4>2, <4>3
      <4> QED BY <4>4 DEF free, slot
    <3>2. buffer'[Slot(tail, i - 1)] = buffer[Slot(tail, i - 1)]
      BY <1>4, <2>2, <3>1
    <3>3. (Contents \o sent)[i] = Contents[i]
      BY <1>8, <1>9, <2>1, <2>5
    <3> QED BY <1>9, <2>1, <2>5, <3>2, <3>3
  <2>6. CASE i > Used
    <3> DEFINE j == i - Used - 1
    <3>1. j \in 0..(count - 1) /\ j + 1 = i - Used
      BY <2>1, <2>6
    <3>2. Slot(head, j) = Slot(tail, i - 1)
      BY <1>3, <1>4, <2>1, <2>2, <2>3, <2>4, <2>6, <3>1, SMTT(20)
    <3>3. (Contents \o sent)[i] = sent[j + 1]
      BY <1>8, <1>9, <2>1, <2>6, <3>1
    <3>4. sent[j + 1] = burst[j + 1]
      BY <1>8, <2>1, <3>1
    <3> HIDE DEF j
    <3> QED BY <1>4, <3>1, <3>2, <3>3, <3>4
  <2>7. i <= Used \/ i > Used
    BY <2>1
  <2> QED BY <2>5, <2>6, <2>7, Zenon
<1>12. Contents' = Contents \o sent
  <2>1. Contents \o sent = [i \in 1..(Used + count) |-> (Contents \o sent)[i]]
    <3> DEFINE both == Contents \o sent
    <3>1. both \in Seq(Samples) /\ Len(both) = Len(Contents) + Len(sent)
      BY <1>8, <1>9, ConcatProperties
    <3>2. Len(both) = Used + count
      BY <1>8, <1>9, <3>1
    <3> HIDE DEF both
    <3>3. both = [i \in 1..(Used + count) |-> both[i]]
      BY <3>1, <3>2
    <3> QED BY <3>3 DEF both
  <2> QED BY <1>10, <1>11, <2>1
<1> QED BY <1>5, <1>6, <1>12 DEF Fifo!Write, sent

\* A read delivers the oldest samples and keeps the others.
LEMMA ReadDelivers ==
  ASSUME RingTypeOK, RingTypeOK', NEW n \in 0..MaxBurst, Read(n)
  PROVE  Fifo!Read(n)
<1> DEFINE count == Min({n, Used})
<1> USE RingAssumption
<1>1. Used \in 0..(Capacity - 1) /\ tail \in 0..(Capacity - 1) /\ n \in Nat
  BY RoomAndUse DEF RingTypeOK
<1>2. count \in 0..Used
  BY <1>1, SmallerOfTwo
<1>3. count = Fifo!Min({n, Len(Contents)})
  BY ContentsAreASequence, Zenon DEF Min, Fifo!Min
<1>4. /\ delivered' = [i \in 1..count |-> buffer[Slot(tail, i - 1)]]
      /\ tail' = Slot(tail, count) /\ head' = head /\ buffer' = buffer
  BY DEF Read
<1> HIDE DEF count
<1>5. Used' = Used - count
  BY <1>2, <1>4, UsedAfterRead
<1>6. /\ Contents \in Seq(Samples) /\ Len(Contents) = Used
      /\ \A i \in 1..Used : Contents[i] = buffer[Slot(tail, i - 1)]
  BY ContentsAreASequence
<1>7. delivered' = SubSeq(Contents, 1, count)
  <2>1. SubSeq(Contents, 1, count) = [i \in 1..count |-> Contents[i]]
    BY <1>1, <1>2, <1>6
  <2>2. \A i \in 1..count : Contents[i] = buffer[Slot(tail, i - 1)]
    BY <1>1, <1>2, <1>6
  <2> QED BY <1>4, <2>1, <2>2
<1>8. Contents' = [i \in 1..(Used - count) |-> buffer[Slot(tail', i - 1)]]
  BY <1>4, <1>5 DEF Contents, Slot
<1>9. ASSUME NEW i \in 1..(Used - count)
      PROVE  buffer[Slot(tail', i - 1)] = Contents[i + count]
  <2>1. i \in Nat /\ i - 1 \in 0..Capacity /\ count \in 0..Capacity /\ i + count \in 1..Used
    BY <1>1, <1>2
  <2>2. /\ tail' = IF tail + count < Capacity THEN tail + count ELSE tail + count - Capacity
        /\ tail' \in 0..(Capacity - 1)
    BY <1>1, <1>4, <2>1, SlotWraps
  <2>3. Slot(tail', i - 1) = IF tail' + (i - 1) < Capacity THEN tail' + (i - 1) ELSE tail' + (i - 1) - Capacity
    BY <2>1, <2>2, SlotWraps
  <2>4. i + count - 1 \in 0..Capacity
    BY <1>1, <1>2, <2>1
  <2>5. Slot(tail, i + count - 1) =
          IF tail + (i + count - 1) < Capacity THEN tail + (i + count - 1) ELSE tail + (i + count - 1) - Capacity
    BY <1>1, <2>4, SlotWraps
  <2> DEFINE slot == Slot(tail', i - 1)
             other == Slot(tail, i + count - 1)
             next == tail'
             first == tail
  <2>6. /\ slot = IF next + (i - 1) < Capacity THEN next + (i - 1) ELSE next + (i - 1) - Capacity
        /\ other = IF first + (i + count - 1) < Capacity THEN first + (i + count - 1)
                   ELSE first + (i + count - 1) - Capacity
        /\ next = IF first + count < Capacity THEN first + count ELSE first + count - Capacity
        /\ first \in 0..(Capacity - 1) /\ next \in 0..(Capacity - 1)
        /\ i + count <= Capacity /\ i \in Nat /\ i # 0
    BY <1>1, <2>1, <2>2, <2>3, <2>5
  <2> HIDE DEF slot, other, next, first
  <2>7. slot = other
    BY <1>2, <2>1, <2>6
  <2> QED BY <1>6, <2>1, <2>7 DEF slot, other
<1>10. Contents' = SubSeq(Contents, count + 1, Len(Contents))
  <2>1. SubSeq(Contents, count + 1, Len(Contents)) = [i \in 1..(Used - count) |-> Contents[i + count]]
    BY <1>1, <1>2, <1>6
  <2> QED BY <1>8, <1>9, <2>1
<1> QED BY <1>3, <1>7, <1>10 DEF Fifo!Read

\* The indexes never leave the block, whatever the bursts.
THEOREM RingTypeCorrect == RingSpec => []RingTypeOK
<1> USE RingAssumption
<1>1. RingInit => RingTypeOK
  BY DEF RingInit, RingTypeOK
<1>2. RingTypeOK /\ [RingNext]_ringVars => RingTypeOK'
  <2> SUFFICES ASSUME RingTypeOK, [RingNext]_ringVars PROVE RingTypeOK'
    OBVIOUS
  <2>1. ASSUME NEW burst \in Bursts, Write(burst) PROVE RingTypeOK'
    <3> DEFINE count == Min({Len(burst), Available})
    <3>1. count \in 0..Available /\ buffer' \in [0..(Capacity - 1) -> Samples]
      BY <2>1, WrittenSlots
    <3>2. head' = Slot(head, count) /\ tail' = tail
      BY <2>1 DEF Write
    <3> HIDE DEF count
    <3>3. head' \in 0..(Capacity - 1)
      BY <3>1, <3>2, UsedAfterWrite
    <3> QED BY <3>1, <3>2, <3>3 DEF RingTypeOK
  <2>2. ASSUME NEW n \in 0..MaxBurst, Read(n) PROVE RingTypeOK'
    <3> DEFINE count == Min({n, Used})
    <3>1. Used \in Nat /\ n \in Nat
      BY RoomAndUse
    <3>2. count \in 0..Used
      BY <3>1, SmallerOfTwo
    <3>3. tail' = Slot(tail, count) /\ head' = head /\ buffer' = buffer
      BY <2>2 DEF Read
    <3> HIDE DEF count
    <3>4. tail' \in 0..(Capacity - 1)
      BY <3>2, <3>3, UsedAfterRead
    <3> QED BY <3>3, <3>4 DEF RingTypeOK
  <2>3. CASE UNCHANGED ringVars
    BY <2>3 DEF ringVars, RingTypeOK
  <2> QED BY <2>1, <2>2, <2>3 DEF RingNext
<1> QED BY <1>1, <1>2, PTL DEF RingSpec

\* The ring buffer implements the queue it stands for, for every capacity and every
\* burst: across the wraps of the two indexes no sample is lost, repeated, overwritten
\* before it is read or delivered out of order.
THEOREM RingImplementsFifo == RingSpec => ImplementsFifo
<1> USE RingAssumption
<1>1. RingInit => Fifo!Init
  <2> SUFFICES ASSUME RingInit PROVE Fifo!Init
    OBVIOUS
  <2>1. Used = 0
    BY DEF RingInit, Used
  <2>2. Contents = <<>>
    BY <2>1 DEF Contents
  <2> QED BY <2>2 DEF RingInit, Fifo!Init
<1>2. RingTypeOK /\ RingTypeOK' /\ [RingNext]_ringVars => [Fifo!Next]_<<Contents, delivered>>
  <2> SUFFICES ASSUME RingTypeOK, RingTypeOK', [RingNext]_ringVars
               PROVE  [Fifo!Next]_<<Contents, delivered>>
    OBVIOUS
  <2>1. Bursts = Fifo!Bursts
    BY DEF Bursts, Fifo!Bursts
  <2>2. ASSUME NEW burst \in Bursts, Write(burst) PROVE Fifo!Next
    BY <2>1, <2>2, WriteAppends DEF Fifo!Next
  <2>3. ASSUME NEW n \in 0..MaxBurst, Read(n) PROVE Fifo!Next
    BY <2>3, ReadDelivers DEF Fifo!Next
  <2>4. CASE UNCHANGED ringVars
    BY <2>4 DEF ringVars, Contents, Used, Slot
  <2> QED BY <2>2, <2>3, <2>4 DEF RingNext
<1> QED BY <1>1, <1>2, RingTypeCorrect, PTL DEF RingSpec, ImplementsFifo, Fifo!Spec

-----------------------------------------------------------------------------
(* Reputations.  What update_utilization() makes of a reputation rises with the    *)
(* utilization and with what it was; over a whole course of grants that follows at *)
(* the first grant where it would fail, hence the course belongs to the invariant. *)

LEMMA GreaterOfTwo ==
  ASSUME NEW a \in Int, NEW b \in Int
  PROVE  Max({a, b}) = IF a >= b THEN a ELSE b
  BY DEF Max

LEMMA DivisionKeepsOrder ==
  ASSUME NEW a \in Nat, NEW b \in Nat, a <= b, NEW d \in Nat \ {0}
  PROVE  a \div d \in Nat /\ b \div d \in Nat /\ a \div d <= b \div d
<1> DEFINE p == a \div d
           q == b \div d
<1>1. p \in Nat /\ d * p <= a /\ a < d * p + d
  OBVIOUS
<1>2. q \in Nat /\ d * q <= b /\ b < d * q + d
  OBVIOUS
<1> HIDE DEF p, q
<1>3. p <= q
  <2> SUFFICES ASSUME q + 1 <= p PROVE FALSE
    BY <1>1, <1>2
  <2>1. (q + 1) * d <= p * d
    BY <1>1, <1>2, ProductsKeepOrder
  <2>2. (q + 1) * d = d * q + d /\ p * d = d * p /\ d * q \in Nat /\ d * p \in Nat
    BY <1>1, <1>2
  <2> QED BY <1>1, <1>2, <2>1, <2>2
<1> QED BY <1>1, <1>2, <1>3 DEF p, q

Half == Scale \div 2
Smoothed(utilization, history) == (utilization + 9 * history) \div 10
Weighed(history, reputation) ==
  IF 10 * history > 8 * Scale THEN Min({(9 * reputation + Scale) \div 10, Scale})
  ELSE IF 2 * history < Scale THEN Max({(9 * reputation + Half) \div 10, 0})
  ELSE reputation

LEMMA WeighingKeepsOrder ==
  ASSUME NEW h \in Nat, NEW g \in Nat, g <= h, NEW r \in Half..Scale, NEW s \in Half..Scale, s <= r
  PROVE  /\ Weighed(h, r) \in Half..Scale
         /\ Weighed(g, s) \in Half..Scale
         /\ Weighed(g, s) <= Weighed(h, r)
<1> DEFINE Raised(x) == (9 * x + Scale) \div 10
           Lowered(x) == (9 * x + Half) \div 10
<1>1. Scale \in Nat \ {0} /\ Half \in Nat /\ 2 * Half <= Scale
  BY FairSharesAssumption DEF Half
<1>2. ASSUME NEW x \in Half..Scale
      PROVE  /\ Min({(9 * x + Scale) \div 10, Scale}) = (9 * x + Scale) \div 10
             /\ Max({(9 * x + Half) \div 10, 0}) = (9 * x + Half) \div 10
             /\ (9 * x + Scale) \div 10 \in x..Scale
             /\ (9 * x + Half) \div 10 \in Half..x
  <2>1. (9 * x + Scale) \div 10 \in x..Scale /\ (9 * x + Half) \div 10 \in Half..x
    BY <1>1
  <2> QED BY <1>1, <2>1, SmallerOfTwo, GreaterOfTwo
<1>3. (9 * s + Scale) \div 10 <= (9 * r + Scale) \div 10 /\ (9 * s + Half) \div 10 <= (9 * r + Half) \div 10
  BY <1>1
<1>4. ASSUME NEW y \in Nat, NEW x \in Half..Scale
      PROVE  Weighed(y, x) = IF 10 * y > 8 * Scale THEN Raised(x) ELSE IF 2 * y < Scale THEN Lowered(x) ELSE x
  BY <1>2 DEF Weighed
<1>5. /\ Raised(r) \in r..Scale /\ Raised(s) \in s..Scale /\ Raised(s) <= Raised(r)
      /\ Lowered(r) \in Half..r /\ Lowered(s) \in Half..s /\ Lowered(s) <= Lowered(r)
  BY <1>2, <1>3
<1> HIDE DEF Raised, Lowered
<1>6. /\ Weighed(h, r) = IF 10 * h > 8 * Scale THEN Raised(r) ELSE IF 2 * h < Scale THEN Lowered(r) ELSE r
      /\ Weighed(g, s) = IF 10 * g > 8 * Scale THEN Raised(s) ELSE IF 2 * g < Scale THEN Lowered(s) ELSE s
  BY <1>4
<1> QED BY <1>1, <1>5, <1>6

\* One grant in the course of a tenant: what it used, and what came of it.
UsedGrant == [used : Nat, utilization : Nat, reputation : Half..Scale]
Utilized(used) == (used * Scale) \div GrantSize

\* The k-th grant of the course c follows from the one before, the first from new().
Follows(c, k) ==
  /\ c[k].utilization = Smoothed(Utilized(c[k].used), IF k = 1 THEN Half ELSE c[k - 1].utilization)
  /\ c[k].reputation = Weighed(c[k].utilization, IF k = 1 THEN Scale ELSE c[k - 1].reputation)

Reputation ==
  [historical_utilization : Nat, reputation : Half..Scale, allocated : Nat, used : Nat,
   total_fulfilled : Nat, total_wasted : Nat]

\* The inductive invariant.
ReputationIInv ==
  /\ uses \in [Customers -> Seq(UsedGrant)]
  /\ DOMAIN reputations \subseteq Customers
  /\ \A t \in DOMAIN reputations :
       /\ reputations[t] \in Reputation
       /\ Len(uses[t]) > 0
       /\ reputations[t].allocated = 100 + GrantSize * Len(uses[t])
       /\ reputations[t].historical_utilization = uses[t][Len(uses[t])].utilization
       /\ reputations[t].reputation = uses[t][Len(uses[t])].reputation
  /\ \A t \in Customers \ DOMAIN reputations : uses[t] = <<>>
  /\ \A t \in Customers : \A k \in 1..Len(uses[t]) : Follows(uses[t], k)

\* What record_fulfilled() makes of a reputation: only the two fields that are
\* weighed depend on what was used.
LEMMA ChargedAndWeighed ==
  ASSUME NEW rep \in Reputation, NEW used \in Nat, NEW after,
         after = update_utilization(Charged(rep, used), Utilized(used))
  PROVE  /\ after \in Reputation
         /\ after.allocated = rep.allocated + GrantSize
         /\ after.historical_utilization = Smoothed(Utilized(used), rep.historical_utilization)
         /\ after.reputation = Weighed(after.historical_utilization, rep.reputation)
<1>1. /\ rep.historical_utilization \in Nat /\ rep.reputation \in Half..Scale /\ rep.allocated \in Nat
      /\ rep.used \in Nat /\ rep.total_fulfilled \in Nat /\ rep.total_wasted \in Nat
  BY DEF Reputation
<1>2. GrantSize \in Nat \ {0} /\ Scale \in Nat \ {0}
  BY FairSharesAssumption
<1> DEFINE waste == Max({GrantSize - used, 0})
           u == Utilized(used)
           history == Smoothed(u, rep.historical_utilization)
           charged == Charged(rep, used)
<1>3. waste \in Nat
  BY <1>2, GreaterOfTwo
<1>4. u \in Nat
  <2>1. used * Scale \in Nat
    BY <1>2
  <2> QED BY <1>2, <2>1, DivisionKeepsOrder DEF Utilized
<1> HIDE DEF u, waste
<1>5. history \in Nat
  BY <1>1, <1>4 DEF Smoothed
<1>6. Weighed(history, rep.reputation) \in Half..Scale
  <2> DEFINE r == rep.reputation
  <2>1. history \in Nat /\ history <= history /\ r \in Half..Scale /\ r <= r
    BY <1>1, <1>2, <1>5 DEF Half
  <2> HIDE DEF r, history
  <2>2. Weighed(history, r) \in Half..Scale
    BY <2>1, WeighingKeepsOrder
  <2> QED BY <2>2 DEF r
<1>7. charged = [historical_utilization |-> rep.historical_utilization, reputation |-> rep.reputation,
                 allocated |-> rep.allocated + GrantSize, used |-> rep.used + used,
                 total_fulfilled |-> rep.total_fulfilled + 1, total_wasted |-> rep.total_wasted + waste]
  <2> DEFINE h == rep.historical_utilization
             r == rep.reputation
             a == rep.allocated
             n == rep.used
             f == rep.total_fulfilled
             w == rep.total_wasted
             made(all, spent, count, lost) ==
               [historical_utilization |-> h, reputation |-> r, allocated |-> all, used |-> spent,
                total_fulfilled |-> count, total_wasted |-> lost]
  <2>1. rep = made(a, n, f, w)
    BY DEF Reputation
  <2>2. charged = [[[[rep EXCEPT !.total_fulfilled = f + 1] EXCEPT !.allocated = a + GrantSize]
                      EXCEPT !.used = n + used] EXCEPT !.total_wasted = w + waste]
    BY DEF Charged, waste
  <2> HIDE DEF h, r, a, n, f, w, charged
  <2>3. [rep EXCEPT !.total_fulfilled = f + 1] = made(a, n, f + 1, w)
    BY <2>1
  <2>4. [made(a, n, f + 1, w) EXCEPT !.allocated = a + GrantSize] = made(a + GrantSize, n, f + 1, w)
    OBVIOUS
  <2>5. [made(a + GrantSize, n, f + 1, w) EXCEPT !.used = n + used] = made(a + GrantSize, n + used, f + 1, w)
    OBVIOUS
  <2>6. [made(a + GrantSize, n + used, f + 1, w) EXCEPT !.total_wasted = w + waste]
          = made(a + GrantSize, n + used, f + 1, w + waste)
    OBVIOUS
  <2> HIDE DEF made
  <2>7. charged = made(a + GrantSize, n + used, f + 1, w + waste)
    BY <2>2, <2>3, <2>4, <2>5, <2>6, Zenon
  <2> QED BY <2>7 DEF made, h, r, a, n, f, w
<1>8. after = [charged EXCEPT !.historical_utilization = history,
                              !.reputation = Weighed(history, rep.reputation)]
  <2> HIDE DEF charged
  <2>1. charged.historical_utilization = rep.historical_utilization /\ charged.reputation = rep.reputation
    BY <1>7
  <2>2. after = update_utilization(charged, u)
    BY DEF charged, u
  <2> QED BY <2>1, <2>2 DEF update_utilization, Smoothed, Weighed, Half
<1> HIDE DEF charged, history
<1>9. after = [historical_utilization |-> history, reputation |-> Weighed(history, rep.reputation),
               allocated |-> rep.allocated + GrantSize, used |-> rep.used + used,
               total_fulfilled |-> rep.total_fulfilled + 1, total_wasted |-> rep.total_wasted + waste]
  BY <1>7, <1>8
<1>10. after \in Reputation
  BY <1>1, <1>2, <1>3, <1>5, <1>6, <1>9 DEF Reputation
<1>11. /\ after.allocated = rep.allocated + GrantSize
       /\ after.historical_utilization = history
       /\ after.reputation = Weighed(history, rep.reputation)
  BY <1>9
<1> QED BY <1>10, <1>11, Zenon DEF history, u

LEMMA InitReputation == FairnessInit => ReputationIInv
BY DEF FairnessInit, ReputationIInv

\* A grant is added to the course of its tenant and follows from its last; the courses
\* of the others stay.
LEMMA FulfilledPreserves ==
  ASSUME ReputationIInv, NEW t \in Customers, NEW used \in Uses, RecordFulfilled(t, used)
  PROVE  ReputationIInv'
<1> DEFINE rep == IF t \in DOMAIN reputations THEN reputations[t] ELSE NewReputation
           after == update_utilization(Charged(rep, used), Utilized(used))
           new == [used |-> used, utilization |-> after.historical_utilization, reputation |-> after.reputation]
           c == uses[t]
           n == Len(c)
<1>1. /\ reputations' = Extend(reputations, t, after)
      /\ uses' = [uses EXCEPT ![t] = Append(c, new)]
  BY DEF RecordFulfilled, Utilized
<1>2. used \in Nat /\ Scale \in Nat \ {0} /\ GrantSize \in Nat \ {0} /\ Half \in Nat /\ Half <= Scale
  BY FairSharesAssumption DEF Half
<1>3. rep \in Reputation
  <2>1. CASE t \in DOMAIN reputations
    BY <2>1 DEF ReputationIInv
  <2>2. CASE t \notin DOMAIN reputations
    BY <1>2, <2>2 DEF NewReputation, Reputation, Half
  <2> QED BY <2>1, <2>2
<1>4. c \in Seq(UsedGrant) /\ n \in Nat /\ DOMAIN c = 1..n /\ \A k \in 1..n : c[k] \in UsedGrant /\ Follows(c, k)
  BY DEF ReputationIInv
<1>5. /\ rep.allocated = 100 + GrantSize * n
      /\ rep.historical_utilization = IF n = 0 THEN Half ELSE c[n].utilization
      /\ rep.reputation = IF n = 0 THEN Scale ELSE c[n].reputation
      /\ t \in DOMAIN reputations <=> n > 0
  <2>1. CASE t \in DOMAIN reputations
    <3>1. rep = reputations[t] /\ n > 0
      BY <2>1 DEF ReputationIInv
    <3> HIDE DEF rep
    <3> QED BY <1>4, <2>1, <3>1 DEF ReputationIInv
  <2>2. CASE t \notin DOMAIN reputations
    <3>1. rep = NewReputation /\ c = <<>>
      BY <2>2 DEF ReputationIInv
    <3>2. n = 0
      BY <3>1
    <3> HIDE DEF rep, n, c
    <3> QED BY <1>2, <2>2, <3>1, <3>2 DEF NewReputation, Half
  <2> QED BY <2>1, <2>2
<1>6. /\ after \in Reputation
      /\ after.allocated = rep.allocated + GrantSize
      /\ after.historical_utilization = Smoothed(Utilized(used), rep.historical_utilization)
      /\ after.reputation = Weighed(after.historical_utilization, rep.reputation)
  <2> HIDE DEF rep
  <2>1. after = update_utilization(Charged(rep, used), Utilized(used))
    OBVIOUS
  <2> HIDE DEF after
  <2> QED BY <1>2, <1>3, <2>1, ChargedAndWeighed
<1> HIDE DEF rep, after
<1>7. new \in UsedGrant /\ new.used = used /\ new.utilization = after.historical_utilization
      /\ new.reputation = after.reputation
  BY <1>2, <1>6 DEF UsedGrant, Reputation
<1> HIDE DEF new
<1> DEFINE d == Append(c, new)
<1>8. /\ d \in Seq(UsedGrant) /\ Len(d) = n + 1 /\ DOMAIN d = 1..(n + 1)
      /\ d[n + 1] = new /\ \A k \in 1..n : d[k] = c[k]
  BY <1>4, <1>7
<1>9. uses'[t] = d /\ \A o \in Customers \ {t} : uses'[o] = uses[o]
  BY <1>1 DEF ReputationIInv
<1> HIDE DEF c, n, d
<1>10. ASSUME NEW k \in 1..(n + 1) PROVE Follows(d, k)
  <2>1. CASE k = n + 1
    <3>1. CASE n = 0
      BY <1>5, <1>6, <1>7, <1>8, <2>1, <3>1 DEF Follows
    <3>2. CASE n # 0
      <4>1. k # 1 /\ k - 1 = n /\ n \in 1..n
        BY <1>4, <2>1, <3>2
      <4> QED BY <1>5, <1>6, <1>7, <1>8, <2>1, <3>2, <4>1 DEF Follows
    <3> QED BY <3>1, <3>2
  <2>2. CASE k # n + 1
    <3>1. k \in 1..n /\ (k # 1 => k - 1 \in 1..n)
      BY <1>4, <2>2
    <3> QED BY <1>4, <1>8, <3>1 DEF Follows
  <2> QED BY <2>1, <2>2
<1>11. /\ DOMAIN reputations' = DOMAIN reputations \cup {t}
       /\ reputations'[t] = after
       /\ \A o \in DOMAIN reputations \ {t} : reputations'[o] = reputations[o]
  BY <1>1 DEF Extend
<1>12. after.allocated = 100 + GrantSize * (n + 1)
  <2>1. GrantSize * (n + 1) = GrantSize * n + GrantSize /\ GrantSize * n \in Nat
    BY <1>2, <1>4
  <2> QED BY <1>2, <1>5, <1>6, <2>1
<1>13. uses' \in [Customers -> Seq(UsedGrant)] /\ DOMAIN reputations' \subseteq Customers
  BY <1>1, <1>8, <1>11 DEF ReputationIInv, d
<1>14. ASSUME NEW o \in DOMAIN reputations'
       PROVE  /\ reputations'[o] \in Reputation
              /\ Len(uses'[o]) > 0
              /\ reputations'[o].allocated = 100 + GrantSize * Len(uses'[o])
              /\ reputations'[o].historical_utilization = uses'[o][Len(uses'[o])].utilization
              /\ reputations'[o].reputation = uses'[o][Len(uses'[o])].reputation
  <2>1. CASE o = t
    <3>1. n + 1 > 0
      BY <1>4
    <3> QED BY <1>6, <1>7, <1>8, <1>9, <1>11, <1>12, <2>1, <3>1
  <2>2. CASE o # t
    <3>1. o \in DOMAIN reputations /\ o \in Customers \ {t}
      BY <1>11, <2>2 DEF ReputationIInv
    <3> QED BY <1>9, <1>11, <2>2, <3>1 DEF ReputationIInv
  <2> QED BY <2>1, <2>2
<1>15. ASSUME NEW o \in Customers \ DOMAIN reputations' PROVE uses'[o] = <<>>
  BY <1>9, <1>11 DEF ReputationIInv
<1>16. ASSUME NEW o \in Customers, NEW k \in 1..Len(uses'[o]) PROVE Follows(uses'[o], k)
  <2>1. CASE o = t
    BY <1>8, <1>9, <1>10, <2>1
  <2>2. CASE o # t
    BY <1>9, <2>2 DEF ReputationIInv
  <2> QED BY <2>1, <2>2
<1> QED BY <1>13, <1>14, <1>15, <1>16 DEF ReputationIInv, Follows

\* Of two courses, the one that used at least as much of every grant has come at
\* least as far after each.
LEMMA UseIsNeverBehind ==
  ASSUME NEW c \in Seq(UsedGrant), NEW d \in Seq(UsedGrant), Len(c) = Len(d),
         \A k \in 1..Len(c) : Follows(c, k) /\ Follows(d, k) /\ c[k].used >= d[k].used,
         NEW k \in 1..Len(c)
  PROVE  c[k].reputation >= d[k].reputation
<1> DEFINE n == Len(c)
           Behind == {j \in 1..n : ~ (c[j].utilization >= d[j].utilization /\ c[j].reputation >= d[j].reputation)}
<1>1. /\ n \in Nat
      /\ \A j \in 1..n : c[j] \in UsedGrant /\ d[j] \in UsedGrant
  OBVIOUS
<1>2. \A j \in 1..n : /\ c[j].used \in Nat /\ c[j].utilization \in Nat /\ c[j].reputation \in Half..Scale
                      /\ d[j].used \in Nat /\ d[j].utilization \in Nat /\ d[j].reputation \in Half..Scale
  BY <1>1 DEF UsedGrant
<1>3. Scale \in Nat \ {0} /\ GrantSize \in Nat \ {0} /\ Half \in Nat /\ Half <= Scale
  BY FairSharesAssumption DEF Half
<1> SUFFICES ASSUME Behind # {} PROVE FALSE
  OBVIOUS
<1>4. Behind \in SUBSET Nat
  BY <1>1
<1>5. PICK m \in Behind : \A j \in Behind : m <= j
  <2> HIDE DEF Behind
  <2> QED BY <1>4, LeastNatural
<1>6. m \in 1..n
  BY <1>5
<1> DEFINE h == IF m = 1 THEN Half ELSE c[m - 1].utilization
           g == IF m = 1 THEN Half ELSE d[m - 1].utilization
           r == IF m = 1 THEN Scale ELSE c[m - 1].reputation
           s == IF m = 1 THEN Scale ELSE d[m - 1].reputation
           u == Utilized(c[m].used)
           v == Utilized(d[m].used)
<1>7. h \in Nat /\ g \in Nat /\ g <= h /\ r \in Half..Scale /\ s \in Half..Scale /\ s <= r
  <2>1. CASE m = 1
    BY <1>3, <2>1
  <2>2. CASE m # 1
    <3>1. m - 1 \in 1..n /\ ~ (m <= m - 1)
      BY <1>1, <1>6, <2>2
    <3>2. m - 1 \notin Behind
      <4> HIDE DEF Behind
      <4> QED BY <1>5, <3>1
    <3>3. c[m - 1].utilization >= d[m - 1].utilization /\ c[m - 1].reputation >= d[m - 1].reputation
      BY <3>1, <3>2
    <3> QED BY <1>2, <1>3, <2>2, <3>1, <3>3
  <2> QED BY <2>1, <2>2
<1>8. u \in Nat /\ v \in Nat /\ v <= u
  <2> DEFINE x == c[m].used
             y == d[m].used
  <2>1. x \in Nat /\ y \in Nat /\ y <= x
    BY <1>2, <1>6
  <2> HIDE DEF x, y
  <2>2. y * Scale <= x * Scale /\ y * Scale \in Nat /\ x * Scale \in Nat
    BY <1>3, <2>1, ProductsKeepOrder
  <2>3. Utilized(x) \in Nat /\ Utilized(y) \in Nat /\ Utilized(y) <= Utilized(x)
    BY <1>3, <2>2, DivisionKeepsOrder DEF Utilized
  <2> QED BY <2>3 DEF x, y
<1>9. /\ c[m].utilization = Smoothed(u, h) /\ c[m].reputation = Weighed(Smoothed(u, h), r)
      /\ d[m].utilization = Smoothed(v, g) /\ d[m].reputation = Weighed(Smoothed(v, g), s)
  BY <1>6 DEF Follows
<1> HIDE DEF h, g, r, s, u, v
<1>10. Smoothed(u, h) \in Nat /\ Smoothed(v, g) \in Nat /\ Smoothed(v, g) <= Smoothed(u, h)
  BY <1>7, <1>8 DEF Smoothed
<1>11. Weighed(Smoothed(v, g), s) <= Weighed(Smoothed(u, h), r)
  BY <1>7, <1>10, WeighingKeepsOrder
<1>12. c[m].utilization >= d[m].utilization /\ c[m].reputation >= d[m].reputation
  BY <1>2, <1>6, <1>9, <1>10, <1>11
<1> QED BY <1>5, <1>12

LEMMA ReputationSound == ReputationIInv => UseIsRewarded
<1> SUFFICES ASSUME ReputationIInv PROVE UseIsRewarded
  OBVIOUS
<1>1. \A t \in DOMAIN reputations : reputations[t].reputation \in (Scale \div 2)..Scale
  BY DEF ReputationIInv, Reputation, Half
<1>2. ASSUME NEW t \in DOMAIN reputations, NEW u \in DOMAIN reputations, UsedAtLeast(t, u)
      PROVE  /\ reputations[t].reputation >= reputations[u].reputation
             /\ reputations[t].allocated = reputations[u].allocated
  <2> DEFINE c == uses[t]
             d == uses[u]
             n == Len(c)
  <2>1. /\ c \in Seq(UsedGrant) /\ d \in Seq(UsedGrant) /\ Len(d) = n /\ n \in Nat /\ n > 0 /\ DOMAIN c = 1..n
        /\ \A k \in 1..n : c[k].used >= d[k].used
    BY <1>2 DEF ReputationIInv, UsedAtLeast
  <2>2. \A k \in 1..n : Follows(c, k) /\ Follows(d, k)
    BY <2>1 DEF ReputationIInv
  <2>3. /\ reputations[t].allocated = 100 + GrantSize * n
        /\ reputations[u].allocated = 100 + GrantSize * n
        /\ reputations[t].reputation = c[n].reputation
        /\ reputations[u].reputation = d[n].reputation
    BY <2>1 DEF ReputationIInv
  <2> HIDE DEF c, d
  <2>4. n \in 1..n
    BY <2>1
  <2>5. c[n].reputation >= d[n].reputation
    BY <2>1, <2>2, <2>4, UseIsNeverBehind
  <2> QED BY <2>3, <2>5
<1>3. ASSUME NEW t \in DOMAIN reputations, NEW u \in DOMAIN reputations, UsedAtLeast(t, u)
      PROVE  select_best_tenant(<<u, t>>) = {t}
  <2> DEFINE x == reputations[t].reputation
             y == reputations[u].reputation
             a == reputations[t].allocated + 1
  <2>1. x \in Nat /\ y \in Nat /\ y <= x /\ a \in Nat /\ reputations[u].allocated + 1 = a
    <3>1. reputations[t] \in Reputation /\ reputations[u] \in Reputation
      BY DEF ReputationIInv
    <3>2. Half \in Nat /\ Scale \in Nat
      BY FairSharesAssumption DEF Half
    <3> QED BY <1>2, <1>3, <3>1, <3>2 DEF Reputation
  <2>2. Before(u, t) => y * a > x * a
    BY <2>1 DEF Before
  <2> HIDE DEF x, y, a
  <2>3. y * a <= x * a /\ y * a \in Nat /\ x * a \in Nat
    BY <2>1, ProductsKeepOrder
  <2>4. ~ Before(u, t)
    BY <2>2, <2>3
  <2>5. ~ Before(t, t)
    <3>1. ASSUME NEW z \in Nat PROVE ~ (z > z)
      OBVIOUS
    <3>2. reputations[t].reputation * (reputations[t].allocated + 1) \in Nat
      <4>1. x * a \in Nat
        BY <2>3
      <4> QED BY <4>1 DEF x, a
    <3> QED BY <3>1, <3>2 DEF Before
  <2> DEFINE w == <<u, t>>
  <2>6. DOMAIN w = {1, 2} /\ w[1] = u /\ w[2] = t /\ 2 > 1 /\ ~ (1 > 2) /\ ~ (2 > 2)
    OBVIOUS
  <2> HIDE DEF w
  <2>7. {i \in DOMAIN w : \A j \in DOMAIN w : ~ Before(w[j], w[i]) /\ (j > i => Before(w[i], w[j]))} = {2}
    BY <2>4, <2>5, <2>6, Zenon
  <2>8. select_best_tenant(w) = {w[i] : i \in {2}}
    BY <2>7 DEF select_best_tenant
  <2> QED BY <2>6, <2>8 DEF w
<1> QED BY <1>1, <1>2, <1>3 DEF UseIsRewarded

-----------------------------------------------------------------------------
(* Dominant shares.                                                        *)

ResourceShare == [total_capacity : Nat, allocated : 0..MaxAllocated]

\* What one call may leave of an allocation: no share is larger than the dominant one.
Dominated(a) ==
  /\ DOMAIN a.shares \subseteq ResourceTypes
  /\ \A r \in DOMAIN a.shares : a.shares[r] \in ResourceShare
  /\ a.dominant_resource \in Dominants(a.shares)

\* The inductive invariant.
SharesIInv ==
  /\ DOMAIN tenant_allocations \subseteq Customers
  /\ \A t \in DOMAIN tenant_allocations : Dominated(tenant_allocations[t])

\* The greatest of a set is the one that none exceeds.
LEMMA MaxIsThatOne ==
  ASSUME NEW S \in SUBSET Nat, NEW m \in S, \A y \in S : y <= m
  PROVE  Max(S) = m
<1>1. \A y \in S : m >= y
  OBVIOUS
<1>2. Max(S) \in S /\ \A y \in S : Max(S) >= y
  BY <1>1, MaxIsOne
<1> DEFINE x == Max(S)
<1>3. x \in Nat /\ m \in Nat /\ x >= m /\ x <= m
  BY <1>2
<1> HIDE DEF x
<1>4. x = m
  BY <1>3
<1> QED BY <1>4 DEF x

\* A share is a part of Full, of a capacity of at least one.
LEMMA ShareIsBounded ==
  ASSUME NEW s \in ResourceShare
  PROVE  Share(s) \in 0..(MaxAllocated * Full)
<1> DEFINE c == s.total_capacity
           a == s.allocated
           x == a * Full
           q == x \div c
<1>1. c \in Nat /\ a \in 0..MaxAllocated /\ MaxAllocated \in Nat /\ Full \in Nat
  BY FairSharesAssumption DEF ResourceShare
<1>2. x \in Nat /\ MaxAllocated * Full \in Nat /\ x <= MaxAllocated * Full
  <2> HIDE DEF a
  <2>1. a * Full <= MaxAllocated * Full /\ a * Full \in Nat
    BY <1>1, ProductsKeepOrder
  <2> QED BY <1>1, <2>1
<1>3. CASE c > 0
  <2>1. c \in Nat \ {0}
    BY <1>1, <1>3
  <2> HIDE DEF x, c
  <2>2. q \in Nat /\ c * q <= x
    BY <1>2, <2>1
  <2> HIDE DEF q
  <2>3. 1 * q <= c * q
    BY <2>1, <2>2, ProductsKeepOrder
  <2>4. c * q \in Nat /\ 1 * q = q
    BY <2>1, <2>2
  <2>5. q \in 0..(MaxAllocated * Full)
    BY <1>2, <2>2, <2>3, <2>4
  <2> QED BY <1>3, <2>5 DEF Share, q, x, c
<1>4. CASE ~ (c > 0)
  BY <1>2, <1>4 DEF Share
<1> QED BY <1>3, <1>4

\* The dominant share is the largest of all shares.
LEMMA DominantIsMost ==
  ASSUME NEW a, Dominated(a)
  PROVE  /\ dominant_share(a) = Max({0} \cup {Share(s) : s \in Range(a.shares)})
         /\ dominant_share(a) \in 0..(MaxAllocated * Full)
<1> DEFINE f == a.shares
           all == {0} \cup {Share(s) : s \in Range(f)}
           top == {0} \cup {Share(f[r]) : r \in a.dominant_resource \cap DOMAIN f}
           b == MaxAllocated * Full
<1>1. b \in Nat
  BY FairSharesAssumption
<1>2. \A r \in DOMAIN f : Share(f[r]) \in 0..b
  BY ShareIsBounded DEF Dominated
<1>3. all = {0} \cup {Share(f[r]) : r \in DOMAIN f}
  BY DEF Range
<1>4. dominant_share(a) = Max(top)
  BY DEF dominant_share
<1>5. a.dominant_resource \in Dominants(f)
  BY DEF Dominated
<1> HIDE DEF b, f, all
<1>6. all \in SUBSET Nat /\ top \in SUBSET Nat /\ 0 \in all /\ 0 \in top
  BY <1>1, <1>2, <1>3
<1>7. CASE DOMAIN f = {}
  <2>1. all = {0} /\ top = {0}
    BY <1>3, <1>7
  <2>2. 0 \in {0} /\ {0} \in SUBSET Nat /\ \A y \in {0} : y <= 0
    OBVIOUS
  <2>3. Max({0}) = 0
    BY <2>2, MaxIsThatOne
  <2>4. 0 \in 0..b
    BY <1>1
  <2> HIDE DEF top
  <2> QED BY <1>4, <2>1, <2>3, <2>4, Zenon DEF all, f, b
<1>8. CASE DOMAIN f # {}
  <2>1. PICK r \in DOMAIN f : /\ a.dominant_resource = {r}
                              /\ \A q \in DOMAIN f : Share(f[q]) <= Share(f[r])
    BY <1>5, <1>8 DEF Dominants
  <2> DEFINE m == Share(f[r])
  <2>2. m \in 0..b /\ m \in Nat
    BY <1>1, <1>2, <2>1
  <2>3. m \in all /\ m \in top
    BY <1>3, <2>1
  <2>4. \A y \in all : y <= m
    BY <1>3, <2>1, <2>2
  <2>5. \A y \in top : y <= m
    BY <2>1, <2>2
  <2> HIDE DEF m, top
  <2>6. Max(all) = m /\ Max(top) = m
    BY <1>6, <2>3, <2>4, <2>5, MaxIsThatOne
  <2> QED BY <1>4, <2>2, <2>6 DEF all, f, b
<1> QED BY <1>7, <1>8

LEMMA InitShares == FairnessInit => SharesIInv
BY DEF FairnessInit, SharesIInv

\* Every call leaves the tenant it is about with the dominant resource recomputed.
LEMMA SharesPreserved ==
  ASSUME SharesIInv, SharesNext
  PROVE  SharesIInv' /\ UNCHANGED reputationVars
<1> PICK t \in Customers : \/ Enter(t)
                           \/ \E r \in ResourceTypes :
                                \/ \E c \in Capacities : AddShare(t, r, c)
                                \/ \E amount \in Amounts : AllocateShare(t, r, amount)
  BY DEF SharesNext
<1>1. SUFFICES ASSUME NEW a, Dominated(a),
                      \/ tenant_allocations' = Extend(tenant_allocations, t, a)
                      \/ t \in DOMAIN tenant_allocations /\ tenant_allocations' = [tenant_allocations EXCEPT ![t] = a]
               PROVE  SharesIInv'
  <2>1. Dominated([shares |-> << >>, dominant_resource |-> {}])
    BY DEF Dominated, Dominants
  <2>2. Dominated(Known(t))
    BY <2>1 DEF SharesIInv, Known
  <2>3. CASE Enter(t)
    BY <1>1, <2>2, <2>3 DEF Enter
  <2>4. ASSUME NEW r \in ResourceTypes, NEW c \in Capacities, AddShare(t, r, c)
        PROVE  SharesIInv' /\ UNCHANGED reputationVars
    <3> DEFINE shares == Extend(Known(t).shares, r, [total_capacity |-> c, allocated |-> 0])
    <3>1. PICK dominant \in Dominants(shares) :
            tenant_allocations' = Extend(tenant_allocations, t, [shares |-> shares, dominant_resource |-> dominant])
      BY <2>4 DEF AddShare
    <3>2. [total_capacity |-> c, allocated |-> 0] \in ResourceShare
      BY FairSharesAssumption DEF ResourceShare
    <3>3. DOMAIN shares \subseteq ResourceTypes /\ \A k \in DOMAIN shares : shares[k] \in ResourceShare
      BY <2>2, <3>2 DEF Extend, Dominated
    <3> HIDE DEF shares
    <3>4. Dominated([shares |-> shares, dominant_resource |-> dominant])
      BY <3>1, <3>3 DEF Dominated
    <3> QED BY <1>1, <2>4, <3>1, <3>4 DEF AddShare
  <2>5. ASSUME NEW r \in ResourceTypes, NEW amount \in Amounts, AllocateShare(t, r, amount)
        PROVE  SharesIInv' /\ UNCHANGED reputationVars
    <3> DEFINE f == tenant_allocations[t].shares
               shares == [f EXCEPT ![r].allocated = @ + amount]
    <3>1. /\ t \in DOMAIN tenant_allocations /\ r \in DOMAIN f
          /\ f[r].allocated + amount <= MaxAllocated
          /\ UNCHANGED reputationVars
      BY <2>5 DEF AllocateShare
    <3>2. PICK dominant \in Dominants(shares) :
            tenant_allocations' = [tenant_allocations EXCEPT
              ![t] = [shares |-> shares, dominant_resource |-> dominant]]
      BY <2>5 DEF AllocateShare
    <3>3. /\ amount \in Nat /\ MaxAllocated \in Nat
          /\ DOMAIN f \subseteq ResourceTypes /\ \A k \in DOMAIN f : f[k] \in ResourceShare
      BY <3>1, FairSharesAssumption DEF SharesIInv, Dominated
    <3> HIDE DEF f
    <3>4. DOMAIN shares \subseteq ResourceTypes /\ \A k \in DOMAIN shares : shares[k] \in ResourceShare
      <4>1. DOMAIN shares = DOMAIN f /\ shares[r] = [f[r] EXCEPT !.allocated = f[r].allocated + amount]
            /\ \A k \in DOMAIN f \ {r} : shares[k] = f[k]
        BY <3>1
      <4>2. f[r].allocated + amount \in 0..MaxAllocated
        BY <3>1, <3>3 DEF ResourceShare
      <4>3. shares[r] \in ResourceShare
        BY <3>1, <3>3, <4>1, <4>2 DEF ResourceShare
      <4> HIDE DEF shares
      <4> QED BY <3>3, <4>1, <4>3
    <3> HIDE DEF shares
    <3>5. Dominated([shares |-> shares, dominant_resource |-> dominant])
      BY <3>2, <3>4 DEF Dominated
    <3> QED BY <1>1, <3>1, <3>2, <3>5
  <2> QED BY <2>3, <2>4, <2>5 DEF Enter
<1>2. /\ DOMAIN tenant_allocations' \subseteq DOMAIN tenant_allocations \cup {t}
      /\ tenant_allocations'[t] = a
      /\ \A u \in DOMAIN tenant_allocations \ {t} : tenant_allocations'[u] = tenant_allocations[u]
  BY <1>1 DEF Extend
<1>3. /\ DOMAIN tenant_allocations' \subseteq Customers
      /\ \A u \in DOMAIN tenant_allocations' : Dominated(tenant_allocations'[u])
  BY <1>1, <1>2 DEF SharesIInv
<1> QED BY <1>3, Zenon DEF SharesIInv, Dominated, Dominants, Share

LEMMA SharesSound == SharesIInv => DominantSharesAreTrue
<1> SUFFICES ASSUME SharesIInv PROVE DominantSharesAreTrue
  OBVIOUS
<1> DEFINE D == DOMAIN tenant_allocations
           Most(t) == Max({0} \cup {Share(s) : s \in Range(tenant_allocations[t].shares)})
           most == {Most(t) : t \in D}
           b == MaxAllocated * Full
<1>1. \A t \in D : Most(t) = dominant_share(tenant_allocations[t]) /\ Most(t) \in 0..b
  BY DominantIsMost DEF SharesIInv
<1>2. b \in Nat /\ Full \in Nat
  BY FairSharesAssumption
<1>3. \A t \in D : DrfPriority(t) = Most(t)
  BY <1>1 DEF DrfPriority
<1> HIDE DEF Most, b
<1>4. ASSUME NEW t \in D, NEW u \in D, select_next_tenant(<<t, u>>) = {t}
      PROVE  Most(t) <= Most(u)
  <2> DEFINE w == <<t, u>>
             least == {i \in DOMAIN w : \A j \in DOMAIN w :
                         /\ DrfPriority(w[i]) <= DrfPriority(w[j])
                         /\ j < i => DrfPriority(w[i]) < DrfPriority(w[j])}
  <2>1. DOMAIN w = {1, 2} /\ w[1] = t /\ w[2] = u
    OBVIOUS
  <2>2. select_next_tenant(w) = {w[i] : i \in least} /\ select_next_tenant(w) = {t}
    BY <1>4 DEF select_next_tenant
  <2> HIDE DEF w
  <2>3. PICK i \in least : w[i] = t
    BY <2>2
  <2>4. i \in {1, 2} /\ 2 \in DOMAIN w /\ DrfPriority(w[i]) <= DrfPriority(w[2])
    BY <2>1, <2>3
  <2>5. DrfPriority(t) <= DrfPriority(u)
    BY <2>1, <2>3, <2>4
  <2> QED BY <1>3, <2>5
<1>5. ASSUME most # {}, Max(most \cup {0}) <= Full
      PROVE  fairness_gap = Max(most) - Min(most)
  <2> DEFINE high == {0} \cup most
             low == {Full} \cup most
  <2>1. fairness_gap = Max(high) - Min(low)
    <3>1. {dominant_share(tenant_allocations[t]) : t \in D} = most
      BY <1>1
    <3> QED BY <3>1 DEF fairness_gap
  <2>2. most \in SUBSET (0..b) /\ high \in SUBSET (0..b) /\ high # {} /\ most \in SUBSET Nat /\ Max(high) <= Full
    <3>1. most \cup {0} = high
      OBVIOUS
    <3>2. most \in SUBSET (0..b)
      BY <1>1
    <3> HIDE DEF most
    <3>3. Max(high) <= Full
      BY <1>5, <3>1, Zenon
    <3> QED BY <1>2, <3>2, <3>3
  <2> HIDE DEF most
  <2>3. Max(most) \in most /\ \A x \in most : x <= Max(most)
    BY <1>2, <1>5, <2>2, MaxIsGreatest
  <2>4. Max(high) \in high /\ \A x \in high : x <= Max(high)
    BY <1>2, <2>2, MaxIsGreatest
  <2>5. Min(most) \in most /\ \A x \in most : Min(most) <= x
    BY <1>5, <2>2, MinIsLeast
  <2>6. low \in SUBSET Nat /\ low # {}
    BY <1>2, <2>2
  <2>7. Min(low) \in low /\ \A x \in low : Min(low) <= x
    BY <2>6, MinIsLeast
  <2> DEFINE p == Max(most)
             q == Max(high)
             r == Min(most)
             s == Min(low)
  <2>8. /\ p \in Nat /\ p \in high /\ p <= q
        /\ q = 0 \/ q \in most
        /\ q \in Nat
    <3>1. \A x \in high : x \in Nat /\ (x = 0 \/ x \in most)
      BY <2>2
    <3>2. p \in high
      BY <2>3
    <3> HIDE DEF high, p
    <3>3. p <= q /\ q \in high
      BY <2>4, <3>2
    <3> HIDE DEF q
    <3> QED BY <3>1, <3>2, <3>3
  <2>9. q = 0 \/ q <= p
    BY <2>3, <2>8
  <2>10. p = q
    <3> HIDE DEF p, q
    <3> QED BY <2>8, <2>9
  <2>11. r \in Nat /\ r \in low /\ s <= r /\ s \in Nat /\ (s = Full \/ s \in most)
    BY <1>2, <2>2, <2>5, <2>7
  <2>12. r <= Full
    <3>1. r <= q /\ q <= Full
      BY <2>2, <2>4, <2>5
    <3> HIDE DEF q, r
    <3> QED BY <1>2, <2>8, <2>11, <3>1
  <2>13. s = Full \/ r <= s
    BY <2>5, <2>11
  <2>14. r = s
    <3> HIDE DEF r, s
    <3> QED BY <1>2, <2>11, <2>12, <2>13
  <2> QED BY <2>1, <2>10, <2>14
<1> QED BY <1>4, <1>5 DEF DominantSharesAreTrue, Most

\* A call on the shares leaves the reputations alone, and the other way round.
LEMMA FairnessPreserves ==
  ASSUME SharesIInv, ReputationIInv, [FairnessNext]_fairnessVars
  PROVE  SharesIInv' /\ ReputationIInv'
<1>1. UNCHANGED shareVars => SharesIInv'
  BY DEF SharesIInv, Dominated, Dominants, Share, shareVars
<1>2. UNCHANGED reputationVars => ReputationIInv'
  BY DEF ReputationIInv, Follows, reputationVars
<1>3. CASE SharesNext
  <2>1. SharesIInv' /\ UNCHANGED reputationVars
    BY <1>3, SharesPreserved
  <2> QED BY <1>2, <2>1
<1>4. CASE ReputationNext
  <2> PICK t \in Customers, used \in Uses : RecordFulfilled(t, used)
    BY <1>4 DEF ReputationNext
  <2>1. ReputationIInv'
    BY FulfilledPreserves
  <2>2. UNCHANGED shareVars
    BY DEF RecordFulfilled
  <2> QED BY <1>1, <2>1, <2>2
<1>5. CASE UNCHANGED fairnessVars
  BY <1>1, <1>2, <1>5 DEF fairnessVars
<1> QED BY <1>3, <1>4, <1>5 DEF FairnessNext

\* The tenant chosen next is the one whose largest share is least, the gap reported
\* is the spread of the largest shares, and of two tenants granted the same the one
\* that used at least as much of every grant is never passed over: through every order
\* of calls, for any number of tenants, resources and grants.
THEOREM FairnessStaysKept == FairnessSpec => []FairnessIsKept
<1>1. FairnessInit => SharesIInv /\ ReputationIInv
  BY InitShares, InitReputation
<1>2. SharesIInv /\ ReputationIInv /\ [FairnessNext]_fairnessVars => SharesIInv' /\ ReputationIInv'
  BY FairnessPreserves
<1>3. SharesIInv /\ ReputationIInv => FairnessIsKept
  BY SharesSound, ReputationSound DEF FairnessIsKept
<1> QED BY <1>1, <1>2, <1>3, PTL DEF FairnessSpec

-----------------------------------------------------------------------------
(* The pass scheduler.  Schedules are sequences of passes that every part of *)
(* a call keeps such.                                                         *)

LEMMA WiderSequence ==
  ASSUME NEW A, NEW B, A \subseteq B, NEW s \in Seq(A)
  PROVE  s \in Seq(B)
  OBVIOUS

LEMMA SequenceOf ==
  ASSUME NEW A, NEW s \in Seq(A)
  PROVE  IsSequence(s) /\ ToSet(s) \subseteq A /\ DOMAIN s = 1..Len(s) /\ Len(s) \in Nat
<1>1. DOMAIN s = 1..Len(s) /\ Len(s) \in Nat
  OBVIOUS
<1>2. \A i \in 1..Len(s) : s[i] \in ToSet(s) /\ s[i] \in A
  BY <1>1 DEF ToSet
<1>3. s \in Seq(ToSet(s))
  BY <1>1, <1>2
<1> QED BY <1>1, <1>2, <1>3 DEF IsSequence, ToSet

\* A schedule is a sequence of passes.
LEMMA ScheduleFields ==
  ASSUME NEW s, IsSchedule(s)
  PROVE  /\ s \in Seq(ToSet(s)) /\ Len(s) \in Nat /\ DOMAIN s = 1..Len(s)
         /\ \A i \in 1..Len(s) : IsPass(s[i]) /\ s[i] \in ToSet(s)
<1>1. s \in Seq(ToSet(s))
  BY DEF IsSchedule, IsSequence
<1>2. Len(s) \in Nat /\ DOMAIN s = 1..Len(s)
  BY <1>1
<1> QED BY <1>1, <1>2 DEF IsSchedule, ToSet

LEMMA NoPasses == IsSchedule(<<>>)
  BY DEF IsSchedule, IsSequence, ToSet

LEMMA OnePassOnly == ASSUME NEW p, IsPass(p) PROVE IsSchedule(<<p>>)
  BY DEF IsSchedule, IsSequence, ToSet

\* Two schedules one after the other are a schedule.
LEMMA SchedulesJoin ==
  ASSUME NEW s, NEW t, IsSchedule(s), IsSchedule(t)
  PROVE  /\ IsSchedule(s \o t) /\ Len(s \o t) = Len(s) + Len(t)
         /\ \A i \in 1..Len(s) : (s \o t)[i] = s[i]
         /\ \A i \in 1..Len(t) : (s \o t)[Len(s) + i] = t[i]
<1> DEFINE A == ToSet(s) \cup ToSet(t)
<1>1. /\ s \in Seq(ToSet(s)) /\ t \in Seq(ToSet(t)) /\ Len(s) \in Nat /\ Len(t) \in Nat
      /\ \A i \in 1..Len(s) : IsPass(s[i])
      /\ \A i \in 1..Len(t) : IsPass(t[i])
  BY ScheduleFields
<1>2. ToSet(s) \subseteq A /\ ToSet(t) \subseteq A
  OBVIOUS
<1> HIDE DEF A
<1>3. s \in Seq(A) /\ t \in Seq(A)
  BY <1>1, <1>2, WiderSequence
<1>4. /\ s \o t \in Seq(A) /\ Len(s \o t) = Len(s) + Len(t)
      /\ \A i \in 1..Len(s) : (s \o t)[i] = s[i]
      /\ \A i \in 1..Len(t) : (s \o t)[Len(s) + i] = t[i]
  BY <1>3, Concatenated
<1>5. IsSequence(s \o t) /\ DOMAIN (s \o t) = 1..(Len(s) + Len(t))
  BY <1>4, SequenceOf
<1>6. ASSUME NEW i \in 1..(Len(s) + Len(t)) PROVE IsPass((s \o t)[i])
  <2>1. CASE i <= Len(s)
    <3>1. i \in 1..Len(s)
      BY <1>1, <2>1
    <3> QED BY <1>1, <1>4, <3>1
  <2>2. CASE ~ (i <= Len(s))
    <3>1. i - Len(s) \in 1..Len(t) /\ Len(s) + (i - Len(s)) = i
      BY <1>1, <2>2
    <3> QED BY <1>1, <1>4, <3>1
  <2> QED BY <2>1, <2>2
<1> QED BY <1>4, <1>5, <1>6 DEF IsSchedule

LEMMA PassAppends ==
  ASSUME NEW s, NEW p, IsSchedule(s), IsPass(p)
  PROVE  /\ IsSchedule(Append(s, p)) /\ Len(Append(s, p)) = Len(s) + 1
         /\ \A i \in 1..Len(s) : Append(s, p)[i] = s[i]
         /\ Append(s, p)[Len(s) + 1] = p
<1> DEFINE A == ToSet(s) \cup {p}
<1>1. /\ s \in Seq(ToSet(s)) /\ Len(s) \in Nat /\ \A i \in 1..Len(s) : IsPass(s[i])
  BY ScheduleFields
<1>2. ToSet(s) \subseteq A /\ p \in A
  OBVIOUS
<1> HIDE DEF A
<1>3. s \in Seq(A)
  BY <1>1, <1>2, WiderSequence
<1>4. /\ Append(s, p) \in Seq(A) /\ Len(Append(s, p)) = Len(s) + 1
      /\ \A i \in 1..Len(s) : Append(s, p)[i] = s[i]
      /\ Append(s, p)[Len(s) + 1] = p
  BY <1>2, <1>3
<1>5. IsSequence(Append(s, p)) /\ DOMAIN Append(s, p) = 1..(Len(s) + 1)
  BY <1>4, SequenceOf
<1>6. \A i \in 1..(Len(s) + 1) : IsPass(Append(s, p)[i])
  <2> SUFFICES ASSUME NEW i \in 1..(Len(s) + 1) PROVE IsPass(Append(s, p)[i])
    OBVIOUS
  <2>1. i \in 1..Len(s) \/ i = Len(s) + 1
    BY <1>1
  <2> QED BY <1>1, <1>4, <2>1
<1> QED BY <1>4, <1>5, <1>6 DEF IsSchedule

\* A schedule with one pass replaced by another is a schedule.
LEMMA PassReplaced ==
  ASSUME NEW s, NEW p, IsSchedule(s), IsPass(p), NEW i \in 1..Len(s)
  PROVE  LET n == [s EXCEPT ![i] = p]
         IN  /\ IsSchedule(n) /\ Len(n) = Len(s) /\ DOMAIN n = 1..Len(s)
             /\ n[i] = p /\ \A j \in 1..Len(s) : j # i => n[j] = s[j]
<1> DEFINE A == ToSet(s) \cup {p}
           n == [s EXCEPT ![i] = p]
<1>1. /\ s \in Seq(ToSet(s)) /\ Len(s) \in Nat /\ \A j \in 1..Len(s) : IsPass(s[j])
  BY ScheduleFields
<1>2. ToSet(s) \subseteq A /\ p \in A
  OBVIOUS
<1> HIDE DEF A
<1>3. s \in Seq(A)
  BY <1>1, <1>2, WiderSequence
<1>4. n \in Seq(A) /\ Len(n) = Len(s) /\ n[i] = p /\ \A j \in 1..Len(s) : j # i => n[j] = s[j]
  BY <1>1, <1>2, <1>3
<1> HIDE DEF n
<1>5. IsSequence(n) /\ DOMAIN n = 1..Len(s)
  BY <1>4, SequenceOf
<1>6. \A j \in 1..Len(s) : IsPass(n[j])
  BY <1>1, <1>4
<1>7. IsSchedule(n)
  BY <1>5, <1>6 DEF IsSchedule
<1> QED BY <1>4, <1>5, <1>7 DEF n

-----------------------------------------------------------------------------
(* Conflicts. *)

LEMMA DevicesAreListed ==
  ASSUME NEW p, IsPass(p)
  PROVE  /\ DOMAIN DevicesListed(p) = 1..Len(DevicesListed(p)) /\ Len(DevicesListed(p)) \in Nat
<1> DEFINE A == ToSet(p.sdr_devices) \cup ToSet(p.shadow_sdr) \cup {p.antenna, p.rotator}
           r == p.sdr_devices
           h == p.shadow_sdr
           m == <<p.antenna, p.rotator>>
<1>1. r \in Seq(ToSet(r)) /\ h \in Seq(ToSet(h))
  BY DEF IsPass, IsSequence
<1>2. ToSet(r) \subseteq A /\ ToSet(h) \subseteq A /\ p.antenna \in A /\ p.rotator \in A
  OBVIOUS
<1> HIDE DEF A, r, h
<1>3. r \in Seq(A) /\ h \in Seq(A)
  BY <1>1, <1>2, WiderSequence
<1>4. m \in Seq(A)
  BY <1>2
<1> HIDE DEF m
<1>5. r \o h \in Seq(A)
  BY <1>3, Concatenated
<1>6. r \o h \o m \in Seq(A)
  BY <1>4, <1>5, Concatenated
<1>7. DevicesListed(p) \in Seq(A)
  BY <1>6 DEF DevicesListed, r, h, m
<1> QED BY <1>7, SequenceOf

\* A device is listed finitely often by a pass.
LEMMA ListedPlaces ==
  ASSUME NEW p, IsPass(p), NEW d
  PROVE  /\ IsFiniteSet(PlacesOf(d, p)) /\ Cardinality(PlacesOf(d, p)) \in Nat
         /\ Cardinality(PlacesOf(d, p)) = 0 <=> PlacesOf(d, p) = {}
         /\ Cardinality(PlacesOf(d, p)) >= 2 <=> \E k, l \in PlacesOf(d, p) : k # l
<1> DEFINE P == PlacesOf(d, p)
           c == Cardinality(P)
<1>1. IsFiniteSet(1..Len(DevicesListed(p)))
  <2>1. Len(DevicesListed(p)) \in Int /\ 1 \in Int
    BY DevicesAreListed
  <2> HIDE DEF P
  <2> QED BY <2>1, FS_Interval
<1>2. P \subseteq 1..Len(DevicesListed(p))
  BY DevicesAreListed DEF PlacesOf
<1> HIDE DEF P
<1>3. IsFiniteSet(P)
  BY <1>1, <1>2, FS_Subset
<1>4. c \in Nat /\ (c = 0 <=> P = {})
  BY <1>3, FS_CardinalityType, FS_EmptySet
<1>5. ASSUME c >= 2 PROVE \E k, l \in P : k # l
  <2> SUFFICES ASSUME \A k, l \in P : k = l PROVE FALSE
    OBVIOUS
  <2>1. Cardinality(P) <= 1
    BY AtMostOne
  <2> QED BY <1>4, <1>5, <2>1
<1>6. ASSUME NEW k \in P, NEW l \in P, k # l PROVE c >= 2
  <2>1. IsFiniteSet(P \ {k}) /\ Cardinality(P \ {k}) = c - 1
    BY <1>3, FS_RemoveElement
  <2>2. Cardinality(P \ {k}) # 0
    <3>1. P \ {k} # {}
      BY <1>6
    <3> QED BY <2>1, <3>1, FS_EmptySet
  <2>3. Cardinality(P \ {k}) \in Nat
    BY <2>1, FS_CardinalityType
  <2> HIDE DEF c
  <2> QED BY <1>4, <2>1, <2>2, <2>3
<1> HIDE DEF c
<1> QED BY <1>3, <1>4, <1>5, <1>6 DEF P, c

\* The index of d after the first n passes: in their order, each there when it lists
\* d, and more than once when it lists d more than once.
Indexes(x, n, s, d) ==
  /\ x \in Seq(1..n)
  /\ \A a, b \in 1..Len(x) : a < b => x[a] <= x[b]
  /\ \A i \in 1..n : (\E a \in 1..Len(x) : x[a] = i) <=> PlacesOf(d, s[i]) # {}
  /\ \A i \in 1..n : (\E a, b \in 1..Len(x) : a < b /\ x[a] = i /\ x[b] = i)
                       <=> \E k, l \in PlacesOf(d, s[i]) : k # l

\* check_conflicts() enters one pass more into device_index.
LEMMA IndexGrows ==
  ASSUME NEW n \in Nat, NEW s, NEW d, IsPass(s[n + 1]), NEW x, Indexes(x, n, s, d)
  PROVE  Indexes(x \o [k \in 1..Cardinality(PlacesOf(d, s[n + 1])) |-> n + 1], n + 1, s, d)
<1> DEFINE P == PlacesOf(d, s[n + 1])
           m == Cardinality(P)
           c == [k \in 1..m |-> n + 1]
           l == Len(x)
           y == x \o c
<1>1. m \in Nat /\ (m = 0 <=> P = {}) /\ (m >= 2 <=> \E k, j \in P : k # j)
  BY ListedPlaces
<1>2. /\ x \in Seq(1..n) /\ \A a, b \in 1..l : a < b => x[a] <= x[b]
      /\ \A i \in 1..n : (\E a \in 1..l : x[a] = i) <=> PlacesOf(d, s[i]) # {}
      /\ \A i \in 1..n : (\E a, b \in 1..l : a < b /\ x[a] = i /\ x[b] = i)
                           <=> \E k, j \in PlacesOf(d, s[i]) : k # j
  BY DEF Indexes
<1> HIDE DEF P, m
<1>3. 1..n \subseteq 1..(n + 1) /\ n + 1 \in 1..(n + 1) /\ n + 1 \notin 1..n
  OBVIOUS
<1>4. x \in Seq(1..(n + 1))
  BY <1>2, <1>3, WiderSequence
<1>5. c \in Seq(1..(n + 1)) /\ Len(c) = m /\ \A k \in 1..m : c[k] = n + 1
  BY <1>1, <1>3
<1> HIDE DEF c
<1>6. l \in Nat /\ \A a \in 1..l : x[a] \in 1..n
  BY <1>2
<1> HIDE DEF l
<1>7. /\ y \in Seq(1..(n + 1)) /\ Len(y) = l + m
      /\ \A a \in 1..l : y[a] = x[a]
      /\ \A a \in 1..m : y[l + a] = n + 1
  <2>1. /\ y \in Seq(1..(n + 1)) /\ Len(y) = Len(x) + Len(c)
        /\ \A a \in 1..Len(x) : y[a] = x[a]
        /\ \A a \in 1..Len(c) : y[Len(x) + a] = c[a]
    <3> DEFINE U == 1..(n + 1)
    <3>1. x \in Seq(U) /\ c \in Seq(U)
      BY <1>4, <1>5
    <3> HIDE DEF U
    <3>2. /\ x \o c \in Seq(U) /\ Len(x \o c) = Len(x) + Len(c)
          /\ \A i \in 1..Len(x) : (x \o c)[i] = x[i]
          /\ \A i \in 1..Len(c) : (x \o c)[Len(x) + i] = c[i]
      BY <3>1, Concatenated
    <3> QED BY <3>2, Zenon DEF U
  <2> QED BY <1>5, <2>1 DEF l
<1> HIDE DEF y
<1>8. \A a \in 1..(l + m) : a \in 1..l \/ (a > l /\ a - l \in 1..m)
  BY <1>1, <1>6
<1>9. ASSUME NEW a \in 1..(l + m), a > l PROVE y[a] = n + 1
  <2>1. a - l \in 1..m /\ l + (a - l) = a
    BY <1>1, <1>6, <1>9
  <2> QED BY <1>7, <2>1
<1>10. \A a \in 1..(l + m) : (a \in 1..l /\ y[a] = x[a] /\ y[a] \in 1..n) \/ (a > l /\ y[a] = n + 1)
  BY <1>6, <1>7, <1>8, <1>9
<1>11. \A a \in 1..l : a \in 1..(l + m)
  BY <1>1, <1>6
<1>12. ASSUME NEW a \in 1..(l + m), NEW b \in 1..(l + m), a < b PROVE y[a] <= y[b]
  <2>1. CASE b \in 1..l
    <3>1. a \in 1..l
      BY <1>6, <1>12, <2>1
    <3> QED BY <1>2, <1>7, <1>12, <2>1, <3>1
  <2>2. CASE b \notin 1..l
    <3>1. y[b] = n + 1
      BY <1>10, <2>2
    <3>2. y[a] \in 1..n \/ y[a] = n + 1
      BY <1>10
    <3> QED BY <3>1, <3>2
  <2> QED BY <2>1, <2>2
<1>13. ASSUME NEW i \in 1..(n + 1) PROVE (\E a \in 1..(l + m) : y[a] = i) <=> PlacesOf(d, s[i]) # {}
  <2>1. CASE i = n + 1
    <3>1. ASSUME P # {} PROVE \E a \in 1..(l + m) : y[a] = i
      <4>1. l + m \in 1..(l + m) /\ l + m > l
        BY <1>1, <1>6, <3>1
      <4> QED BY <1>9, <2>1, <4>1
    <3>2. ASSUME NEW a \in 1..(l + m), y[a] = i PROVE P # {}
      <4>1. a > l
        BY <1>3, <1>10, <2>1, <3>2
      <4>2. m # 0
        BY <1>6, <4>1
      <4> QED BY <1>1, <4>2
    <3> QED BY <2>1, <3>1, <3>2 DEF P
  <2>2. CASE i # n + 1
    <3>1. i \in 1..n
      BY <2>2
    <3>2. \A a \in 1..(l + m) : y[a] = i => a \in 1..l /\ x[a] = i
      BY <1>3, <1>10, <3>1
    <3>3. \A a \in 1..l : x[a] = i => a \in 1..(l + m) /\ y[a] = i
      BY <1>7, <1>11
    <3>4. (\E a \in 1..l : x[a] = i) <=> PlacesOf(d, s[i]) # {}
      BY <1>2, <3>1
    <3>5. (\E a \in 1..(l + m) : y[a] = i) <=> \E a \in 1..l : x[a] = i
      BY <3>2, <3>3, Zenon
    <3> QED BY <3>4, <3>5, Zenon
  <2> QED BY <2>1, <2>2
<1>14. ASSUME NEW i \in 1..(n + 1)
       PROVE  (\E a, b \in 1..(l + m) : a < b /\ y[a] = i /\ y[b] = i)
                <=> \E k, j \in PlacesOf(d, s[i]) : k # j
  <2>1. CASE i = n + 1
    <3>1. ASSUME m >= 2 PROVE \E a, b \in 1..(l + m) : a < b /\ y[a] = i /\ y[b] = i
      <4>1. l + 1 \in 1..(l + m) /\ l + 2 \in 1..(l + m) /\ l + 1 > l /\ l + 2 > l /\ l + 1 < l + 2
        BY <1>1, <1>6, <3>1
      <4>2. y[l + 1] = i /\ y[l + 2] = i
        BY <1>9, <2>1, <4>1
      <4> QED BY <4>1, <4>2
    <3>2. ASSUME NEW a \in 1..(l + m), NEW b \in 1..(l + m), a < b, y[a] = i, y[b] = i PROVE m >= 2
      <4>1. a > l /\ b > l
        BY <1>3, <1>10, <2>1, <3>2
      <4> QED BY <1>1, <1>6, <3>2, <4>1
    <3> QED BY <1>1, <2>1, <3>1, <3>2 DEF P
  <2>2. CASE i # n + 1
    <3>1. i \in 1..n
      BY <2>2
    <3>2. \A a \in 1..(l + m) : y[a] = i => a \in 1..l /\ x[a] = i
      BY <1>3, <1>10, <3>1
    <3> QED BY <1>2, <1>7, <1>11, <3>1, <3>2
  <2> QED BY <2>1, <2>2
<1>15. Indexes(y, n + 1, s, d)
  BY <1>7, <1>12, <1>13, <1>14 DEF Indexes
<1> QED BY <1>15 DEF y, c, m, P

\* device_index names, in order, the passes that list a device, as often as they list
\* it.
LEMMA IndexIsRight ==
  ASSUME NEW s, IsSchedule(s), NEW d
  PROVE  Indexes(DeviceIndex(s, d), Len(s), s, d)
<1> DEFINE n == Len(s)
           V == Seq(1..n)
           Turn(v, i) == v \o [k \in 1..Cardinality(PlacesOf(d, s[i])) |-> i]
           q == [i \in DOMAIN s |-> i]
           Solves(g) == g = [t \in SUBSET (1..n) |-> IF t = {} THEN <<>> ELSE Turn(g[t \ {Max(t)}], q[Max(t)])]
           f == CHOOSE g : Solves(g)
           step == [k \in 1..n |-> [v \in V |-> Turn(v, k)]]
<1>1. n \in Nat /\ DOMAIN s = 1..n /\ \A k \in 1..n : IsPass(s[k])
  BY ScheduleFields
<1>2. DeviceIndex(s, d) = f[1..n]
  <2>1. DOMAIN q = 1..n
    BY <1>1
  <2> QED BY <2>1 DEF DeviceIndex, FoldLeft, MapThenFoldSet
<1>3. \A k \in 1..n : q[k] = k
  BY <1>1
<1> HIDE DEF n, q
<1>4. ASSUME NEW v \in V, NEW k \in 1..n PROVE Turn(v, k) \in V
  <2> DEFINE m == Cardinality(PlacesOf(d, s[k]))
             c == [j \in 1..m |-> k]
  <2>1. m \in Nat
    BY <1>1, ListedPlaces
  <2> HIDE DEF m
  <2>2. c \in Seq(1..n)
    BY <2>1
  <2> HIDE DEF c
  <2>3. v \o c \in Seq(1..n)
    BY <2>2, Concatenated
  <2> QED BY <2>3 DEF m, c
<1> HIDE DEF Turn
<1>5. step \in FoldSteps(n, V)
  <2> HIDE DEF V
  <2> QED BY <1>4 DEF FoldSteps
<1>6. <<>> \in V
  OBVIOUS
<1> HIDE DEF V
<1>7. PICK e : Folds(e, n, V, <<>>, step)
  <2> HIDE DEF step
  <2> QED BY <1>1, <1>5, <1>6, FoldExists, Zenon
<1>8. Solves(e)
  BY <1>1, <1>3, <1>7, TopIsThere DEF Folds
<1> HIDE DEF step
<1>9. Solves(f)
  <2> HIDE DEF Solves
  <2> QED BY <1>8, Zenon
<1> HIDE DEF f
<1> DEFINE A == {k \in 0..n : Indexes(f[1..k], k, s, d)}
<1>10. 0 \in A
  <2>1. 1..0 = {} /\ 0 \in 0..n /\ {} \in SUBSET (1..n) /\ Len(<<>>) = 0
    BY <1>1
  <2>2. f[{}] = <<>>
    BY <1>9, <2>1
  <2>3. f[1..0] = <<>>
    BY <2>1, <2>2, Zenon
  <2>4. Indexes(<<>>, 0, s, d)
    BY <2>1 DEF Indexes
  <2> QED BY <2>1, <2>3, <2>4
<1>11. ASSUME NEW k \in 1..n, k - 1 \in A PROVE k \in A
  <2>1. /\ Max(1..k) = k /\ (1..k) \ {k} = 1..(k - 1)
        /\ 1..k \in SUBSET (1..n) /\ 1..k # {} /\ k \in 0..n /\ k - 1 \in 0..n
    BY <1>1, IntervalTop
  <2>2. f[1..k] = Turn(f[(1..k) \ {Max(1..k)}], q[Max(1..k)])
    BY <1>9, <2>1
  <2>3. f[1..k] = Turn(f[1..(k - 1)], k)
    BY <1>3, <2>1, <2>2
  <2> DEFINE b == k - 1
  <2>4. Indexes(f[1..b], b, s, d) /\ b \in Nat /\ b + 1 = k
    BY <1>11, <2>1
  <2> HIDE DEF b
  <2>5. IsPass(s[b + 1])
    BY <1>1, <2>4
  <2>6. Indexes(f[1..b] \o [j \in 1..Cardinality(PlacesOf(d, s[b + 1])) |-> b + 1], b + 1, s, d)
    BY <2>4, <2>5, IndexGrows
  <2>7. Indexes(Turn(f[1..b], k), k, s, d)
    BY <2>4, <2>6 DEF Turn
  <2> QED BY <2>1, <2>3, <2>7 DEF b
<1> HIDE DEF A
<1>12. \A k \in 0..n : k \in A
  BY <1>1, <1>10, <1>11, UpTo
<1>13. n \in A
  BY <1>1, <1>12
<1> QED BY <1>2, <1>13 DEF A, n

\* The pairs the two loops over a bucket visit.
LEMMA SeenPairs ==
  ASSUME NEW s, IsSchedule(s), NEW i, NEW j
  PROVE  /\ <<i, j>> \in Seen(s) <=>
              \E d \in AllDevices(s) :
                \E a, b \in 1..Len(DeviceIndex(s, d)) :
                  a < b /\ i = DeviceIndex(s, d)[a] /\ j = DeviceIndex(s, d)[b]
         /\ Seen(s) \subseteq (1..Len(s)) \X (1..Len(s))
<1> DEFINE X(d) == DeviceIndex(s, d)
           Pairs(d, a) == {<<X(d)[a], X(d)[b]>> : b \in (a + 1)..Len(X(d))}
<1>1. ASSUME NEW d
      PROVE  /\ X(d) \in Seq(1..Len(s)) /\ DOMAIN X(d) = 1..Len(X(d)) /\ Len(X(d)) \in Nat
             /\ \A a \in 1..Len(X(d)) : X(d)[a] \in 1..Len(s)
  <2>1. X(d) \in Seq(1..Len(s))
    BY IndexIsRight DEF Indexes
  <2> HIDE DEF X
  <2> QED BY <2>1
<1>2. Seen(s) = UNION {UNION {Pairs(d, a) : a \in DOMAIN X(d)} : d \in AllDevices(s)}
  BY DEF Seen
<1> HIDE DEF X
<1>3. ASSUME NEW d, NEW a \in 1..Len(X(d)), NEW x
      PROVE  x \in Pairs(d, a) <=> \E b \in 1..Len(X(d)) : a < b /\ x = <<X(d)[a], X(d)[b]>>
  <2>1. \A b : b \in (a + 1)..Len(X(d)) <=> b \in 1..Len(X(d)) /\ a < b
    BY <1>1
  <2> QED BY <2>1
<1> HIDE DEF Pairs
<1>4. ASSUME NEW x
      PROVE  x \in Seen(s) <=> \E d \in AllDevices(s) : \E a, b \in 1..Len(X(d)) : a < b /\ x = <<X(d)[a], X(d)[b]>>
  <2>1. x \in Seen(s) <=> \E d \in AllDevices(s) : \E a \in DOMAIN X(d) : x \in Pairs(d, a)
    BY <1>2
  <2> QED BY <1>1, <1>3, <2>1
<1>5. ASSUME NEW x \in Seen(s) PROVE x \in (1..Len(s)) \X (1..Len(s))
  <2>3. PICK d \in AllDevices(s) : \E a, b \in 1..Len(X(d)) : x = <<X(d)[a], X(d)[b]>>
    BY <1>4
  <2>1. PICK a \in 1..Len(X(d)), b \in 1..Len(X(d)) : x = <<X(d)[a], X(d)[b]>>
    BY <2>3
  <2>2. X(d)[a] \in 1..Len(s) /\ X(d)[b] \in 1..Len(s)
    BY <1>1
  <2> QED BY <2>1, <2>2
<1>6. <<i, j>> \in Seen(s) <=>
        \E d \in AllDevices(s) : \E a, b \in 1..Len(X(d)) : a < b /\ i = X(d)[a] /\ j = X(d)[b]
  <2>1. \A k, l : <<i, j>> = <<k, l>> <=> i = k /\ j = l
    OBVIOUS
  <2> QED BY <1>4, <2>1
<1> QED BY <1>5, <1>6 DEF X

LEMMA PlacesAreDevices ==
  ASSUME NEW p, NEW d
  PROVE  PlacesOf(d, p) # {} <=> d \in ToSet(DevicesListed(p))
  BY DEF PlacesOf, ToSet

\* Going device by device finds every pair of overlapping passes with a common device,
\* and no other.
LEMMA ConflictsAreExact ==
  ASSUME NEW s, IsSchedule(s), NEW i \in DOMAIN s, NEW j \in DOMAIN s
  PROVE  /\ i < j => (<<i, j>> \in check_conflicts(s)
                      <=> windows_overlap(s[i], s[j]) /\ Shared(s[i], s[j]))
         /\ <<i, i>> \in check_conflicts(s) <=> ~IsInjective(DevicesListed(s[i]))
<1> DEFINE n == Len(s)
           X(d) == DeviceIndex(s, d)
<1>1. n \in Nat /\ DOMAIN s = 1..n /\ i \in 1..n /\ j \in 1..n /\ IsPass(s[i]) /\ IsPass(s[j])
  BY ScheduleFields
<1>2. ASSUME NEW d
      PROVE  /\ X(d) \in Seq(1..n)
             /\ \A a, b \in 1..Len(X(d)) : a < b => X(d)[a] <= X(d)[b]
             /\ \A k \in 1..n : (\E a \in 1..Len(X(d)) : X(d)[a] = k) <=> PlacesOf(d, s[k]) # {}
             /\ \A k \in 1..n : (\E a, b \in 1..Len(X(d)) : a < b /\ X(d)[a] = k /\ X(d)[b] = k)
                                  <=> \E h, l \in PlacesOf(d, s[k]) : h # l
  <2>1. Indexes(X(d), n, s, d)
    BY IndexIsRight
  <2> HIDE DEF X, n
  <2> QED BY <2>1 DEF Indexes
<1>9. ASSUME NEW d
      PROVE  (\E a, b \in 1..Len(X(d)) : a < b /\ X(d)[a] = i /\ X(d)[b] = i)
               <=> \E h, l \in PlacesOf(d, s[i]) : h # l
  <2>1. Indexes(X(d), n, s, d)
    BY IndexIsRight
  <2> HIDE DEF X, n
  <2> QED BY <1>1, <2>1 DEF Indexes
<1>3. ASSUME NEW k, NEW l
      PROVE  <<k, l>> \in Seen(s) <=>
               \E d \in AllDevices(s) : \E a, b \in 1..Len(X(d)) : a < b /\ k = X(d)[a] /\ l = X(d)[b]
  BY SeenPairs
<1>4. \A k \in 1..n : \A d \in ToSet(DevicesListed(s[k])) : d \in AllDevices(s)
  BY <1>1 DEF AllDevices
<1> HIDE DEF n, X
<1>5. ASSUME i < j PROVE <<i, j>> \in Seen(s) <=> Shared(s[i], s[j])
  <2>1. ASSUME <<i, j>> \in Seen(s) PROVE Shared(s[i], s[j])
    <3>4. PICK d \in AllDevices(s) : \E a, b \in 1..Len(X(d)) : i = X(d)[a] /\ j = X(d)[b]
      BY <1>3, <2>1
    <3>1. PICK a \in 1..Len(X(d)), b \in 1..Len(X(d)) : i = X(d)[a] /\ j = X(d)[b]
      BY <3>4
    <3>2. PlacesOf(d, s[i]) # {} /\ PlacesOf(d, s[j]) # {}
      BY <1>1, <1>2, <3>1
    <3>3. d \in ToSet(DevicesListed(s[i])) /\ d \in ToSet(DevicesListed(s[j]))
      BY <3>2, PlacesAreDevices
    <3> QED BY <3>3 DEF Shared
  <2>2. ASSUME Shared(s[i], s[j]) PROVE <<i, j>> \in Seen(s)
    <3>1. PICK d : d \in ToSet(DevicesListed(s[i])) /\ d \in ToSet(DevicesListed(s[j]))
      BY <2>2 DEF Shared
    <3>2. PlacesOf(d, s[i]) # {} /\ PlacesOf(d, s[j]) # {}
      BY <3>1, PlacesAreDevices
    <3>3. PICK a \in 1..Len(X(d)) : X(d)[a] = i
      BY <1>1, <1>2, <3>2
    <3>4. PICK b \in 1..Len(X(d)) : X(d)[b] = j
      BY <1>1, <1>2, <3>2
    <3>5. a < b
      <4>1. X(d) \in Seq(1..n) /\ a \in Int /\ b \in Int
        BY <1>2
      <4>2. ~ (b < a)
        <5> SUFFICES ASSUME b < a PROVE FALSE
          OBVIOUS
        <5>1. j <= i
          BY <1>2, <3>3, <3>4
        <5> QED BY <1>1, <1>5, <5>1
      <4>3. a # b
        BY <1>1, <1>5, <3>3, <3>4
      <4> QED BY <4>1, <4>2, <4>3
    <3>6. d \in AllDevices(s)
      BY <1>1, <1>4, <3>1
    <3> QED BY <1>3, <3>3, <3>4, <3>5, <3>6
  <2> QED BY <2>1, <2>2
<1>6. <<i, i>> \in Seen(s) <=> ~IsInjective(DevicesListed(s[i]))
  <2> DEFINE L == DevicesListed(s[i])
  <2>1. IsInjective(L) <=> \A h, l \in DOMAIN L : L[h] = L[l] => h = l
    BY DEF IsInjective
  <2>2. \A d : PlacesOf(d, s[i]) = {k \in DOMAIN L : L[k] = d}
    BY DEF PlacesOf
  <2> HIDE DEF L
  <2>3. ASSUME <<i, i>> \in Seen(s) PROVE ~IsInjective(L)
    <3>3. PICK d \in AllDevices(s) : \E a, b \in 1..Len(X(d)) : a < b /\ i = X(d)[a] /\ i = X(d)[b]
      BY <1>3, <2>3
    <3>1. PICK a \in 1..Len(X(d)), b \in 1..Len(X(d)) : a < b /\ i = X(d)[a] /\ i = X(d)[b]
      BY <3>3
    <3>4. (\E x, y \in 1..Len(X(d)) : x < y /\ X(d)[x] = i /\ X(d)[y] = i) <=> \E h, l \in PlacesOf(d, s[i]) : h # l
      BY <1>9
    <3>2. \E h, l \in PlacesOf(d, s[i]) : h # l
      BY <3>1, <3>4
    <3> QED BY <2>1, <2>2, <3>2
  <2>4. ASSUME ~IsInjective(L) PROVE <<i, i>> \in Seen(s)
    <3>1. PICK h \in DOMAIN L, l \in DOMAIN L : L[h] = L[l] /\ h # l
      BY <2>1, <2>4
    <3> DEFINE d == L[h]
    <3>2. h \in PlacesOf(d, s[i]) /\ l \in PlacesOf(d, s[i])
      BY <2>2, <3>1
    <3> HIDE DEF d
    <3>3. PICK a \in 1..Len(X(d)), b \in 1..Len(X(d)) : a < b /\ X(d)[a] = i /\ X(d)[b] = i
      BY <1>1, <1>2, <3>1, <3>2
    <3>4. d \in AllDevices(s)
      BY <1>1, <1>4, <3>2, PlacesAreDevices
    <3> QED BY <1>3, <3>3, <3>4
  <2> QED BY <2>3, <2>4 DEF L
<1>7. windows_overlap(s[i], s[i])
  BY <1>1 DEF windows_overlap, IsPass
<1>8. ASSUME NEW k, NEW l PROVE <<k, l>> \in check_conflicts(s) <=> <<k, l>> \in Seen(s) /\ windows_overlap(s[k], s[l])
  BY DEF check_conflicts
<1> QED BY <1>5, <1>6, <1>7, <1>8

LEMMA ConflictsAreCounted == ASSUME NEW s, IsSchedule(s) PROVE Cardinality(check_conflicts(s)) \in Nat
<1>1. check_conflicts(s) \subseteq (1..Len(s)) \X (1..Len(s))
  BY SeenPairs DEF check_conflicts
<1>2. Len(s) \in Int /\ 1 \in Int
  BY ScheduleFields
<1>3. IsFiniteSet(1..Len(s))
  BY <1>2, FS_Interval
<1>4. IsFiniteSet((1..Len(s)) \X (1..Len(s)))
  BY <1>3, FS_Product
<1>5. IsFiniteSet(check_conflicts(s))
  BY <1>1, <1>4, FS_Subset
<1> QED BY <1>5, FS_CardinalityType

\* The keyhole penalties of a schedule have a sum.
LEMMA PenaltiesAddUp ==
  ASSUME NEW s, IsSchedule(s)
  PROVE  KeyholePenalties(s) \in Int
<1> DEFINE n == Len(s)
           Turn(v, p) == v + KeyholePenalty(p)
           Solves(g) == g = [t \in SUBSET (1..n) |-> IF t = {} THEN 0 ELSE Turn(g[t \ {Max(t)}], s[Max(t)])]
           f == CHOOSE g : Solves(g)
           step == [k \in 1..n |-> [v \in Int |-> Turn(v, s[k])]]
<1>1. n \in Nat /\ DOMAIN s = 1..n /\ \A k \in 1..n : IsPass(s[k])
  BY ScheduleFields
<1>2. KeyholePenalties(s) = f[1..n]
  BY <1>1 DEF KeyholePenalties, FoldLeft, MapThenFoldSet
<1> HIDE DEF n
<1>3. ASSUME NEW p, IsPass(p) PROVE KeyholePenalty(p) \in Int
  <2> DEFINE q == p.keyhole_warning
  <2>1. q \in Seq(ToSet(q)) /\ \A w \in ToSet(q) : w.loss \in 0..100 /\ w.handoff_scheduled \in BOOLEAN
    BY <1>3 DEF IsPass, IsSequence
  <2> HIDE DEF q
  <2>2. CASE q # <<>>
    <3>1. q[1] \in ToSet(q)
      BY <2>1, <2>2 DEF ToSet
    <3>2. q[1].loss \in 0..100
      BY <2>1, <3>1
    <3> DEFINE x == q[1].loss
    <3>3. -6 * x \in Int /\ -20 * x \in Int
      BY <3>2
    <3> QED BY <2>2, <3>3 DEF KeyholePenalty, keyhole_score_penalty, q
  <2>3. CASE q = <<>>
    BY <2>3 DEF KeyholePenalty, q
  <2> QED BY <2>2, <2>3
<1>4. ASSUME NEW v \in Int, NEW k \in 1..n PROVE Turn(v, s[k]) \in Int
  BY <1>1, <1>3
<1> HIDE DEF Turn
<1>5. step \in FoldSteps(n, Int)
  BY <1>4 DEF FoldSteps
<1>6. PICK e : Folds(e, n, Int, 0, step)
  <2> HIDE DEF step
  <2>1. 0 \in Int
    OBVIOUS
  <2> QED BY <1>1, <1>5, <2>1, FoldExists, Zenon
<1>7. Solves(e)
  BY <1>1, <1>6, TopIsThere DEF Folds
<1> HIDE DEF step
<1>8. Solves(f)
  <2> HIDE DEF Solves
  <2> QED BY <1>7, Zenon
<1> HIDE DEF f
<1> DEFINE A == {k \in 0..n : f[1..k] \in Int}
<1>9. 0 \in A
  <2>1. 1..0 = {} /\ 0 \in 0..n /\ {} \in SUBSET (1..n)
    BY <1>1
  <2>2. f[{}] = 0
    BY <1>8, <2>1
  <2>3. f[1..0] = 0
    BY <2>1, <2>2, Zenon
  <2> QED BY <2>1, <2>3
<1>10. ASSUME NEW k \in 1..n, k - 1 \in A PROVE k \in A
  <2>1. /\ Max(1..k) = k /\ (1..k) \ {k} = 1..(k - 1)
        /\ 1..k \in SUBSET (1..n) /\ 1..k # {} /\ k \in 0..n /\ k - 1 \in 0..n
    BY <1>1, IntervalTop
  <2>2. f[1..k] = Turn(f[(1..k) \ {Max(1..k)}], s[Max(1..k)])
    BY <1>8, <2>1
  <2>3. f[1..k] = Turn(f[1..(k - 1)], s[k])
    BY <2>1, <2>2
  <2> QED BY <1>4, <1>10, <2>1, <2>3
<1> HIDE DEF A
<1>11. \A k \in 0..n : k \in A
  BY <1>1, <1>9, <1>10, UpTo
<1>12. n \in A
  BY <1>1, <1>11
<1> QED BY <1>2, <1>12 DEF A

LEMMA ScoresAreIntegers == ASSUME NEW s, IsSchedule(s) PROVE evaluate_schedule(s) \in Int
<1> DEFINE c == Cardinality(check_conflicts(s))
           k == KeyholePenalties(s)
           m == compute_fulfilled_ratio(s)
<1>1. c \in Int
  BY ConflictsAreCounted
<1>2. k \in Int
  BY PenaltiesAddUp
<1>3. m \in Int
  <2>1. s \in Seq(ToSet(s)) /\ Len(s) \in Nat /\ DOMAIN s = 1..Len(s)
    BY ScheduleFields
  <2>2. Cardinality(Fulfilled(s)) \in Nat
    <3>1. Len(s) \in Int /\ 1 \in Int
      BY <2>1
    <3>2. IsFiniteSet(1..Len(s))
      BY <3>1, FS_Interval
    <3>3. Fulfilled(s) \subseteq 1..Len(s)
      BY <2>1 DEF Fulfilled
    <3> QED BY <3>2, <3>3, FS_Subset, FS_CardinalityType
  <2>3. CASE s # <<>>
    <3>1. Len(s) \in Nat \ {0}
      BY <2>1, <2>3
    <3> DEFINE x == Cardinality(Fulfilled(s))
               l == Len(s)
    <3> HIDE DEF x, l
    <3>2. (600 * x) \div l \in Int
      BY <2>2, <3>1 DEF x, l
    <3> QED BY <2>3, <3>2 DEF compute_fulfilled_ratio, x, l
  <2>4. CASE s = <<>>
    BY <2>4 DEF compute_fulfilled_ratio
  <2> QED BY <2>3, <2>4
<1> HIDE DEF c, k, m
<1>4. m - 4000 * c + k \in Int
  BY <1>1, <1>2, <1>3
<1> QED BY <1>4 DEF evaluate_schedule, c, k, m

-----------------------------------------------------------------------------
(* Counting the passes of a request. *)

\* Sets with a one-to-one correspondence have as many elements.
LEMMA AsMany ==
  ASSUME NEW S, NEW T, IsFiniteSet(S), NEW g \in [S -> T],
         \A x, y \in S : g[x] = g[y] => x = y, \A t \in T : \E x \in S : g[x] = t
  PROVE  IsFiniteSet(T) /\ Cardinality(T) = Cardinality(S)
<1>1. g \in Bijection(S, T)
  <2>1. \A x, y \in DOMAIN g : g[x] = g[y] => x = y
    OBVIOUS
  <2>2. g \in Injection(S, T)
    BY <2>1, Zenon DEF Injection, IsInjective
  <2>3. g \in Surjection(S, T)
    BY Zenon DEF Surjection
  <2> QED BY <2>2, <2>3 DEF Bijection
<1>2. ExistsBijection(S, T)
  BY <1>1 DEF ExistsBijection
<1> QED BY <1>2, FS_Bijection

\* The passes of a request in a schedule.
Of(s, id) == {i \in DOMAIN s : s[i].request = id}

\* How often a request is scheduled, as the number of its places.
LEMMA PassesAreCounted ==
  ASSUME NEW s, IsSchedule(s), NEW id
  PROVE  /\ Times(s, id) = Cardinality(Of(s, id)) /\ IsFiniteSet(Of(s, id)) /\ Times(s, id) \in Nat
         /\ Lengths(s, id) = {s[i].end - s[i].start : i \in Of(s, id)}
         /\ Of(s, id) \subseteq 1..Len(s) /\ (Times(s, id) = 0 <=> id \notin Ids(s))
<1>1. Times(s, id) = Cardinality(Of(s, id))
  BY DEF Times, Of
<1>2. Len(s) \in Int /\ 1 \in Int /\ DOMAIN s = 1..Len(s)
  BY ScheduleFields
<1>3. IsFiniteSet(1..Len(s))
  BY <1>2, FS_Interval
<1>4. Of(s, id) \subseteq 1..Len(s)
  BY <1>2 DEF Of
<1>5. IsFiniteSet(Of(s, id))
  BY <1>3, <1>4, FS_Subset
<1>6. Cardinality(Of(s, id)) \in Nat /\ (Cardinality(Of(s, id)) = 0 <=> Of(s, id) = {})
  BY <1>5, FS_CardinalityType, FS_EmptySet
<1>7. Of(s, id) = {} <=> id \notin Ids(s)
  BY DEF Of, Ids
<1>8. Lengths(s, id) = {s[i].end - s[i].start : i \in Of(s, id)}
  BY DEF Lengths, Of
<1> QED BY <1>1, <1>4, <1>5, <1>6, <1>7, <1>8

LEMMA ReplacedKeeps ==
  ASSUME NEW s, NEW p, IsSchedule(s), IsPass(p), NEW i \in 1..Len(s), p.request = s[i].request,
         p.end - p.start = s[i].end - s[i].start, NEW id
  PROVE  /\ Times([s EXCEPT ![i] = p], id) = Times(s, id)
         /\ Lengths([s EXCEPT ![i] = p], id) = Lengths(s, id)
<1> DEFINE n == [s EXCEPT ![i] = p]
<1>1. /\ IsSchedule(n) /\ Len(n) = Len(s) /\ DOMAIN n = 1..Len(s)
      /\ n[i] = p /\ \A j \in 1..Len(s) : j # i => n[j] = s[j]
  BY PassReplaced
<1>2. DOMAIN s = 1..Len(s)
  BY ScheduleFields
<1> HIDE DEF n
<1>3. \A j \in 1..Len(s) : n[j].request = s[j].request /\ n[j].end - n[j].start = s[j].end - s[j].start
  BY <1>1
<1>4. Of(n, id) = Of(s, id)
  BY <1>1, <1>2, <1>3 DEF Of
<1>5. \A j \in Of(s, id) : n[j].end - n[j].start = s[j].end - s[j].start
  BY <1>2, <1>3 DEF Of
<1>6. Times(n, id) = Times(s, id)
  BY <1>1, <1>4, PassesAreCounted
<1>7. Lengths(n, id) = Lengths(s, id)
  <2>1. Lengths(n, id) = {n[j].end - n[j].start : j \in Of(s, id)}
    BY <1>1, <1>4, PassesAreCounted
  <2>2. Lengths(s, id) = {s[j].end - s[j].start : j \in Of(s, id)}
    BY PassesAreCounted
  <2> QED BY <1>5, <2>1, <2>2
<1> QED BY <1>6, <1>7 DEF n

LEMMA SwappedKeeps ==
  ASSUME NEW s, IsSchedule(s), NEW i \in 1..Len(s), i # 1
  PROVE  /\ IsSchedule(Swapped(s, i)) /\ Len(Swapped(s, i)) = Len(s)
         /\ \A j \in 1..Len(s) : \E k \in 1..Len(s) : Swapped(s, i)[j] = s[k]
         /\ \A id : Times(Swapped(s, i), id) = Times(s, id) /\ Lengths(Swapped(s, i), id) = Lengths(s, id)
<1> DEFINE h == i - 1
           m == [s EXCEPT ![i] = s[h]]
           n == [m EXCEPT ![h] = s[i]]
           turn(j) == IF j = i THEN h ELSE IF j = h THEN i ELSE j
<1>1. Len(s) \in Nat /\ DOMAIN s = 1..Len(s) /\ \A j \in 1..Len(s) : IsPass(s[j])
  BY ScheduleFields
<1>2. h \in 1..Len(s) /\ h # i
  BY <1>1
<1>3. Swapped(s, i) = n
  BY DEF Swapped
<1>4. /\ IsSchedule(m) /\ Len(m) = Len(s) /\ m[i] = s[h] /\ \A j \in 1..Len(s) : j # i => m[j] = s[j]
  <2> HIDE DEF h
  <2> QED BY <1>1, <1>2, PassReplaced
<1> HIDE DEF m, h
<1>5. /\ IsSchedule(n) /\ Len(n) = Len(s) /\ DOMAIN n = 1..Len(s)
      /\ n[h] = s[i] /\ \A j \in 1..Len(s) : j # h => n[j] = m[j]
  BY <1>1, <1>2, <1>4, PassReplaced
<1> HIDE DEF n
<1>6. \A j \in 1..Len(s) : n[j] = s[turn(j)] /\ turn(j) \in 1..Len(s) /\ turn(turn(j)) = j
  BY <1>2, <1>4, <1>5
<1> HIDE DEF turn
<1>7. ASSUME NEW id PROVE Times(n, id) = Times(s, id) /\ Lengths(n, id) = Lengths(s, id)
  <2> DEFINE A == Of(s, id)
             B == Of(n, id)
             g == [j \in A |-> turn(j)]
  <2>1. /\ Times(s, id) = Cardinality(A) /\ IsFiniteSet(A) /\ Times(n, id) = Cardinality(B)
        /\ Lengths(s, id) = {s[j].end - s[j].start : j \in A}
        /\ Lengths(n, id) = {n[j].end - n[j].start : j \in B}
    BY <1>5, PassesAreCounted
  <2>2. \A j \in A : j \in 1..Len(s) /\ turn(j) \in B
    BY <1>1, <1>5, <1>6 DEF Of
  <2>3. \A j \in B : j \in 1..Len(s) /\ turn(j) \in A /\ turn(turn(j)) = j
    BY <1>1, <1>5, <1>6 DEF Of
  <2> HIDE DEF A, B
  <2>4. g \in [A -> B] /\ \A x, y \in A : g[x] = g[y] => x = y
    BY <1>6, <2>2
  <2>5. \A t \in B : \E x \in A : g[x] = t
    BY <2>3
  <2> HIDE DEF g
  <2>6. Cardinality(B) = Cardinality(A)
    BY <2>1, <2>4, <2>5, AsMany
  <2>7. {n[j].end - n[j].start : j \in B} = {s[j].end - s[j].start : j \in A}
    <3>1. ASSUME NEW j \in B PROVE turn(j) \in A /\ n[j].end - n[j].start = s[turn(j)].end - s[turn(j)].start
      BY <1>6, <2>3
    <3>2. ASSUME NEW j \in A PROVE turn(j) \in B /\ n[turn(j)].end - n[turn(j)].start = s[j].end - s[j].start
      <4>1. n[turn(j)] = s[turn(turn(j))] /\ turn(turn(j)) = j /\ turn(j) \in B
        BY <1>6, <2>2
      <4> QED BY <4>1
    <3> QED BY <3>1, <3>2
  <2> QED BY <2>1, <2>6, <2>7
<1>8. \A j \in 1..Len(s) : \E k \in 1..Len(s) : n[j] = s[k]
  BY <1>6
<1> QED BY <1>3, <1>5, <1>7, <1>8

LEMMA AppendedCounts ==
  ASSUME NEW s, NEW p, IsSchedule(s), IsPass(p), NEW id
  PROVE  /\ Times(Append(s, p), id) = IF p.request = id THEN Times(s, id) + 1 ELSE Times(s, id)
         /\ Lengths(Append(s, p), id) = IF p.request = id THEN Lengths(s, id) \cup {p.end - p.start} ELSE Lengths(s, id)
<1> DEFINE n == Append(s, p)
           l == Len(s)
           A == Of(s, id)
<1>1. /\ IsSchedule(n) /\ Len(n) = l + 1 /\ n[l + 1] = p /\ \A i \in 1..l : n[i] = s[i]
  BY PassAppends
<1> HIDE DEF n
<1>2. DOMAIN n = 1..(l + 1) /\ DOMAIN s = 1..l /\ l \in Nat
  BY <1>1, ScheduleFields
<1> HIDE DEF l
<1>3. 1..(l + 1) = (1..l) \cup {l + 1} /\ l + 1 \notin 1..l
  BY <1>2
<1>4. Of(n, id) = IF p.request = id THEN A \cup {l + 1} ELSE A
  BY <1>1, <1>2, <1>3 DEF Of
<1>5. A \subseteq 1..l
  BY <1>2 DEF Of
<1>6. /\ Times(s, id) = Cardinality(A) /\ IsFiniteSet(A) /\ Times(n, id) = Cardinality(Of(n, id))
      /\ Lengths(s, id) = {s[j].end - s[j].start : j \in A}
      /\ Lengths(n, id) = {n[j].end - n[j].start : j \in Of(n, id)}
  BY <1>1, PassesAreCounted
<1> HIDE DEF A
<1>7. Cardinality(A \cup {l + 1}) = Cardinality(A) + 1
  BY <1>3, <1>5, <1>6, FS_AddElement
<1>8. \A j \in A : n[j].end - n[j].start = s[j].end - s[j].start
  BY <1>1, <1>5
<1>9. CASE p.request = id
  <2>1. {n[j].end - n[j].start : j \in A \cup {l + 1}} = {s[j].end - s[j].start : j \in A} \cup {p.end - p.start}
    BY <1>1, <1>8
  <2> QED BY <1>4, <1>6, <1>7, <1>9, <2>1 DEF n
<1>10. CASE p.request # id
  <2>1. {n[j].end - n[j].start : j \in A} = {s[j].end - s[j].start : j \in A}
    BY <1>8
  <2> QED BY <1>4, <1>6, <1>10, <2>1 DEF n
<1> QED BY <1>9, <1>10

LEMMA JoinedCounts ==
  ASSUME NEW s, NEW t, IsSchedule(s), IsSchedule(t), NEW id
  PROVE  Times(s \o t, id) = Times(s, id) + Times(t, id)
<1> DEFINE n == s \o t
           l == Len(s)
           m == Len(t)
           A == Of(s, id)
           B == Of(t, id)
           C == {l + i : i \in B}
           g == [i \in B |-> l + i]
<1>1. /\ IsSchedule(n) /\ Len(n) = l + m
      /\ \A i \in 1..l : n[i] = s[i]
      /\ \A i \in 1..m : n[l + i] = t[i]
  BY SchedulesJoin
<1> HIDE DEF n
<1>2. DOMAIN n = 1..(l + m) /\ DOMAIN s = 1..l /\ DOMAIN t = 1..m /\ l \in Nat /\ m \in Nat
  BY <1>1, ScheduleFields
<1>3. /\ Times(s, id) = Cardinality(A) /\ IsFiniteSet(A) /\ Times(n, id) = Cardinality(Of(n, id))
      /\ Times(t, id) = Cardinality(B) /\ IsFiniteSet(B) /\ A \subseteq 1..l /\ B \subseteq 1..m
      /\ Times(s, id) \in Nat /\ Times(t, id) \in Nat
  BY <1>1, PassesAreCounted
<1> HIDE DEF l, m
<1>4. \A i \in 1..(l + m) : i \in 1..l \/ (i - l \in 1..m /\ l + (i - l) = i)
  BY <1>2
<1>5. \A i \in 1..l : i \in 1..(l + m)
  BY <1>2
<1>6. \A i \in 1..m : l + i \in 1..(l + m) /\ l + i \notin 1..l /\ (l + i) - l = i
  BY <1>2
<1>7. Of(n, id) = A \cup C
  <2>1. ASSUME NEW i \in Of(n, id) PROVE i \in A \cup C
    <3>1. i \in 1..(l + m) /\ n[i].request = id
      BY <1>2, <2>1 DEF Of
    <3>2. CASE i \in 1..l
      BY <1>1, <1>2, <3>1, <3>2 DEF Of
    <3>3. CASE i - l \in 1..m /\ l + (i - l) = i
      <4>1. i - l \in B
        BY <1>1, <1>2, <3>1, <3>3 DEF Of
      <4> QED BY <3>3, <4>1
    <3> QED BY <1>4, <3>1, <3>2, <3>3
  <2>2. ASSUME NEW i \in A PROVE i \in Of(n, id)
    BY <1>1, <1>2, <1>5 DEF Of
  <2>3. ASSUME NEW i \in B PROVE l + i \in Of(n, id)
    BY <1>1, <1>2, <1>6 DEF Of
  <2> QED BY <2>1, <2>2, <2>3
<1> HIDE DEF A, B
<1>8. g \in [B -> C] /\ (\A x, y \in B : g[x] = g[y] => x = y) /\ \A c \in C : \E x \in B : g[x] = c
  BY <1>2, <1>3
<1>9. A \cap C = {}
  BY <1>3, <1>6
<1> HIDE DEF C, g
<1>10. IsFiniteSet(C) /\ Cardinality(C) = Cardinality(B)
  BY <1>3, <1>8, AsMany
<1>11. Cardinality(A \cup C) = Cardinality(A) + Cardinality(C) - Cardinality(A \cap C)
  BY <1>3, <1>10, FS_Union
<1>12. Cardinality(A \cap C) = 0
  BY <1>9, FS_EmptySet
<1> QED BY <1>3, <1>7, <1>10, <1>11, <1>12 DEF n

LEMMA KeptIsFilter == ASSUME NEW s, NEW T PROVE Keep(s, T) = Filter(s, T)
  BY DEF Keep, Filter

\* What is kept of a schedule is one, and with what is not kept makes up the whole.
LEMMA KeptPasses ==
  ASSUME NEW s, IsSchedule(s), NEW T
  PROVE  /\ IsSchedule(Keep(s, T))
         /\ \A j \in 1..Len(Keep(s, T)) : Keep(s, T)[j] \in T
         /\ \A id : Times(Keep(s, T), id) = Cardinality({i \in Of(s, id) : s[i] \in T})
<1> DEFINE r == Keep(s, T)
           R == {i \in DOMAIN s : s[i] \in T}
           S == ToSet(s)
<1>1. s \in Seq(S) /\ Len(s) \in Nat /\ DOMAIN s = 1..Len(s) /\ \A i \in 1..Len(s) : IsPass(s[i])
  BY ScheduleFields
<1> HIDE DEF S
<1>2. r \in Seq(S) /\ \E pos : Places(pos, r, Len(r), s, Len(s), R)
  BY <1>1, FilterPlaces, KeptIsFilter
<1> HIDE DEF r
<1>3. PICK pos : Places(pos, r, Len(r), s, Len(s), R)
  BY <1>2
<1>4. /\ pos \in [1..Len(r) -> 1..Len(s)]
      /\ \A i, j \in 1..Len(r) : i < j => pos[i] < pos[j]
      /\ \A j \in 1..Len(r) : r[j] = s[pos[j]] /\ pos[j] \in R
      /\ \A i \in R : \E j \in 1..Len(r) : pos[j] = i
  BY <1>3 DEF Places
<1>5. IsSequence(r) /\ DOMAIN r = 1..Len(r) /\ Len(r) \in Nat
  BY <1>2, SequenceOf
<1>6. \A j \in 1..Len(r) : IsPass(r[j]) /\ r[j] \in T /\ pos[j] \in 1..Len(s)
  BY <1>1, <1>4
<1>7. IsSchedule(r)
  BY <1>5, <1>6 DEF IsSchedule
<1>8. ASSUME NEW id PROVE Times(r, id) = Cardinality({i \in Of(s, id) : s[i] \in T})
  <2> DEFINE A == Of(r, id)
             B == {i \in Of(s, id) : s[i] \in T}
             g == [j \in A |-> pos[j]]
  <2>1. Times(r, id) = Cardinality(A) /\ IsFiniteSet(A) /\ A \subseteq 1..Len(r)
    BY <1>7, PassesAreCounted
  <2>2. \A j \in A : pos[j] \in B
    BY <1>1, <1>4, <1>5, <1>6 DEF Of
  <2>3. \A i \in B : \E j \in A : pos[j] = i
    <3> SUFFICES ASSUME NEW i \in B PROVE \E j \in A : pos[j] = i
      OBVIOUS
    <3>1. i \in R /\ s[i].request = id
      BY DEF Of
    <3>2. PICK j \in 1..Len(r) : pos[j] = i
      BY <1>4, <3>1
    <3> QED BY <1>4, <1>5, <3>1, <3>2 DEF Of
  <2> HIDE DEF A, B
  <2>4. \A x, y \in A : pos[x] = pos[y] => x = y
    <3> SUFFICES ASSUME NEW x \in A, NEW y \in A, pos[x] = pos[y], x # y PROVE FALSE
      OBVIOUS
    <3>1. x \in 1..Len(r) /\ y \in 1..Len(r) /\ pos[x] \in 1..Len(s) /\ pos[y] \in 1..Len(s)
      BY <1>6, <2>1
    <3>2. x < y \/ y < x
      BY <3>1
    <3>3. pos[x] < pos[y] \/ pos[y] < pos[x]
      BY <1>4, <3>1, <3>2
    <3> QED BY <3>1, <3>3
  <2>5. g \in [A -> B] /\ (\A x, y \in A : g[x] = g[y] => x = y) /\ \A t \in B : \E x \in A : g[x] = t
    BY <2>2, <2>3, <2>4
  <2> HIDE DEF g
  <2>6. Cardinality(B) = Cardinality(A)
    BY <2>1, <2>5, AsMany
  <2> QED BY <2>1, <2>6 DEF B
<1> QED BY <1>6, <1>7, <1>8 DEF r

\* incremental_optimize() shares a schedule out between what has begun and what has not.
LEMMA CommittedAndFuture ==
  ASSUME NEW s, IsSchedule(s), schedule_now \in Int
  PROVE  /\ IsSchedule(Committed(s)) /\ IsSchedule(Future(s))
         /\ \A i \in 1..Len(Future(s)) : Future(s)[i].start > schedule_now
         /\ \A id : Times(s, id) = Times(Committed(s), id) + Times(Future(s), id)
<1> DEFINE P == {p \in ToSet(s) : p.start <= schedule_now}
           Q == {p \in ToSet(s) : p.start > schedule_now}
<1>1. \A i \in 1..Len(s) : IsPass(s[i]) /\ s[i] \in ToSet(s)
  BY ScheduleFields
<1>2. \A i \in 1..Len(s) : s[i].start \in Int
  BY <1>1 DEF IsPass
<1>3. \A i \in 1..Len(s) : s[i] \in P <=> s[i] \notin Q
  BY <1>1, <1>2
<1>4. \A p \in Q : p.start > schedule_now
  OBVIOUS
<1>5. Committed(s) = Keep(s, P) /\ Future(s) = Keep(s, Q)
  BY DEF Committed, Future
<1> HIDE DEF P, Q
<1>6. IsSchedule(Keep(s, P)) /\ IsSchedule(Keep(s, Q)) /\ \A j \in 1..Len(Keep(s, Q)) : Keep(s, Q)[j] \in Q
  BY KeptPasses
<1>7. ASSUME NEW id PROVE Times(s, id) = Times(Keep(s, P), id) + Times(Keep(s, Q), id)
  <2> DEFINE A == {i \in Of(s, id) : s[i] \in P}
             B == {i \in Of(s, id) : s[i] \in Q}
  <2>1. Times(Keep(s, P), id) = Cardinality(A) /\ Times(Keep(s, Q), id) = Cardinality(B)
    BY KeptPasses
  <2>2. /\ Times(s, id) = Cardinality(Of(s, id)) /\ IsFiniteSet(Of(s, id)) /\ Of(s, id) \subseteq 1..Len(s)
    BY PassesAreCounted
  <2>3. A \cup B = Of(s, id) /\ A \cap B = {} /\ A \subseteq Of(s, id) /\ B \subseteq Of(s, id)
    BY <1>3, <2>2
  <2> HIDE DEF A, B
  <2>4. IsFiniteSet(A) /\ IsFiniteSet(B)
    BY <2>2, <2>3, FS_Subset
  <2>5. Cardinality(A \cup B) = Cardinality(A) + Cardinality(B) - Cardinality(A \cap B)
    BY <2>4, FS_Union
  <2>6. Cardinality(A \cap B) = 0 /\ Cardinality(A) \in Nat /\ Cardinality(B) \in Nat
    BY <2>3, <2>4, FS_EmptySet, FS_CardinalityType
  <2> DEFINE a == Cardinality(A)
             b == Cardinality(B)
             c == Cardinality(Of(s, id))
  <2>7. c = a + b - 0 /\ a \in Nat /\ b \in Nat
    BY <2>3, <2>5, <2>6
  <2> HIDE DEF a, b, c
  <2>8. c = a + b
    BY <2>7
  <2> QED BY <2>1, <2>2, <2>8 DEF a, b, c
<1> QED BY <1>4, <1>5, <1>6, <1>7

-----------------------------------------------------------------------------
(* Neighbours. *)

IsRequest(r) == r.start \in Int /\ r.end \in Int /\ r.start < r.end

AreRequests(q) == IsSequence(q) /\ \A r \in ToSet(q) : IsRequest(r)

LEMMA SmallSequences == ASSUME NEW x PROVE IsSequence(<<x>>) /\ IsSequence(<<>>) /\ ToSet(<<>>) = {} /\ ToSet(<<x>>) = {x}
<1>1. ToSet(<<>>) = {} /\ ToSet(<<x>>) = {x}
  BY DEF ToSet
<1>2. <<>> \in Seq({}) /\ <<x>> \in Seq({x})
  OBVIOUS
<1> QED BY <1>1, <1>2 DEF IsSequence

\* create_pass_from_request() gives the request the window it asks for.
LEMMA CreatedPass ==
  ASSUME NEW r, IsRequest(r)
  PROVE  LET p == create_pass_from_request(r)
         IN  IsPass(p) /\ p.request = r.id /\ p.start = r.start /\ p.end = r.end
<1> DEFINE a == <<FirstOr(Sdrs, FallbackSdr)>>
           b == IF r.shadow /\ ShadowSdrs # <<>> THEN <<Head(ShadowSdrs)>> ELSE <<>>
           c == FirstOr(Antennas, FallbackAntenna)
           d == FirstOr(Rotators, FallbackRotator)
           p == [request |-> r.id, start |-> r.start, end |-> r.end, sdr_devices |-> a, shadow_sdr |-> b,
                 antenna |-> c, rotator |-> d, keyhole_warning |-> <<>>]
<1>1. create_pass_from_request(r) = p
  BY DEF create_pass_from_request
<1>2. IsSequence(a) /\ IsSequence(<<>>) /\ ToSet(<<>>) = {}
  BY SmallSequences
<1>3. IsSequence(b) /\ ToSet(b) \subseteq ToSet(ShadowSdrs)
  <2>1. CASE r.shadow /\ ShadowSdrs # <<>>
    <3>1. ShadowSdrs \in Seq(ToSet(ShadowSdrs))
      BY SchedulingAssumption DEF IsSequence
    <3>2. Head(ShadowSdrs) \in ToSet(ShadowSdrs)
      BY <2>1, <3>1
    <3>3. b = <<Head(ShadowSdrs)>>
      BY <2>1
    <3> HIDE DEF b
    <3> QED BY <3>2, <3>3, SmallSequences
  <2>2. CASE ~ (r.shadow /\ ShadowSdrs # <<>>)
    <3>1. b = <<>>
      BY <2>2
    <3> HIDE DEF b
    <3> QED BY <1>2, <3>1
  <2> QED BY <2>1, <2>2
<1> HIDE DEF a, b, c, d
<1>4. r.start \in Int /\ r.end \in Int /\ r.start < r.end
  BY DEF IsRequest
<1>5. IsPass(p)
  BY <1>2, <1>3, <1>4 DEF IsPass
<1> QED BY <1>1, <1>5

\* What shift_time_slot() and reallocate_hardware() leave of a pass.
Moved(p, q) ==
  /\ IsPass(q) /\ q.request = p.request /\ q.end - q.start = p.end - p.start
  /\ q.start = p.start \/ q.start > schedule_now

LEMMA ShiftKeeps ==
  ASSUME NEW p, IsPass(p), NEW q \in ShiftTimeSlot(p)
  PROVE  Moved(p, q)
<1>1. PICK shift \in (-MaxShift)..MaxShift :
        q = IF p.start + shift > schedule_now /\ p.end + shift < p.end + Hour
              THEN [p EXCEPT !.start = @ + shift, !.end = @ + shift] ELSE p
  BY DEF ShiftTimeSlot
<1>2. MaxShift \in Nat /\ shift \in Int
  BY SchedulingAssumption
<1>3. CASE p.start + shift > schedule_now /\ p.end + shift < p.end + Hour
  <2>1. q = [p EXCEPT !.start = @ + shift, !.end = @ + shift]
    BY <1>1, <1>3
  <2>2. /\ p = [request |-> p.request, start |-> p.start, end |-> p.end,
                sdr_devices |-> p.sdr_devices, shadow_sdr |-> p.shadow_sdr,
                antenna |-> p.antenna, rotator |-> p.rotator, keyhole_warning |-> p.keyhole_warning]
        /\ p.start \in Int /\ p.end \in Int /\ p.start < p.end
    BY DEF IsPass
  <2>3. q = [request |-> p.request, start |-> p.start + shift, end |-> p.end + shift,
             sdr_devices |-> p.sdr_devices, shadow_sdr |-> p.shadow_sdr,
             antenna |-> p.antenna, rotator |-> p.rotator, keyhole_warning |-> p.keyhole_warning]
    BY <2>1, <2>2
  <2>4. p.start + shift \in Int /\ p.end + shift \in Int /\ p.start + shift < p.end + shift
        /\ (p.end + shift) - (p.start + shift) = p.end - p.start
    BY <1>2, <2>2
  <2>5. IsPass(q)
    BY <2>3, <2>4 DEF IsPass
  <2> QED BY <1>3, <2>3, <2>4, <2>5 DEF Moved
<1>4. CASE ~ (p.start + shift > schedule_now /\ p.end + shift < p.end + Hour)
  BY <1>1, <1>4 DEF Moved
<1> QED BY <1>3, <1>4

LEMMA ReallocationKeeps ==
  ASSUME NEW p, IsPass(p), NEW q \in ReallocateHardware(p)
  PROVE  Moved(p, q)
<1>1. CASE q = p
  BY <1>1 DEF Moved
<1>2. CASE \E d, a : q = [p EXCEPT !.sdr_devices = <<d>>, !.antenna = a]
  <2>1. PICK d, a : q = [p EXCEPT !.sdr_devices = <<d>>, !.antenna = a]
    BY <1>2
  <2>2. /\ p = [request |-> p.request, start |-> p.start, end |-> p.end,
                sdr_devices |-> p.sdr_devices, shadow_sdr |-> p.shadow_sdr,
                antenna |-> p.antenna, rotator |-> p.rotator, keyhole_warning |-> p.keyhole_warning]
    BY DEF IsPass
  <2>3. q = [request |-> p.request, start |-> p.start, end |-> p.end,
             sdr_devices |-> <<d>>, shadow_sdr |-> p.shadow_sdr,
             antenna |-> a, rotator |-> p.rotator, keyhole_warning |-> p.keyhole_warning]
    BY <2>1, <2>2
  <2>4. IsSequence(<<d>>)
    BY SmallSequences
  <2>5. IsPass(q)
    BY <2>3, <2>4 DEF IsPass
  <2> QED BY <2>3, <2>5 DEF Moved
<1>3. q = p \/ \E d, a : q = [p EXCEPT !.sdr_devices = <<d>>, !.antenna = a]
  <2>1. CASE Sdrs = <<>>
    BY <2>1 DEF ReallocateHardware
  <2>2. CASE Sdrs # <<>>
    BY <2>2 DEF ReallocateHardware
  <2> QED BY <2>1, <2>2
<1> QED BY <1>1, <1>2, <1>3

\* add_unscheduled_request() adds at most a pass for a request that has none.
LEMMA AddedIsAsked ==
  ASSUME NEW s, NEW q, IsSchedule(s), AreRequests(q)
  PROVE  \/ AddUnscheduled(s, q) = s
         \/ \E r \in ToSet(q) : r.id \notin Ids(s) /\ AddUnscheduled(s, q) = Append(s, create_pass_from_request(r))
<1> DEFINE left == {i \in DOMAIN q : q[i].id \notin Ids(s)}
<1>1. CASE left = {}
  BY <1>1 DEF AddUnscheduled
<1>2. CASE left # {}
  <2>1. left \in SUBSET Nat
    BY DEF AreRequests, IsSequence
  <2>2. Min(left) \in left
    <3> HIDE DEF left
    <3> QED BY <1>2, <2>1, MinIsLeast
  <2>3. AddUnscheduled(s, q) = Append(s, create_pass_from_request(q[Min(left)]))
    BY <1>2 DEF AddUnscheduled
  <2>4. Min(left) \in DOMAIN q /\ q[Min(left)].id \notin Ids(s)
    BY <2>2
  <2> HIDE DEF left
  <2>5. q[Min(left)] \in ToSet(q)
    BY <2>4 DEF ToSet
  <2> QED BY <2>3, <2>4, <2>5
<1> QED BY <1>1, <1>2

\* What generate_neighbor() can return: the schedule, one with a pass moved, two
\* swapped, or one added.
LEMMA NeighborKinds ==
  ASSUME NEW s, NEW q, IsSchedule(s), AreRequests(q), NEW n \in Neighbors(s, q)
  PROVE  \/ n = s
         \/ \E i \in 1..Len(s) : \E p : Moved(s[i], p) /\ n = [s EXCEPT ![i] = p]
         \/ \E i \in 1..Len(s) : i # 1 /\ n = Swapped(s, i)
         \/ \E r \in ToSet(q) : r.id \notin Ids(s) /\ n = Append(s, create_pass_from_request(r))
<1>1. DOMAIN s = 1..Len(s) /\ \A i \in 1..Len(s) : IsPass(s[i])
  BY ScheduleFields
<1>2. CASE s = <<>>
  <2>1. CASE q = <<>>
    BY <1>2, <2>1 DEF Neighbors
  <2>2. CASE q # <<>>
    <3>1. n = <<create_pass_from_request(Head(q))>>
      BY <1>2, <2>2 DEF Neighbors
    <3>2. Head(q) \in ToSet(q)
      <4>1. q \in Seq(ToSet(q))
        BY DEF AreRequests, IsSequence
      <4> QED BY <2>2, <4>1
    <3>3. Ids(s) = {}
      BY <1>2 DEF Ids
    <3>4. \A p : Append(<<>>, p) = <<p>>
      OBVIOUS
    <3> QED BY <1>2, <3>1, <3>2, <3>3, <3>4
  <2> QED BY <2>1, <2>2
<1>3. CASE s # <<>>
  <2>1. n = AddUnscheduled(s, q) \/ \E i \in DOMAIN s : n = Swapped(s, i)
          \/ \E p \in ShiftTimeSlot(s[i]) \cup ReallocateHardware(s[i]) : n = [s EXCEPT ![i] = p]
    <3> DEFINE M(i) == {[s EXCEPT ![i] = p] : p \in ShiftTimeSlot(s[i]) \cup ReallocateHardware(s[i])}
               G(i) == M(i) \cup {Swapped(s, i)}
               U == {G(i) : i \in DOMAIN s}
    <3>1. Neighbors(s, q) = {AddUnscheduled(s, q)} \cup UNION U
      BY <1>3 DEF Neighbors
    <3>2. \A i : n \in M(i) => \E p \in ShiftTimeSlot(s[i]) \cup ReallocateHardware(s[i]) : n = [s EXCEPT ![i] = p]
      OBVIOUS
    <3> HIDE DEF M
    <3>3. \A i : n \in G(i) => n \in M(i) \/ n = Swapped(s, i)
      OBVIOUS
    <3> HIDE DEF G
    <3>4. n \in UNION U => \E i \in DOMAIN s : n \in G(i)
      OBVIOUS
    <3> HIDE DEF U
    <3>5. n \in UNION U \/ n = AddUnscheduled(s, q)
      BY <3>1
    <3> QED BY <3>2, <3>3, <3>4, <3>5
  <2>2. CASE n = AddUnscheduled(s, q)
    BY <2>2, AddedIsAsked
  <2>3. ASSUME NEW i \in DOMAIN s, n = Swapped(s, i)
        PROVE  n = s \/ \E j \in 1..Len(s) : j # 1 /\ n = Swapped(s, j)
    <3>1. CASE i = 1
      BY <2>3, <3>1 DEF Swapped
    <3>2. CASE i # 1
      BY <1>1, <2>3, <3>2
    <3> QED BY <3>1, <3>2
  <2>4. ASSUME NEW i \in DOMAIN s, NEW p \in ShiftTimeSlot(s[i]) \cup ReallocateHardware(s[i]) PROVE Moved(s[i], p)
    BY <1>1, <2>4, ShiftKeeps, ReallocationKeeps
  <2> QED BY <1>1, <2>1, <2>2, <2>3, <2>4
<1> QED BY <1>2, <1>3

\* Begun by no one but the requests
Late(s, q) == \A i \in 1..Len(s) : s[i].start > schedule_now \/ s[i].request \in {r.id : r \in ToSet(q)}

LengthsOf(q, id) == {r.end - r.start : r \in {r \in ToSet(q) : r.id = id}}

LEMMA NeighborKeeps ==
  ASSUME NEW s, NEW q, IsSchedule(s), AreRequests(q), NEW n \in Neighbors(s, q)
  PROVE  /\ IsSchedule(n)
         /\ \A id : \/ Times(n, id) = Times(s, id)
                    \/ Times(s, id) = 0 /\ Times(n, id) = 1
         /\ \A id : Lengths(n, id) \subseteq Lengths(s, id) \cup LengthsOf(q, id)
         /\ Late(s, q) => Late(n, q)
<1>0. Len(s) \in Nat /\ \A i \in 1..Len(s) : IsPass(s[i])
  BY ScheduleFields
<1>1. CASE n = s
  BY <1>1
<1>2. ASSUME NEW i \in 1..Len(s), NEW p, Moved(s[i], p), n = [s EXCEPT ![i] = p]
      PROVE  /\ IsSchedule(n) /\ \A id : Times(n, id) = Times(s, id) /\ Lengths(n, id) = Lengths(s, id)
             /\ Late(s, q) => Late(n, q)
  <2>1. /\ IsPass(p) /\ p.request = s[i].request /\ p.end - p.start = s[i].end - s[i].start
        /\ p.start = s[i].start \/ p.start > schedule_now
    BY <1>2 DEF Moved
  <2>2. /\ IsSchedule(n) /\ Len(n) = Len(s) /\ n[i] = p /\ \A j \in 1..Len(s) : j # i => n[j] = s[j]
    BY <1>2, <2>1, PassReplaced
  <2>3. \A id : Times(n, id) = Times(s, id) /\ Lengths(n, id) = Lengths(s, id)
    BY <1>2, <2>1, ReplacedKeeps
  <2>4. Late(s, q) => Late(n, q)
    BY <2>1, <2>2 DEF Late
  <2> QED BY <2>2, <2>3, <2>4
<1>3. ASSUME NEW i \in 1..Len(s), i # 1, n = Swapped(s, i)
      PROVE  /\ IsSchedule(n) /\ \A id : Times(n, id) = Times(s, id) /\ Lengths(n, id) = Lengths(s, id)
             /\ Late(s, q) => Late(n, q)
  <2>1. /\ IsSchedule(n) /\ Len(n) = Len(s)
        /\ \A j \in 1..Len(s) : \E k \in 1..Len(s) : n[j] = s[k]
        /\ \A id : Times(n, id) = Times(s, id) /\ Lengths(n, id) = Lengths(s, id)
    BY <1>3, SwappedKeeps
  <2>2. Late(s, q) => Late(n, q)
    BY <2>1 DEF Late
  <2> QED BY <2>1, <2>2
<1>4. ASSUME NEW r \in ToSet(q), r.id \notin Ids(s), n = Append(s, create_pass_from_request(r))
      PROVE  /\ IsSchedule(n)
             /\ \A id : \/ Times(n, id) = Times(s, id)
                        \/ Times(s, id) = 0 /\ Times(n, id) = 1
             /\ \A id : Lengths(n, id) \subseteq Lengths(s, id) \cup LengthsOf(q, id)
             /\ Late(s, q) => Late(n, q)
  <2> DEFINE p == create_pass_from_request(r)
  <2>1. IsRequest(r)
    BY DEF AreRequests
  <2>2. IsPass(p) /\ p.request = r.id /\ p.start = r.start /\ p.end = r.end
    BY <2>1, CreatedPass
  <2> HIDE DEF p
  <2>3. n = Append(s, p)
    BY <1>4 DEF p
  <2>4. /\ IsSchedule(n) /\ Len(n) = Len(s) + 1 /\ n[Len(s) + 1] = p
        /\ \A i \in 1..Len(s) : n[i] = s[i]
    BY <2>2, <2>3, PassAppends
  <2>5. ASSUME NEW id
        PROVE  /\ Times(n, id) = IF p.request = id THEN Times(s, id) + 1 ELSE Times(s, id)
               /\ Lengths(n, id) = IF p.request = id THEN Lengths(s, id) \cup {p.end - p.start} ELSE Lengths(s, id)
    BY <2>2, <2>3, AppendedCounts
  <2>6. Times(s, r.id) = 0
    BY <1>4, PassesAreCounted
  <2>7. ASSUME NEW id
        PROVE  /\ Times(n, id) = Times(s, id) \/ (Times(s, id) = 0 /\ Times(n, id) = 1)
               /\ Lengths(n, id) \subseteq Lengths(s, id) \cup LengthsOf(q, id)
    <3>1. CASE r.id = id
      <4>1. Times(n, id) = 0 + 1
        BY <2>2, <2>5, <2>6, <3>1
      <4>2. p.end - p.start \in LengthsOf(q, id)
        BY <2>2, <3>1 DEF LengthsOf
      <4> QED BY <2>2, <2>5, <2>6, <3>1, <4>1, <4>2
    <3>2. CASE r.id # id
      BY <2>2, <2>5, <3>2
    <3> QED BY <3>1, <3>2
  <2>8. Late(s, q) => Late(n, q)
    <3>1. \A i \in 1..(Len(s) + 1) : i \in 1..Len(s) \/ i = Len(s) + 1
      BY <1>0
    <3>2. p.request \in {x.id : x \in ToSet(q)}
      BY <2>2
    <3> QED BY <2>4, <3>1, <3>2 DEF Late
  <2> QED BY <2>4, <2>7, <2>8
<1> QED BY <1>1, <1>2, <1>3, <1>4, NeighborKinds

-----------------------------------------------------------------------------
(* The calls. *)

\* What annealing keeps of the schedule b it starts from.
Grown(s, b, q) ==
  \A id : /\ Times(s, id) >= Times(b, id)
          /\ Times(s, id) > Times(b, id) => Times(s, id) = 1
          /\ Lengths(s, id) \subseteq Lengths(b, id) \cup LengthsOf(q, id)

Holds(s, b) == \A id : Times(s, id) >= Times(b, id)

Schedules == \A s \in {plan, before, working, best, stable} : IsSchedule(s)

Counters ==
  /\ mode \in {"idle", "annealing", "climbing", "annealed", "climbed"}
  /\ iteration \in 0..max_iterations /\ calls \in 0..MaxCalls /\ schedule_now \in 0..MaxScheduleTime
  /\ version \in Nat /\ version + (IF mode = "climbing" THEN 1 ELSE 0) <= calls

Annealing ==
  mode = "annealing" =>
    /\ \A s \in {before, working} : evaluate_schedule(best) >= evaluate_schedule(s)
    /\ Grown(best, before, asked) /\ Grown(working, before, asked)

Annealed ==
  mode = "annealed" => evaluate_schedule(plan) >= evaluate_schedule(before) /\ Grown(plan, before, asked)

Climbing ==
  mode \in {"climbing", "climbed"} =>
    /\ stable = Committed(before)
    /\ evaluate_schedule(working) >= evaluate_schedule(best)
    /\ Holds(working, Future(before))
    /\ Late(working, asked)

Climbed == mode = "climbed" => plan = stable \o working

\* The inductive invariant: what a call in progress owes to the schedule it was given.
PlanIInv ==
  Schedules /\ AreRequests(asked) /\ Counters /\ Annealing /\ Annealed /\ Climbing /\ Climbed

LEMMA TimesAreNatural == ASSUME NEW s, IsSchedule(s) PROVE \A id : Times(s, id) \in Nat
  BY PassesAreCounted

\* No neighbour drops, repeats or shortens what the call was given.
LEMMA GrownIsKept ==
  ASSUME NEW s, NEW b, NEW q, IsSchedule(s), IsSchedule(b), AreRequests(q)
  PROVE  /\ Grown(s, s, q)
         /\ Grown(s, b, q) => \A n \in Neighbors(s, q) : Grown(n, b, q)
         /\ Holds(s, b) => \A n \in Neighbors(s, q) : Holds(n, b)
<1>1. \A id : Times(s, id) \in Nat /\ Times(b, id) \in Nat
  BY TimesAreNatural
<1>2. Grown(s, s, q)
  <2> SUFFICES ASSUME NEW id
               PROVE  /\ Times(s, id) >= Times(s, id)
                      /\ Times(s, id) > Times(s, id) => Times(s, id) = 1
                      /\ Lengths(s, id) \subseteq Lengths(s, id) \cup LengthsOf(q, id)
    BY DEF Grown
  <2> DEFINE t == Times(s, id)
  <2>1. t \in Nat
    BY <1>1
  <2> HIDE DEF t
  <2>2. t >= t /\ ~ (t > t)
    BY <2>1
  <2> QED BY <2>2 DEF t
<1>3. ASSUME NEW n \in Neighbors(s, q), NEW id
      PROVE  /\ Times(s, id) >= Times(b, id) => Times(n, id) >= Times(b, id)
             /\ Times(s, id) >= Times(b, id) /\ (Times(s, id) > Times(b, id) => Times(s, id) = 1)
                 => (Times(n, id) > Times(b, id) => Times(n, id) = 1)
             /\ Lengths(n, id) \subseteq Lengths(s, id) \cup LengthsOf(q, id)
  <2> DEFINE t == Times(s, id)
             m == Times(n, id)
             u == Times(b, id)
  <2>1. (m = t \/ (t = 0 /\ m = 1)) /\ Lengths(n, id) \subseteq Lengths(s, id) \cup LengthsOf(q, id)
    BY NeighborKeeps
  <2>2. t \in Nat /\ u \in Nat
    BY <1>1
  <2> HIDE DEF t, m, u
  <2>3. /\ t >= u => m >= u
        /\ t >= u /\ (t > u => t = 1) => (m > u => m = 1)
    BY <2>1, <2>2
  <2> QED BY <2>1, <2>3 DEF t, m, u
<1>4. ASSUME Grown(s, b, q), NEW n \in Neighbors(s, q) PROVE Grown(n, b, q)
  <2> SUFFICES ASSUME NEW id
               PROVE  /\ Times(n, id) >= Times(b, id)
                      /\ Times(n, id) > Times(b, id) => Times(n, id) = 1
                      /\ Lengths(n, id) \subseteq Lengths(b, id) \cup LengthsOf(q, id)
    BY DEF Grown
  <2>1. /\ Times(s, id) >= Times(b, id)
        /\ Times(s, id) > Times(b, id) => Times(s, id) = 1
        /\ Lengths(s, id) \subseteq Lengths(b, id) \cup LengthsOf(q, id)
    BY <1>4 DEF Grown
  <2>2. Lengths(n, id) \subseteq Lengths(s, id) \cup LengthsOf(q, id)
    BY <1>3
  <2>3. Lengths(n, id) \subseteq Lengths(b, id) \cup LengthsOf(q, id)
    BY <2>1, <2>2
  <2> QED BY <1>3, <2>1, <2>3
<1>5. ASSUME Holds(s, b), NEW n \in Neighbors(s, q) PROVE Holds(n, b)
  BY <1>3, <1>5 DEF Holds
<1> QED BY <1>2, <1>4, <1>5

LEMMA ListsAreRequests == \A q \in RequestLists : AreRequests(q)
  BY SchedulingAssumption DEF AreRequests, IsRequest

\* The passes made for a list of requests are those of its requests.
LEMMA CreatedSchedule ==
  ASSUME NEW q, AreRequests(q)
  PROVE  IsSchedule(Created(q)) /\ Late(Created(q), q)
<1> DEFINE c == Created(q)
           A == {create_pass_from_request(r) : r \in ToSet(q)}
<1>1. q \in Seq(ToSet(q)) /\ \A r \in ToSet(q) : IsRequest(r)
  BY DEF AreRequests, IsSequence
<1>2. c = [i \in 1..Len(q) |-> create_pass_from_request(q[i])] /\ Len(q) \in Nat
  BY <1>1 DEF Created
<1>3. \A i \in 1..Len(q) : q[i] \in ToSet(q)
  BY <1>1
<1> HIDE DEF c
<1>4. \A i \in 1..Len(q) : c[i] \in A
  BY <1>2, <1>3
<1> HIDE DEF A
<1>5. c \in Seq(A) /\ Len(c) = Len(q)
  BY <1>2, <1>4
<1>6. IsSequence(c) /\ DOMAIN c = 1..Len(q)
  BY <1>5, SequenceOf
<1>7. ASSUME NEW i \in 1..Len(q) PROVE IsPass(c[i]) /\ c[i].request = q[i].id
  <2>1. IsRequest(q[i]) /\ c[i] = create_pass_from_request(q[i])
    BY <1>1, <1>2, <1>3
  <2> QED BY <2>1, CreatedPass
<1>8. IsSchedule(c)
  BY <1>6, <1>7 DEF IsSchedule
<1>9. Late(c, q)
  BY <1>3, <1>5, <1>7 DEF Late
<1> QED BY <1>8, <1>9 DEF c

LEMMA LateTogether ==
  ASSUME NEW s, NEW t, NEW q, IsSchedule(s), IsSchedule(t), Late(s, q), Late(t, q)
  PROVE  Late(s \o t, q)
<1> DEFINE n == s \o t
<1>1. /\ Len(n) = Len(s) + Len(t) /\ Len(s) \in Nat /\ Len(t) \in Nat
      /\ \A i \in 1..Len(s) : n[i] = s[i]
      /\ \A i \in 1..Len(t) : n[Len(s) + i] = t[i]
  BY SchedulesJoin, ScheduleFields
<1> HIDE DEF n
<1>2. ASSUME NEW i \in 1..(Len(s) + Len(t))
      PROVE  n[i].start > schedule_now \/ n[i].request \in {r.id : r \in ToSet(q)}
  <2>1. CASE i \in 1..Len(s)
    BY <1>1, <2>1 DEF Late
  <2>2. CASE i \notin 1..Len(s)
    <3>1. i - Len(s) \in 1..Len(t) /\ Len(s) + (i - Len(s)) = i
      BY <1>1, <2>2
    <3>2. n[i] = t[i - Len(s)]
      BY <1>1, <3>1
    <3> QED BY <3>1, <3>2 DEF Late
  <2> QED BY <2>1, <2>2
<1> QED BY <1>1, <1>2 DEF Late, n

\* Everything but the calls in progress, in any step.
LEMMA InitPlan == SchedulingInit => PlanIInv
<1> SUFFICES ASSUME SchedulingInit PROVE PlanIInv
  OBVIOUS
<1>1. IsSchedule(plan)
  BY SchedulingAssumption DEF SchedulingInit
<1>2. Schedules
  BY <1>1, NoPasses DEF SchedulingInit, Schedules
<1>3. AreRequests(asked)
  BY SmallSequences DEF SchedulingInit, AreRequests
<1>4. Counters
  BY SchedulingAssumption DEF SchedulingInit, Counters
<1> QED BY <1>2, <1>3, <1>4 DEF SchedulingInit, PlanIInv, Annealing, Annealed, Climbing, Climbed

LEMMA ScoresCompare ==
  ASSUME NEW s, NEW t, IsSchedule(s), IsSchedule(t)
  PROVE  evaluate_schedule(s) \in Int /\ evaluate_schedule(t) \in Int
  BY ScoresAreIntegers

LEMMA OptimizeKeeps == ASSUME PlanIInv, NEW q \in RequestLists, Optimize(q) PROVE PlanIInv'
<1> USE DEF Optimize
<1>1. AreRequests(q) /\ IsSchedule(plan) /\ IsSchedule(stable)
  BY ListsAreRequests DEF PlanIInv, Schedules
<1>2. Schedules'
  BY <1>1 DEF Schedules
<1>3. Counters'
  <2>1. MaxCalls \in Nat /\ max_iterations \in Nat
    BY SchedulingAssumption
  <2> QED BY <2>1 DEF PlanIInv, Counters, BetweenCalls
<1>4. Grown(plan, plan, q)
  BY <1>1, GrownIsKept
<1>5. evaluate_schedule(plan) \in Int
  BY <1>1, ScoresAreIntegers
<1>6. evaluate_schedule(plan) >= evaluate_schedule(plan)
  BY <1>5
<1>7. Annealing'
  BY <1>4, <1>6 DEF Annealing
<1>8. (Annealed /\ Climbing /\ Climbed)'
  BY DEF Annealed, Climbing, Climbed
<1> QED BY <1>1, <1>2, <1>3, <1>7, <1>8 DEF PlanIInv

LEMMA AnnealKeeps == ASSUME PlanIInv, Anneal PROVE PlanIInv'
<1>1. mode = "annealing" /\ iteration < max_iterations /\ iteration' = iteration + 1
      /\ UNCHANGED <<plan, before, asked, stable, mode, calls, schedule_now, version>>
  BY DEF Anneal
<1>2. PICK n \in Neighbors(working, asked) :
         /\ \/ working' = n
            \/ evaluate_schedule(n) - evaluate_schedule(best) < 0 /\ working' = working
         /\ best' = IF evaluate_schedule(n) - evaluate_schedule(best) > 0 THEN n ELSE best
  BY DEF Anneal
<1>3. /\ IsSchedule(plan) /\ IsSchedule(before) /\ IsSchedule(working) /\ IsSchedule(best) /\ IsSchedule(stable)
      /\ AreRequests(asked)
  BY DEF PlanIInv, Schedules
<1>4. IsSchedule(n)
  BY <1>3, NeighborKeeps
<1>5. Schedules'
  BY <1>1, <1>2, <1>3, <1>4 DEF Schedules
<1>6. Counters'
  <2>1. max_iterations \in Nat
    BY SchedulingAssumption
  <2> QED BY <1>1, <2>1 DEF PlanIInv, Counters
<1> DEFINE e == evaluate_schedule(n)
           b == evaluate_schedule(best)
           w == evaluate_schedule(working)
           o == evaluate_schedule(before)
<1>7. e \in Int /\ b \in Int /\ w \in Int /\ o \in Int
  BY <1>3, <1>4, ScoresAreIntegers
<1>8. b >= w /\ b >= o /\ Grown(best, before, asked) /\ Grown(working, before, asked)
  BY <1>1 DEF PlanIInv, Annealing
<1>9. Grown(n, before, asked)
  BY <1>3, <1>8, GrownIsKept
<1>10. evaluate_schedule(best') >= evaluate_schedule(before) /\ evaluate_schedule(best') >= evaluate_schedule(working')
  <2>1. CASE e - b > 0
    <3>1. best' = n
      BY <1>2, <2>1
    <3>2. working' = n
      <4>1. ~ (e - b < 0)
        BY <1>7, <2>1
      <4> QED BY <1>2, <4>1
    <3>3. e >= o /\ e >= e
      <4> HIDE DEF e, o, b
      <4> QED BY <1>7, <1>8, <2>1
    <3> QED BY <3>1, <3>2, <3>3
  <2>2. CASE ~ (e - b > 0)
    <3>1. best' = best
      BY <1>2, <2>2
    <3>2. b >= e
      <4> HIDE DEF e, b
      <4> QED BY <1>7, <2>2
    <3> QED BY <1>2, <1>8, <3>1, <3>2
  <2> QED BY <2>1, <2>2
<1>11. Grown(best', before, asked) /\ Grown(working', before, asked)
  BY <1>2, <1>8, <1>9
<1>12. Annealing'
  BY <1>1, <1>10, <1>11 DEF Annealing
<1>13. (Annealed /\ Climbing /\ Climbed)'
  BY <1>1 DEF Annealed, Climbing, Climbed
<1>14. AreRequests(asked')
  BY <1>1, <1>3
<1> QED BY <1>5, <1>6, <1>12, <1>13, <1>14 DEF PlanIInv

LEMMA OptimizeReturnsKeeps == ASSUME PlanIInv, OptimizeReturns PROVE PlanIInv'
<1> USE DEF OptimizeReturns
<1>1. /\ IsSchedule(before) /\ IsSchedule(best) /\ AreRequests(asked)
  BY DEF PlanIInv, Schedules
<1>2. evaluate_schedule(best) \in Int /\ evaluate_schedule(before) \in Int
  BY <1>1, ScoresAreIntegers
<1>3. evaluate_schedule(best) >= evaluate_schedule(before) /\ Grown(best, before, asked)
  BY DEF PlanIInv, Annealing
<1>4. plan' = best
  BY <1>2, <1>3
<1>5. Schedules'
  BY <1>1, <1>4, NoPasses DEF Schedules
<1>6. Counters'
  BY SchedulingAssumption DEF PlanIInv, Counters
<1>7. Annealed'
  BY <1>3, <1>4 DEF Annealed
<1>8. (Annealing /\ Climbing /\ Climbed)'
  BY DEF Annealing, Climbing, Climbed
<1> QED BY <1>1, <1>5, <1>6, <1>7, <1>8 DEF PlanIInv

LEMMA IncrementalKeeps == ASSUME PlanIInv, NEW q \in RequestLists, IncrementalOptimize(q) PROVE PlanIInv'
<1> USE DEF IncrementalOptimize
<1> DEFINE w == Future(plan) \o Created(q)
<1>1. AreRequests(q) /\ IsSchedule(plan) /\ schedule_now \in Int
  BY ListsAreRequests DEF PlanIInv, Schedules, Counters
<1>2. /\ IsSchedule(Committed(plan)) /\ IsSchedule(Future(plan))
      /\ \A i \in 1..Len(Future(plan)) : Future(plan)[i].start > schedule_now
  BY <1>1, CommittedAndFuture
<1>3. IsSchedule(Created(q)) /\ Late(Created(q), q)
  BY <1>1, CreatedSchedule
<1>4. Late(Future(plan), q)
  BY <1>2 DEF Late
<1>5. IsSchedule(w) /\ Late(w, q)
  BY <1>2, <1>3, <1>4, SchedulesJoin, LateTogether
<1>6. Holds(w, Future(plan))
  <2> SUFFICES ASSUME NEW id PROVE Times(w, id) >= Times(Future(plan), id)
    BY DEF Holds
  <2>1. Times(w, id) = Times(Future(plan), id) + Times(Created(q), id)
    BY <1>2, <1>3, JoinedCounts
  <2>2. Times(Future(plan), id) \in Nat /\ Times(Created(q), id) \in Nat
    BY <1>2, <1>3, TimesAreNatural
  <2> QED BY <2>1, <2>2
<1>7. working' = w /\ best' = w /\ stable' = Committed(plan) /\ before' = plan /\ schedule_now' = schedule_now
      /\ asked' = q /\ plan' = plan
  OBVIOUS
<1> HIDE DEF w
<1>8. Schedules'
  BY <1>1, <1>2, <1>5, <1>7 DEF Schedules
<1>9. Counters'
  <2>1. MaxCalls \in Nat /\ max_iterations \in Nat
    BY SchedulingAssumption
  <2> QED BY <2>1 DEF PlanIInv, Counters, BetweenCalls
<1>10. Committed(before)' = Committed(plan) /\ Future(before)' = Future(plan)
  BY <1>7 DEF Committed, Future
<1>11. Late(working, asked)'
  BY <1>5, <1>7 DEF Late
<1>12. evaluate_schedule(w) >= evaluate_schedule(w)
  <2>1. evaluate_schedule(w) \in Int
    BY <1>5, ScoresAreIntegers
  <2> QED BY <2>1
<1>13. Holds(working', Future(before)')
  BY <1>6, <1>7, <1>10
<1>14. Climbing'
  BY <1>7, <1>10, <1>11, <1>12, <1>13 DEF Climbing
<1>15. (Annealing /\ Annealed /\ Climbed)'
  BY DEF Annealing, Annealed, Climbed
<1>16. AreRequests(asked')
  BY <1>1, <1>7
<1> QED BY <1>8, <1>9, <1>14, <1>15, <1>16 DEF PlanIInv

LEMMA ClimbKeeps == ASSUME PlanIInv, Climb PROVE PlanIInv'
<1>1. mode = "climbing" /\ iteration < max_iterations /\ iteration' = iteration + 1
      /\ UNCHANGED <<plan, before, asked, best, stable, mode, calls, schedule_now, version>>
  BY DEF Climb
<1>2. PICK n \in Neighbors(working, asked) :
         working' = IF evaluate_schedule(n) > evaluate_schedule(working) THEN n ELSE working
  BY DEF Climb
<1>3. /\ IsSchedule(plan) /\ IsSchedule(before) /\ IsSchedule(working) /\ IsSchedule(best) /\ IsSchedule(stable)
      /\ AreRequests(asked) /\ schedule_now \in Int
  BY DEF PlanIInv, Schedules, Counters
<1>4. IsSchedule(n) /\ (Late(working, asked) => Late(n, asked))
  BY <1>3, NeighborKeeps
<1>5. Schedules'
  BY <1>1, <1>2, <1>3, <1>4 DEF Schedules
<1>6. Counters'
  <2>1. max_iterations \in Nat
    BY SchedulingAssumption
  <2> QED BY <1>1, <2>1 DEF PlanIInv, Counters
<1>7. /\ stable = Committed(before) /\ evaluate_schedule(working) >= evaluate_schedule(best)
      /\ Holds(working, Future(before)) /\ Late(working, asked)
  BY <1>1 DEF PlanIInv, Climbing
<1>8. IsSchedule(Future(before))
  BY <1>3, CommittedAndFuture
<1>9. Holds(n, Future(before)) /\ Late(n, asked)
  BY <1>3, <1>4, <1>7, <1>8, GrownIsKept
<1>10. evaluate_schedule(working') >= evaluate_schedule(best)
  <2> DEFINE e == evaluate_schedule(n)
             b == evaluate_schedule(best)
             w == evaluate_schedule(working)
  <2>1. e \in Int /\ b \in Int /\ w \in Int
    BY <1>3, <1>4, ScoresAreIntegers
  <2>2. e > w => e >= b
    <3> HIDE DEF e, b, w
    <3>1. w >= b
      BY <1>7 DEF w, b
    <3> QED BY <2>1, <3>1
  <2> QED BY <1>2, <1>7, <2>2
<1>11. Holds(working', Future(before)) /\ Late(working', asked)
  BY <1>2, <1>7, <1>9
<1>12. Committed(before)' = Committed(before) /\ Future(before)' = Future(before)
  BY <1>1 DEF Committed, Future
<1>13. Late(working, asked)'
  BY <1>1, <1>11 DEF Late
<1>14. Climbing'
  BY <1>1, <1>7, <1>10, <1>11, <1>12, <1>13 DEF Climbing
<1>15. (Annealing /\ Annealed /\ Climbed)'
  BY <1>1 DEF Annealing, Annealed, Climbed
<1>16. AreRequests(asked')
  BY <1>1, <1>3
<1> QED BY <1>5, <1>6, <1>14, <1>15, <1>16 DEF PlanIInv

LEMMA IncrementalReturnsKeeps == ASSUME PlanIInv, IncrementalReturns PROVE PlanIInv'
<1> USE DEF IncrementalReturns
<1>1. /\ IsSchedule(before) /\ IsSchedule(working) /\ IsSchedule(best) /\ IsSchedule(stable)
      /\ AreRequests(asked)
  BY DEF PlanIInv, Schedules
<1>2. IsSchedule(stable \o working)
  BY <1>1, SchedulesJoin
<1>3. Schedules'
  BY <1>1, <1>2 DEF Schedules
<1>4. Counters'
  BY SchedulingAssumption DEF PlanIInv, Counters
<1>5. Committed(before)' = Committed(before) /\ Future(before)' = Future(before)
  BY DEF Committed, Future
<1>6. /\ stable = Committed(before) /\ evaluate_schedule(working) >= evaluate_schedule(best)
      /\ Holds(working, Future(before)) /\ Late(working, asked)
  BY DEF PlanIInv, Climbing
<1>7. Late(working, asked)'
  BY <1>6 DEF Late
<1>8. Climbing'
  BY <1>5, <1>6, <1>7 DEF Climbing
<1>9. (Annealing /\ Annealed /\ Climbed)'
  BY DEF Annealing, Annealed, Climbed
<1> QED BY <1>1, <1>3, <1>4, <1>8, <1>9 DEF PlanIInv

LEMMA TimeKeeps == ASSUME PlanIInv, ScheduleTimePasses PROVE PlanIInv'
<1> USE DEF ScheduleTimePasses
<1>1. IsSchedule(plan)
  BY DEF PlanIInv, Schedules
<1>2. Schedules'
  BY <1>1, NoPasses DEF Schedules
<1>3. Counters'
  <2>1. MaxScheduleTime \in Nat
    BY SchedulingAssumption
  <2> QED BY <2>1 DEF PlanIInv, Counters, BetweenCalls
<1>4. AreRequests(asked')
  BY SmallSequences DEF AreRequests
<1> QED BY <1>2, <1>3, <1>4 DEF PlanIInv, Annealing, Annealed, Climbing, Climbed

LEMMA PlanPreserves == PlanIInv /\ [PlanNext]_planVars => PlanIInv'
<1> SUFFICES ASSUME PlanIInv, [PlanNext]_planVars PROVE PlanIInv'
  OBVIOUS
<1>1. CASE PlanNext
  BY <1>1, OptimizeKeeps, IncrementalKeeps, AnnealKeeps, OptimizeReturnsKeeps, ClimbKeeps,
     IncrementalReturnsKeeps, TimeKeeps DEF PlanNext
<1>2. CASE UNCHANGED planVars
  <2>1. Committed(before)' = Committed(before) /\ Future(before)' = Future(before)
    BY <1>2 DEF planVars, Committed, Future
  <2>2. Late(working, asked)' <=> Late(working, asked)
    BY <1>2 DEF planVars, Late
  <2>3. Climbing'
    BY <1>2, <2>1, <2>2 DEF planVars, Climbing, PlanIInv
  <2>4. Schedules' /\ AreRequests(asked)' /\ Counters'
    BY <1>2 DEF planVars, PlanIInv, Schedules, Counters
  <2>5. (Annealing /\ Annealed /\ Climbed)'
    BY <1>2 DEF planVars, PlanIInv, Annealing, Annealed, Climbed
  <2> QED BY <2>3, <2>4, <2>5 DEF PlanIInv
<1> QED BY <1>1, <1>2

-----------------------------------------------------------------------------
(* The keyhole. *)

InOrder(samples) ==
  /\ samples \in Seq([at : Int, elevation : Int])
  /\ \A i, j \in DOMAIN samples : i < j => samples[i].at < samples[j].at

LEMMA SamplesAreTyped ==
  ASSUME NEW A, NEW s \in Seq(A)
  PROVE  Len(s) \in Nat /\ DOMAIN s = 1..Len(s) /\ \A i \in 1..Len(s) : s[i] \in A
  OBVIOUS

\* Only a step that touches the keyhole counts; one of a second or more that does, counts.
LEMMA StepsTakeTime ==
  ASSUME NEW samples, InOrder(samples), NEW i \in 1..(Len(samples) - 1)
  PROVE  /\ StepSeconds(samples, i) \in Nat
         /\ StepSeconds(samples, i) > 0 =>
              in_keyhole(samples[i].elevation) \/ in_keyhole(samples[i + 1].elevation)
         /\ in_keyhole(samples[i].elevation) \/ in_keyhole(samples[i + 1].elevation) =>
              (samples[i + 1].at - samples[i].at >= 2 => StepSeconds(samples, i) > 0)
         /\ i \in DOMAIN samples /\ i + 1 \in DOMAIN samples
<1> DEFINE d == samples[i + 1].at - samples[i].at
           h == d \div 2
<1>1. /\ samples \in Seq([at : Int, elevation : Int])
      /\ \A j, k \in DOMAIN samples : j < k => samples[j].at < samples[k].at
  BY DEF InOrder
<1>2. Len(samples) \in Nat /\ DOMAIN samples = 1..Len(samples)
  BY <1>1
<1>3. i \in DOMAIN samples /\ i + 1 \in DOMAIN samples /\ i < i + 1
  BY <1>2
<1>4. samples[i].at \in Int /\ samples[i + 1].at \in Int /\ samples[i].at < samples[i + 1].at
  <2>1. samples[i] \in [at : Int, elevation : Int] /\ samples[i + 1] \in [at : Int, elevation : Int]
    BY <1>1, <1>2, <1>3, SamplesAreTyped
  <2> QED BY <1>1, <1>3, <2>1
<1>5. d \in Nat
  BY <1>4
<1> HIDE DEF d
<1>6. h \in Nat /\ (d >= 2 => h > 0)
  BY <1>5
<1>7. StepSeconds(samples, i) =
        IF in_keyhole(samples[i].elevation) \/ in_keyhole(samples[i + 1].elevation) THEN h ELSE 0
  BY DEF StepSeconds, d
<1> HIDE DEF h
<1> QED BY <1>3, <1>6, <1>7 DEF d

\* The sum of the steps is natural, and positive when one of them is.
LEMMA SecondsAddUp ==
  ASSUME NEW samples, InOrder(samples)
  PROVE  /\ KeyholeSeconds(samples) \in Nat
         /\ KeyholeSeconds(samples) > 0 <=> \E i \in 1..(Len(samples) - 1) : StepSeconds(samples, i) > 0
<1> DEFINE n == IF Len(samples) = 0 THEN 0 ELSE Len(samples) - 1
           q == [i \in 1..n |-> i]
           x(k) == StepSeconds(samples, k)
           Turn(v, k) == v + x(k)
           Solves(g) == g = [t \in SUBSET (1..n) |-> IF t = {} THEN 0 ELSE Turn(g[t \ {Max(t)}], q[Max(t)])]
           f == CHOOSE g : Solves(g)
           step == [k \in 1..n |-> [v \in Nat |-> Turn(v, k)]]
<1>1. Len(samples) \in Nat
  BY DEF InOrder
<1>2. n \in Nat /\ 1..(Len(samples) - 1) = 1..n
  BY <1>1
<1> HIDE DEF n
<1>3. KeyholeSeconds(samples) = f[1..n]
  <2>1. DOMAIN q = 1..n
    OBVIOUS
  <2> QED BY <1>2, <2>1 DEF KeyholeSeconds, FoldLeft, MapThenFoldSet
<1>4. \A k \in 1..n : q[k] = k
  OBVIOUS
<1> HIDE DEF q
<1>5. \A k \in 1..n : x(k) \in Nat
  BY <1>2, StepsTakeTime
<1> HIDE DEF x
<1>6. \A v \in Nat : \A k \in 1..n : Turn(v, k) \in Nat
  BY <1>5
<1> HIDE DEF Turn
<1>7. step \in FoldSteps(n, Nat)
  BY <1>6 DEF FoldSteps
<1>8. PICK e : Folds(e, n, Nat, 0, step)
  <2> HIDE DEF step
  <2>1. 0 \in Nat
    OBVIOUS
  <2> QED BY <1>2, <1>7, <2>1, FoldExists, Zenon
<1>9. Solves(e)
  <2>1. \A t \in SUBSET (1..n) : t # {} => Max(t) \in 1..n /\ t \ {Max(t)} \in SUBSET (1..n) /\ q[Max(t)] = Max(t)
    BY <1>2, <1>4, TopIsThere
  <2>2. \A k \in 1..n : \A v \in Nat : step[k][v] = Turn(v, k)
    OBVIOUS
  <2>3. /\ e \in [SUBSET (1..n) -> Nat]
        /\ \A t \in SUBSET (1..n) : e[t] = IF t = {} THEN 0 ELSE step[Max(t)][e[t \ {Max(t)}]]
    BY <1>8 DEF Folds
  <2> HIDE DEF step
  <2>4. \A t \in SUBSET (1..n) : e[t] = IF t = {} THEN 0 ELSE Turn(e[t \ {Max(t)}], q[Max(t)])
    <3> SUFFICES ASSUME NEW t \in SUBSET (1..n), t # {} PROVE e[t] = Turn(e[t \ {Max(t)}], q[Max(t)])
      BY <2>3
    <3>1. e[t \ {Max(t)}] \in Nat
      BY <2>1, <2>3
    <3> QED BY <2>1, <2>2, <2>3, <3>1
  <2> QED BY <2>3, <2>4
<1> HIDE DEF step
<1>10. Solves(f)
  <2> HIDE DEF Solves
  <2> QED BY <1>9, Zenon
<1> HIDE DEF f
<1> DEFINE A == {k \in 0..n : f[1..k] \in Nat /\ (f[1..k] > 0 <=> \E i \in 1..k : x(i) > 0)}
<1>11. 0 \in A
  <2>1. 1..0 = {} /\ 0 \in 0..n /\ {} \in SUBSET (1..n)
    BY <1>2
  <2>2. f[{}] = 0
    BY <1>10, <2>1
  <2>3. f[1..0] = 0
    BY <2>1, <2>2, Zenon
  <2> QED BY <2>1, <2>3
<1>12. ASSUME NEW k \in 1..n, k - 1 \in A PROVE k \in A
  <2>1. /\ Max(1..k) = k /\ (1..k) \ {k} = 1..(k - 1)
        /\ 1..k \in SUBSET (1..n) /\ 1..k # {} /\ k \in 0..n /\ k - 1 \in 0..n
    BY <1>2, IntervalTop
  <2>2. f[1..k] = Turn(f[(1..k) \ {Max(1..k)}], q[Max(1..k)])
    BY <1>10, <2>1
  <2>3. f[1..k] = f[1..(k - 1)] + x(k)
    BY <1>4, <2>1, <2>2 DEF Turn
  <2>4. f[1..(k - 1)] \in Nat /\ (f[1..(k - 1)] > 0 <=> \E i \in 1..(k - 1) : x(i) > 0)
    BY <1>12
  <2>5. x(k) \in Nat
    BY <1>5
  <2> DEFINE u == f[1..(k - 1)]
             v == f[1..k]
  <2> HIDE DEF u, v
  <2>6. v \in Nat /\ (v > 0 <=> u > 0 \/ x(k) > 0)
    <3>1. v = u + x(k) /\ u \in Nat
      BY <2>3, <2>4 DEF u, v
    <3> QED BY <2>5, <3>1
  <2>7. 1..k = (1..(k - 1)) \cup {k}
    BY <2>1
  <2>8. (\E i \in 1..k : x(i) > 0) <=> (\E i \in 1..(k - 1) : x(i) > 0) \/ x(k) > 0
    BY <2>7
  <2>9. f[1..k] \in Nat /\ (f[1..k] > 0 <=> \E i \in 1..k : x(i) > 0)
    BY <2>4, <2>6, <2>8 DEF u, v
  <2> QED BY <2>1, <2>9
<1> HIDE DEF A
<1>13. \A k \in 0..n : k \in A
  BY <1>2, <1>11, <1>12, UpTo
<1>14. n \in A
  BY <1>2, <1>13
<1> QED BY <1>2, <1>3, <1>14 DEF A, x

\* What analyse_pass() returns of a profile in order: an entry no later and an exit no
\* earlier than the stay.
LEMMA AnalysisIsRight ==
  ASSUME NEW samples, InOrder(samples), NEW a, a = analyse_pass(samples)
  PROVE  /\ a.enters \in BOOLEAN /\ a.loss \in 0..typical_loss_duration_s
         /\ Len(samples) >= 2 /\ (\A i \in 2..Len(samples) : samples[i].at - samples[i - 1].at >= 2)
              => (a.enters <=> LikelyKeyhole(samples))
         /\ OnePass(samples) =>
              \A i \in DOMAIN samples : in_keyhole(samples[i].elevation) =>
                /\ \A t \in a.entry : t < samples[i].at
                /\ \A t \in a.exit : samples[i].at < t
<1> DEFINE n == Len(samples)
           c == KeyholeSeconds(samples)
           steps == 1..(n - 1)
           Inside(i) == in_keyhole(samples[i].elevation)
           entries == {i \in steps : ~Inside(i) /\ Inside(i + 1)}
           exits == {i \in steps : Inside(i) /\ ~Inside(i + 1)}
<1>1. /\ n \in Nat /\ DOMAIN samples = 1..n
      /\ \A i \in 1..n : samples[i].at \in Int
      /\ \A i, j \in 1..n : i < j => samples[i].at < samples[j].at
  <2>1. /\ samples \in Seq([at : Int, elevation : Int])
        /\ \A i, j \in DOMAIN samples : i < j => samples[i].at < samples[j].at
    BY DEF InOrder
  <2>2. n \in Nat /\ DOMAIN samples = 1..n /\ \A i \in 1..n : samples[i] \in [at : Int, elevation : Int]
    BY <2>1, SamplesAreTyped
  <2> HIDE DEF n
  <2> QED BY <2>1, <2>2
<1>2. c \in Nat /\ (c > 0 <=> \E i \in steps : StepSeconds(samples, i) > 0)
  BY SecondsAddUp
<1>3. /\ a.enters = (c > 0)
      /\ a.loss = IF c < typical_loss_duration_s THEN c ELSE typical_loss_duration_s
      /\ a.entry = {samples[i].at : i \in {i \in entries : \A j \in entries : i <= j}}
      /\ a.exit = {samples[i + 1].at : i \in {i \in exits : \A j \in exits : i >= j}}
  <2> HIDE DEF c
  <2> QED BY DEF analyse_pass, c
<1>4. \A t \in a.entry : \E i \in entries : t = samples[i].at
  BY <1>3
<1>5. \A t \in a.exit : \E i \in exits : t = samples[i + 1].at
  BY <1>3
<1>6. a.enters \in BOOLEAN /\ a.loss \in 0..typical_loss_duration_s
  <2>1. typical_loss_duration_s \in Nat
    BY SchedulingAssumption
  <2> HIDE DEF c
  <2> QED BY <1>2, <1>3, <2>1
<1> HIDE DEF c, n
<1>7. ASSUME NEW i \in steps
      PROVE  /\ StepSeconds(samples, i) > 0 => Inside(i) \/ Inside(i + 1)
             /\ Inside(i) \/ Inside(i + 1) =>
                  (samples[i + 1].at - samples[i].at >= 2 => StepSeconds(samples, i) > 0)
             /\ i \in 1..n /\ i + 1 \in 1..n
  BY <1>1, StepsTakeTime DEF n
<1>8. LikelyKeyhole(samples) <=> \E i \in 1..n : Inside(i)
  BY <1>1 DEF LikelyKeyhole
<1> HIDE DEF Inside
<1>9. ASSUME n >= 2, \A i \in 2..n : samples[i].at - samples[i - 1].at >= 2
      PROVE  a.enters <=> LikelyKeyhole(samples)
  <2>1. ASSUME NEW i \in 1..n, Inside(i) PROVE \E j \in steps : StepSeconds(samples, j) > 0
    <3>1. CASE i = 1
      <4>1. 1 \in steps /\ 1 + 1 \in 2..n /\ (1 + 1) - 1 = 1
        BY <1>1, <1>9
      <4>2. samples[1 + 1].at - samples[1].at >= 2
        BY <1>9, <4>1
      <4> QED BY <1>7, <2>1, <3>1, <4>1, <4>2
    <3>2. CASE i # 1
      <4>1. i - 1 \in steps /\ i \in 2..n /\ (i - 1) + 1 = i
        BY <1>1, <3>2
      <4>2. samples[i].at - samples[i - 1].at >= 2
        BY <1>9, <4>1
      <4>3. StepSeconds(samples, i - 1) > 0
        <5> DEFINE h == i - 1
        <5>1. h \in steps /\ h + 1 = i /\ samples[i].at - samples[h].at >= 2
          BY <4>1, <4>2
        <5> HIDE DEF h
        <5>2. StepSeconds(samples, h) > 0
          BY <1>7, <2>1, <5>1
        <5> QED BY <5>2 DEF h
      <4> QED BY <4>1, <4>3
    <3> QED BY <3>1, <3>2
  <2>2. (\E j \in steps : StepSeconds(samples, j) > 0) => \E i \in 1..n : Inside(i)
    BY <1>7
  <2> QED BY <1>2, <1>3, <1>8, <2>1, <2>2
<1>10. ASSUME OnePass(samples), NEW i \in 1..n, Inside(i)
       PROVE  (\A t \in a.entry : t < samples[i].at) /\ (\A t \in a.exit : samples[i].at < t)
  <2>1. ASSUME NEW x \in 1..n, NEW y \in 1..n, NEW z \in 1..n, x < y, y < z, Inside(x), Inside(z)
        PROVE  Inside(y)
    BY <1>1, <1>10, <2>1 DEF OnePass, Inside
  <2>2. ASSUME NEW e \in entries PROVE samples[e].at < samples[i].at
    <3>1. e \in steps /\ e \in 1..n /\ e + 1 \in 1..n /\ ~Inside(e) /\ Inside(e + 1) /\ e < e + 1
      BY <1>7, <2>2
    <3>2. ~ (i < e)
      BY <1>10, <2>1, <3>1
    <3>3. i # e
      BY <1>10, <3>1
    <3>4. e < i
      BY <1>1, <3>1, <3>2, <3>3
    <3> QED BY <1>1, <3>1, <3>4
  <2>3. ASSUME NEW e \in exits PROVE samples[i].at < samples[e + 1].at
    <3>1. e \in steps /\ e \in 1..n /\ e + 1 \in 1..n /\ Inside(e) /\ ~Inside(e + 1) /\ e < e + 1
      BY <1>7, <2>3
    <3>2. ~ (e + 1 < i)
      BY <1>10, <2>1, <3>1
    <3>3. i # e + 1
      BY <1>10, <3>1
    <3>4. i < e + 1
      BY <1>1, <3>1, <3>2, <3>3
    <3> QED BY <1>1, <3>1, <3>4
  <2> QED BY <1>4, <1>5, <2>2, <2>3
<1> QED BY <1>1, <1>6, <1>9, <1>10 DEF n, Inside

\* An analysis is that of the profile, which is in order.
KeyholeIInv ==
  \A a \in analysis : InOrder(profile) /\ a = analyse_pass(profile)

LEMMA KeyholePreserves == KeyholeIInv /\ [AnalysePass]_keyholeVars => KeyholeIInv'
<1> SUFFICES ASSUME KeyholeIInv, [AnalysePass]_keyholeVars PROVE KeyholeIInv'
  OBVIOUS
<1>1. CASE AnalysePass
  <2>1. PICK samples \in Profiles : profile' = samples /\ analysis' = {analyse_pass(samples)}
    BY <1>1 DEF AnalysePass
  <2>2. InOrder(samples)
    BY SchedulingAssumption DEF InOrder
  <2> QED BY <2>1, <2>2 DEF KeyholeIInv
<1>2. CASE UNCHANGED keyholeVars
  BY <1>2 DEF keyholeVars, KeyholeIInv
<1> QED BY <1>1, <1>2

LEMMA KeyholeStaysCovered == KeyholeIInv => KeyholeIsCovered
  BY AnalysisIsRight DEF KeyholeIInv, KeyholeIsCovered

LEMMA PlanStaysKept == PlanIInv => ConflictsAreFound /\ AnnealingKeepsThePlan /\ CommittedPassesStay
<1> SUFFICES ASSUME PlanIInv PROVE ConflictsAreFound /\ AnnealingKeepsThePlan /\ CommittedPassesStay
  OBVIOUS
<1>1. /\ IsSchedule(plan) /\ IsSchedule(before) /\ IsSchedule(working) /\ IsSchedule(stable)
      /\ AreRequests(asked) /\ schedule_now \in Int
  BY DEF PlanIInv, Schedules, Counters
<1>2. ConflictsAreFound
  BY <1>1, ConflictsAreExact DEF ConflictsAreFound
<1>3. AnnealingKeepsThePlan
  <2>1. \A id : AskedLengths(id) = LengthsOf(asked, id)
    BY DEF AskedLengths, LengthsOf
  <2> QED BY <2>1 DEF AnnealingKeepsThePlan, PlanIInv, Annealing, Annealed, Grown
<1>4. ASSUME mode = "climbed" PROVE CommittedPassesStay
  <2>1. /\ stable = Committed(before) /\ evaluate_schedule(working) >= evaluate_schedule(best)
        /\ Holds(working, Future(before)) /\ Late(working, asked) /\ plan = stable \o working
    BY <1>4 DEF PlanIInv, Climbing, Climbed
  <2>2. /\ Len(plan) = Len(stable) + Len(working)
        /\ \A i \in 1..Len(stable) : plan[i] = stable[i]
        /\ \A i \in 1..Len(working) : plan[Len(stable) + i] = working[i]
    BY <1>1, <2>1, SchedulesJoin
  <2>3. /\ Len(stable) \in Nat /\ Len(working) \in Nat /\ DOMAIN plan = 1..Len(plan)
        /\ DOMAIN stable = 1..Len(stable)
    BY <1>1, ScheduleFields
  <2>4. IsPrefix(Committed(before), plan)
    <3>1. Len(stable) <= Len(plan)
      BY <2>2, <2>3
    <3>2. stable = SubSeq(plan, 1, Len(stable))
      <4>1. plan \in Seq(ToSet(plan)) /\ stable \in Seq(ToSet(stable))
        BY <1>1, ScheduleFields
      <4> DEFINE p == SubSeq(plan, 1, Len(stable))
      <4>2. p \in Seq(ToSet(plan)) /\ Len(p) = Len(stable) /\ \A i \in 1..Len(stable) : p[i] = plan[i]
        BY <2>2, <2>3, <3>1, <4>1
      <4> HIDE DEF p
      <4>3. stable = p
        BY <2>2, <4>1, <4>2
      <4> QED BY <4>3 DEF p
    <3> QED BY <2>1, <3>1, <3>2 DEF IsPrefix
  <2>5. ASSUME NEW id PROVE Times(plan, id) >= Times(before, id)
    <3> DEFINE u == Times(Committed(before), id)
               v == Times(Future(before), id)
               w == Times(working, id)
    <3>1. Times(before, id) = u + v
      BY <1>1, CommittedAndFuture
    <3>2. Times(plan, id) = u + w
      BY <1>1, <2>1, JoinedCounts
    <3>3. u \in Nat /\ v \in Nat /\ w \in Nat
      BY <1>1, CommittedAndFuture, TimesAreNatural
    <3>4. w >= v
      BY <2>1 DEF Holds
    <3> HIDE DEF u, v, w
    <3>5. u + w >= u + v
      BY <3>3, <3>4
    <3> QED BY <3>1, <3>2, <3>5
  <2>6. ASSUME NEW i \in DOMAIN plan, i > Len(stable)
        PROVE  plan[i].start > schedule_now \/ plan[i].request \in {r.id : r \in ToSet(asked)}
    <3>1. i - Len(stable) \in 1..Len(working) /\ Len(stable) + (i - Len(stable)) = i
      BY <2>2, <2>3, <2>6
    <3>2. plan[i] = working[i - Len(stable)]
      BY <2>2, <3>1
    <3> QED BY <2>1, <3>1, <3>2 DEF Late
  <2> QED BY <2>1, <2>4, <2>5, <2>6 DEF CommittedPassesStay
<1>5. CommittedPassesStay
  BY <1>4 DEF CommittedPassesStay
<1> QED BY <1>2, <1>3, <1>5

\* The scheduler keeps what it was given: two passes are reported as in conflict exactly
\* when they overlap and share a device; annealing through worse schedules drops,
\* repeats and shortens nothing and returns nothing worse than it was given; what has
\* begun stays, in its order, through an incremental call; and the analysis of a pass
\* near the zenith covers its stay in the keyhole.  For any requests, devices, limits
\* and random choices.
THEOREM PassSchedulingStaysSound == SchedulingSpec => []PassSchedulingIsSound
<1>1. SchedulingInit => KeyholeIInv
  BY DEF SchedulingInit, KeyholeIInv
<1>2. PlanIInv /\ KeyholeIInv => PassSchedulingIsSound
  BY PlanStaysKept, KeyholeStaysCovered DEF PassSchedulingIsSound
<1> QED BY <1>1, <1>2, InitPlan, PlanPreserves, KeyholePreserves, PTL DEF SchedulingSpec

\* The schedules, counters and analyses have their types.
LEMMA SchedulingIsTyped == PlanIInv /\ KeyholeIInv => SchedulingTypeOK
<1> SUFFICES ASSUME PlanIInv, KeyholeIInv PROVE SchedulingTypeOK
  OBVIOUS
<1>1. version \in 0..MaxCalls
  <2>1. MaxCalls \in Nat
    BY SchedulingAssumption
  <2> QED BY <2>1 DEF PlanIInv, Counters
<1>2. \A a \in analysis : a.enters \in BOOLEAN /\ a.loss \in 0..typical_loss_duration_s
  BY AnalysisIsRight DEF KeyholeIInv
<1> QED BY <1>1, <1>2 DEF SchedulingTypeOK, PlanIInv, Schedules, Counters

\* The tenants and resources of the shares are known ones, the dominant resource is
\* among the shares, and the records of the reputations are numbers.
LEMMA FairnessIsTyped == SharesIInv /\ ReputationIInv => FairnessTypeOK
<1> SUFFICES ASSUME SharesIInv, ReputationIInv PROVE FairnessTypeOK
  OBVIOUS
<1>1. ASSUME NEW t \in DOMAIN tenant_allocations
      PROVE  /\ DOMAIN tenant_allocations[t].shares \subseteq ResourceTypes
             /\ tenant_allocations[t].dominant_resource \subseteq DOMAIN tenant_allocations[t].shares
  BY <1>1 DEF SharesIInv, Dominated, Dominants
<1>2. DOMAIN reputations \subseteq Customers /\ \A t \in DOMAIN reputations : reputations[t] \in Reputation
  BY DEF ReputationIInv
<1>3. \A r \in Reputation : r.historical_utilization \in Nat /\ r.allocated \in Nat
  BY FairSharesAssumption DEF Reputation
<1> QED BY <1>1, <1>2, <1>3 DEF FairnessTypeOK, SharesIInv

\* Whatever the pool, the ring, an acquisition and the scheduler are asked for, their
\* state keeps its type: no counter leaves its range, no schedule holds anything but
\* passes, and no record is of a tenant, device or resource that is not there.
THEOREM HardwareTypeCorrect ==
  Spec /\ RingSpec /\ AcquisitionSpec /\ SchedulingSpec /\ FairnessSpec => []HardwareTypeOK
<1>1. AcquisitionIInv => AcquisitionTypeOK
  BY DEF AcquisitionIInv
<1>2. AcquisitionSpec => []AcquisitionTypeOK
  BY <1>1, InitAcquisition, AcquisitionPreserves, PTL DEF AcquisitionSpec
<1>3. SchedulingInit => KeyholeIInv
  BY DEF SchedulingInit, KeyholeIInv
<1>4. SchedulingSpec => []SchedulingTypeOK
  BY <1>3, InitPlan, PlanPreserves, KeyholePreserves, SchedulingIsTyped, PTL DEF SchedulingSpec
<1>5. SharesIInv /\ ReputationIInv /\ [FairnessNext]_fairnessVars => SharesIInv' /\ ReputationIInv'
  BY FairnessPreserves
<1>6. FairnessSpec => []FairnessTypeOK
  BY <1>5, InitShares, InitReputation, FairnessIsTyped, PTL DEF FairnessSpec
<1>7. TypeOK /\ RingTypeOK /\ AcquisitionTypeOK /\ SchedulingTypeOK /\ FairnessTypeOK => HardwareTypeOK
  BY DEF HardwareTypeOK
<1> QED BY <1>2, <1>4, <1>6, <1>7, TypeCorrect, RingTypeCorrect, PTL

=============================================================================
