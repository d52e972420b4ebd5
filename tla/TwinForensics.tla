--------------------------- MODULE TwinForensics ---------------------------
(***************************************************************************)
(* The evidence of the digital twin: the DivergenceDetector with its CUSUM *)
(* detectors (digital-twin/src/divergence.rs) and the SnapshotManager      *)
(* (snapshot.rs).  Snapshots come with times of the caller's, in any order *)
(* (no clock is monotonic here); every method takes &mut self and is one   *)
(* action.  What a snapshot holds and when things were received is left    *)
(* out.                                                                    *)
(*                                                                         *)
(* Values are whole numbers.  A deviation counts quarters of the width of  *)
(* the predicted interval, which is 4 for the signal-to-noise ratio and 0  *)
(* for every other metric (get_predicted_interval() in runtime.rs).        *)
(***************************************************************************)
EXTENDS Integers, Sequences, FiniteSets, FiniteSetsExt

CONSTANTS
  Monitored,          \* the (link, metric) pairs that are observed
  PredictedInterval,  \* [lower, upper] of each
  ObservedValues,     \* the values observed
  SnapshotTimes,      \* the times of snapshots
  MaxTwinSnapshots,   \* max_snapshots
  MaxObservations     \* bound on the observations between two resets

ASSUME TwinAssumption ==
  /\ \A k \in Monitored :
       /\ {PredictedInterval[k].lower, PredictedInterval[k].upper} \subseteq Int
       /\ PredictedInterval[k].upper - PredictedInterval[k].lower \in {0, 4}
  /\ ObservedValues \subseteq Int /\ SnapshotTimes \subseteq Nat
  /\ MaxTwinSnapshots \in Nat \ {0} /\ MaxObservations \in Nat

Threshold == 20  \* of a CUSUM detector, 5 sigma
MinShift == 4    \* 1 sigma

VARIABLES
  detectors,       \* [cusum, change_detected] of each pair
  divergence_log,  \* the pairs and marks of its entries
  twin_snapshots,  \* the times of the snapshots in the store
  walk,            \* history: the running sums of what the deviations each detector
                   \* has seen since a reset exceed MinShift by, from 0
  stored           \* history: the times stored since the store was cleared

detectorVars == <<detectors, divergence_log, walk>>
storeVars == <<twin_snapshots, stored>>
twinVars == <<detectorVars, storeVars>>

NewDetector == [cusum |-> 0, change_detected |-> FALSE]

TwinInit ==
  /\ detectors = [k \in Monitored |-> NewDetector]
  /\ divergence_log = {}
  /\ twin_snapshots = {}
  /\ walk = [k \in Monitored |-> <<0>>]
  /\ stored = {}

\* Interval::distance(), zero inside.
Distance(i, v) == Max({0, i.lower - v, v - i.upper})

\* The distance normalised by the width, if there is one.
Deviation(i, v) == IF i.upper > i.lower THEN Distance(i, v) ELSE 4 * Distance(i, v)

UpdateUnclamped(d, deviation) ==
  LET sum == d.cusum + deviation - MinShift
  IN  IF d.change_detected THEN d
      ELSE [cusum |-> sum, change_detected |-> sum >= Threshold]

\* CusumDetector::update(): once it has detected a change it stands still.
UpdateDetector(d, deviation) ==
  LET sum == Max({0, d.cusum + deviation - MinShift})
  IN  IF d.change_detected THEN d
      ELSE [cusum |-> sum, change_detected |-> sum >= Threshold]

\* process_observation(): what is logged is an anomaly or marks a change point.
ProcessObservation(k, v) ==
  LET i == PredictedInterval[k]
      new == UpdateDetector(detectors[k], Deviation(i, v))
      change == new.change_detected /\ ~ detectors[k].change_detected
  IN  /\ MapThenSumSet(LAMBDA m : Len(walk[m]) - 1, Monitored) < MaxObservations
      /\ detectors' = [detectors EXCEPT ![k] = new]
      /\ walk' = [walk EXCEPT ![k] = Append(@, @[Len(@)] + Deviation(i, v) - MinShift)]
      /\ divergence_log' = divergence_log \cup
           (IF Distance(i, v) > 0 \/ change THEN {[pair |-> k, change_point |-> change]} ELSE {})

ClearLog ==
  /\ divergence_log' = {}
  /\ UNCHANGED <<detectors, walk>>

ResetDetectors ==
  /\ detectors' = [k \in Monitored |-> NewDetector]
  /\ walk' = [k \in Monitored |-> <<0>>]
  /\ UNCHANGED divergence_log

\* store_snapshot(): one of the same time is replaced; then the oldest is removed
\* if there are too many, which may be the one just stored.
StoreSnapshot(time) ==
  /\ LET kept == twin_snapshots \cup {time}
     IN  twin_snapshots' = IF Cardinality(kept) > MaxTwinSnapshots THEN kept \ {Min(kept)} ELSE kept
  /\ stored' = stored \cup {time}

ClearSnapshots ==
  /\ twin_snapshots' = {}
  /\ stored' = {}

DetectorNext ==
  \/ \E k \in Monitored, v \in ObservedValues : ProcessObservation(k, v)
  \/ ClearLog \/ ResetDetectors

StoreNext == ClearSnapshots \/ \E t \in SnapshotTimes : StoreSnapshot(t)

\* The detector and the store run side by side.
TwinNext ==
  \/ DetectorNext /\ UNCHANGED storeVars
  \/ StoreNext /\ UNCHANGED detectorVars

TwinSpec == TwinInit /\ [][TwinNext]_twinVars

-----------------------------------------------------------------------------
(* Properties *)

\* The state has its type.
TwinTypeOK ==
  /\ \A k \in Monitored : detectors[k].cusum \in Int /\ detectors[k].change_detected \in BOOLEAN
  /\ divergence_log \subseteq [pair : Monitored, change_point : BOOLEAN]
  /\ twin_snapshots \subseteq stored /\ stored \subseteq SnapshotTimes

\* Over some stretch of observations the running sum has risen by the threshold.
Shifted(w) == \E a, b \in DOMAIN w : a < b /\ w[b] - w[a] >= Threshold

\* A detector has detected a change exactly if, since it was last reset, some
\* stretch of consecutive observations lay above the reference by the threshold
\* in sum, each beyond the smallest shift: the recursion forgets nothing it needs.
CusumIsExact ==
  \A k \in Monitored :
    detectors[k].change_detected <=> Shifted(walk[k])

\* The snapshots kept are the newest of all that were stored, whatever the order.
NewestAreKept ==
  twin_snapshots =
    {t \in stored : Cardinality({u \in stored : u > t}) < MaxTwinSnapshots}

\* The twin's evidence: change points are the true ones and the newest snapshots
\* are there.
EvidenceIsExact == CusumIsExact /\ NewestAreKept

=============================================================================
