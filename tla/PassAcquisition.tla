--------------------------- MODULE PassAcquisition ---------------------------
(***************************************************************************)
(* Acquisition of a pass with a shadow SDR, rf-layer/src/shadow.rs, and    *)
(* the snapshots of the demodulator it fails over with, SnapshotManager of *)
(* rf-layer/src/demodulator.rs.                                            *)
(*                                                                         *)
(* A demodulator state stands for the samples it has absorbed.  Every      *)
(* method takes &mut self and holds the lock of the state it changes, so   *)
(* it is one action.  Samples come numbered 1, 2, 3...; the primary may    *)
(* fail at any time, and then a promotion has to come before the next      *)
(* sample.                                                                 *)
(***************************************************************************)
EXTENDS Naturals, Sequences, FiniteSets

CONSTANTS
  snapshot_interval_samples,
  max_snapshots,
  MaxSamples  \* bound on the samples of the pass

ASSUME AcquisitionAssumption ==
  /\ snapshot_interval_samples \in Nat \ {0}
  /\ max_snapshots \in Nat \ {0}
  /\ MaxSamples \in Nat

VARIABLES
  primary_up,             \* does the SDR in the primary's place deliver samples?
  shadow,                 \* is there a shadow SDR?
  shadow_active,
  primary_state,          \* samples absorbed by the primary's demodulator
  shadow_state,           \* and by the shadow's
  last_committed_sample,
  snapshots,              \* [sample_id, state], oldest first
  last_snapshot_sample

acquisitionVars == <<primary_up, shadow, shadow_active, primary_state, shadow_state,
          last_committed_sample, snapshots, last_snapshot_sample>>

Sample == 1..MaxSamples

\* new(): with a shadow or without.
AcquisitionInit ==
  /\ primary_up = TRUE
  /\ shadow \in BOOLEAN
  /\ shadow_active = shadow
  /\ primary_state = {}
  /\ shadow_state = {}
  /\ last_committed_sample = 0
  /\ snapshots = <<>>
  /\ last_snapshot_sample = 0

-----------------------------------------------------------------------------
(* DemodState, DemodulatorSnapshot, SnapshotManager *)

\* process_sample(): the carrier and symbol tracking loops move on by a sample.
ProcessSample(state, s) == state \cup {s}

\* capture()
Capture(state, s) == [sample_id |-> s, state |-> state]

\* restore() of latest(): the state, its checksum right or not.
Restored == snapshots[Len(snapshots)].state

ShouldSnapshotLate(s) == s - last_snapshot_sample > snapshot_interval_samples

ShouldSnapshot(s) == s - last_snapshot_sample >= snapshot_interval_samples

\* add_snapshot(): the oldest goes when there are too many.
AddSnapshot(snapshot) ==
  LET all == Append(snapshots, snapshot) IN
  IF Len(all) > max_snapshots THEN Tail(all) ELSE all

\* capture_if_needed(): the state before the sample that triggers it.
CaptureIfNeeded(s) ==
  IF ShouldSnapshot(s)
  THEN /\ snapshots' = AddSnapshot(Capture(primary_state, s))
       /\ last_snapshot_sample' = s
  ELSE UNCHANGED <<snapshots, last_snapshot_sample>>

-----------------------------------------------------------------------------
(* PassAcquisition *)

\* What the shadow's demodulator is given: the state after the sample.
Synced(s) == ProcessSample(primary_state, s)

\* process_primary_sample()
ProcessPrimarySample(s) ==
  /\ primary_up
  /\ CaptureIfNeeded(s)
  /\ primary_state' = ProcessSample(primary_state, s)
  /\ last_committed_sample' = s
  /\ shadow_state' = IF shadow_active THEN Synced(s) ELSE shadow_state
  /\ UNCHANGED <<primary_up, shadow, shadow_active>>

\* The SDR in the primary's place stops delivering.
PrimaryFails ==
  /\ primary_up
  /\ primary_up' = FALSE
  /\ UNCHANGED <<shadow, shadow_active, primary_state, shadow_state,
                 last_committed_sample, snapshots, last_snapshot_sample>>

\* promote_shadow(): the handles are swapped, and the latest snapshot, if there
\* is one, becomes the demodulator's state.
PromoteShadow ==
  /\ shadow
  /\ shadow' = FALSE
  /\ primary_up' = TRUE
  /\ primary_state' = IF snapshots = <<>> THEN primary_state ELSE Restored
  /\ shadow_active' = FALSE
  /\ UNCHANGED <<shadow_state, last_committed_sample, snapshots, last_snapshot_sample>>

AcquisitionNext ==
  \/ /\ last_committed_sample < MaxSamples
     /\ ProcessPrimarySample(last_committed_sample + 1)
  \/ PrimaryFails
  \/ PromoteShadow

AcquisitionSpec == AcquisitionInit /\ [][AcquisitionNext]_acquisitionVars

-----------------------------------------------------------------------------
(* Properties *)

\* Every field of the acquisition has its type.
AcquisitionTypeOK ==
  /\ primary_up \in BOOLEAN
  /\ shadow \in BOOLEAN
  /\ shadow_active \in BOOLEAN
  /\ primary_state \in SUBSET Sample
  /\ shadow_state \in SUBSET Sample
  /\ last_committed_sample \in 0..MaxSamples
  /\ snapshots \in Seq([sample_id : Sample, state : SUBSET Sample])
  /\ Len(snapshots) <= max_snapshots
  /\ last_snapshot_sample \in 0..MaxSamples

\* The samples committed and yet not in the demodulator's state.
Lost == (1..last_committed_sample) \ primary_state

\* While the shadow is active its demodulator has absorbed exactly what the
\* primary's has: it could take over at any sample.
ShadowInSync == shadow_active => shadow /\ shadow_state = primary_state

\* A failover costs at most the samples of one snapshot interval, whenever it
\* comes, and it is the only thing that costs any.
LossIsBounded ==
  /\ Cardinality(Lost) <= snapshot_interval_samples
  /\ shadow => Lost = {}

\* The latest snapshot is never older than one interval, once the pass has run
\* for one: evictions take the oldest.
LatestIsRecent ==
  last_committed_sample >= snapshot_interval_samples =>
    /\ snapshots # <<>>
    /\ last_committed_sample - snapshots[Len(snapshots)].sample_id < snapshot_interval_samples

\* "Demodulator state snapshots enable instant recovery without sample loss":
\* the demodulator has absorbed every committed sample, after a promotion too.
\* The code does not keep it.
Lossless == Lost = {}

\* A failover is safe at any moment: the shadow could take over without losing
\* a sample while it is active, a promotion costs at most one interval, and the
\* snapshot it starts from is never older than that.
FailoverIsSafe == ShadowInSync /\ LossIsBounded /\ LatestIsRecent

==============================================================================
