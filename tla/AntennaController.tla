------------------------- MODULE AntennaController -------------------------
(***************************************************************************)
(* GenericAntennaController (acs/src/controller.rs) and the homing         *)
(* procedure it is calibrated with (acs/src/homing.rs).  Both take         *)
(* `&mut self`: one call at a time, each an action.  One axis stands for   *)
(* azimuth and elevation, which the code treats alike.                     *)
(***************************************************************************)
EXTENDS Integers

CONSTANTS
  AxisMin, AxisMax,  \* azimuth_min .. elevation_max
  Commands,          \* the positions a caller asks for
  Stow,              \* stow_azimuth, stow_elevation
  Index,             \* the index mark of the homing procedure
  References         \* the reference positions it is calibrated to

ASSUME AxisAssumption == AxisMin \in Int /\ AxisMax \in Int /\ AxisMin <= AxisMax
ASSUME PositionAssumption ==
  Commands \subseteq Int /\ Stow \in Int /\ Index \in Int /\ References \subseteq Int

VARIABLES
  status, current, target, enabled,  \* GenericAntennaController
  offset, calibrated                 \* HomingProcedure

antennaVars == <<status, current, target, enabled, offset, calibrated>>

\* The transient Slewing and Homing of a call never outlive it.
ControllerStatus == {"Idle", "Stowed", "EmergencyStopped"}

HomePosition == 0

AntennaTypeOK ==
  /\ status \in ControllerStatus
  /\ {current, target} \subseteq Commands \cup {HomePosition, Stow}
  /\ enabled \in BOOLEAN
  /\ offset \in Int
  /\ calibrated \in BOOLEAN
  /\ ~calibrated => offset = 0

AntennaInit ==
  /\ status = "Idle"
  /\ current = HomePosition
  /\ target = HomePosition
  /\ enabled = FALSE
  /\ offset = 0
  /\ calibrated = FALSE

InLimits(position) == AxisMin <= position /\ position <= AxisMax

\* An accepted point(): the antenna is there, at once.
Reach(position) ==
  /\ enabled
  /\ InLimits(position)
  /\ target' = position
  /\ current' = position

\* The status is left as it was.
PointKeepsStatus(position) ==
  /\ Reach(position)
  /\ UNCHANGED <<status, enabled, offset, calibrated>>

\* point(), and slew_to(), which is point() with an identifier.
point(position) ==
  /\ Reach(position)
  /\ status' = "Idle"
  /\ UNCHANGED <<enabled, offset, calibrated>>

abort_slew ==
  /\ status' = "Idle"
  /\ UNCHANGED <<current, target, enabled, offset, calibrated>>

stow ==
  /\ Reach(Stow)
  /\ status' = "Stowed"
  /\ UNCHANGED <<enabled, offset, calibrated>>

enable ==
  /\ enabled' = TRUE
  /\ UNCHANGED <<status, current, target, offset, calibrated>>

disable ==
  /\ enabled' = FALSE
  /\ status' = "Idle"
  /\ UNCHANGED <<current, target, offset, calibrated>>

\* Only the status changes: the controller stays enabled.
emergency_stop_controller ==
  /\ status' = "EmergencyStopped"
  /\ UNCHANGED <<current, target, enabled, offset, calibrated>>

\* Neither `enabled` nor the limits are consulted, and the target is kept.
home ==
  /\ current' = HomePosition
  /\ status' = "Idle"
  /\ UNCHANGED <<target, enabled, offset, calibrated>>

find_index_marks ==
  /\ offset' = 0
  /\ calibrated' = TRUE
  /\ UNCHANGED <<status, current, target, enabled>>

calibrate_to_reference(reference) ==
  /\ offset' = reference - Index
  /\ calibrated' = TRUE
  /\ UNCHANGED <<status, current, target, enabled>>

reset_calibration ==
  /\ offset' = 0
  /\ calibrated' = FALSE
  /\ UNCHANGED <<status, current, target, enabled>>

apply_calibration(position) == position + offset

AntennaNext ==
  \/ \E position \in Commands : point(position)
  \/ abort_slew
  \/ stow
  \/ enable
  \/ disable
  \/ emergency_stop_controller
  \/ home
  \/ find_index_marks
  \/ \E reference \in References : calibrate_to_reference(reference)
  \/ reset_calibration

AntennaSpec == AntennaInit /\ [][AntennaNext]_antennaVars

----------------------------------------------------------------------------
(* Properties                                                              *)

\* A controller that reports Stowed is parked at its stow position: every
\* other movement takes the status away, whatever came before.
StowedIsParked == status = "Stowed" => current = Stow /\ target = Stow

\* The antenna stands where an accepted command put it or at the position of
\* homing, which is the only one that may lie outside the limits.
StaysInLimits == current = HomePosition \/ InLimits(current)

\* However often the antenna is calibrated, reset and calibrated again, the
\* index mark maps to the last reference, or to itself.
CalibrationIsAbsolute == apply_calibration(Index) \in References \cup {Index}

\* The controller's report of the antenna is true: stowed means parked, the
\* position is one it may have, the calibration is of the last reference.
ReportIsTrue == StowedIsParked /\ StaysInLimits /\ CalibrationIsAbsolute

============================================================================
