---------------------------- MODULE PointingModel ----------------------------
(***************************************************************************)
(* The calibration of an antenna's pointing, optical/src/pat/              *)
(* calibration.rs: PointingModel, its correction, and the CalibrationTracker *)
(* around it.  Times are ages, counted up by Tick and capped where nothing *)
(* compares them any more.  Residuals are magnitudes in milli-degrees, a   *)
(* correction is known by its confidence, its age and the age of the       *)
(* oldest observation it was computed from.                                *)
(***************************************************************************)
EXTENDS Integers, Sequences, FiniteSets, SequencesExt, FiniteSetsExt

CONSTANTS
  Residuals,      \* residual_magnitude_mdeg() of the observations
  Qualities,      \* signal_quality: 0 or more
  Delays,         \* ages of an observation when it is recorded
  max_history,
  Window,         \* window_seconds
  MaxAge,         \* the four hours of is_operationally_current()
  TargetInterval  \* target_interval_s

ASSUME PointingAssumption ==
  /\ Residuals \subseteq Nat /\ Qualities \subseteq Nat /\ Delays \subseteq 0..(Window + 1)
  /\ max_history \in Nat \ {0}
  /\ Window \in Nat /\ MaxAge \in Nat /\ TargetInterval \in Nat

VARIABLES
  history,      \* accepted observations, oldest first: age, residual, quality
  correction,   \* current_correction
  last_age,     \* age of last_observation_at; Never before the first
  rejected      \* history: the residual update() dropped last; Never if it took one since

pointingVars == <<history, correction, last_age, rejected>>

Never == -1
OldAge == Window + 1
Older(age, cap) == IF age < cap THEN age + 1 ELSE cap

Observations == [age : 0..OldAge, residual : Residuals, quality : Qualities]

\* The model has its type and the history is never longer than max_history.
PointingTypeOK ==
  /\ history \in Seq(Observations)
  /\ Len(history) <= max_history
  /\ correction \in [confidence : 0..5, age : 0..MaxAge, basis : 0..(OldAge + MaxAge)]
  /\ last_age \in {Never} \cup 0..Max(Delays \cup {TargetInterval})
  /\ rejected \in {Never} \cup Residuals

\* new() and PointingCorrection::zero()
PointingInit ==
  /\ history = <<>>
  /\ correction = [confidence |-> 0, age |-> 0, basis |-> 0]
  /\ last_age = Never
  /\ rejected = Never

Total(s) == FoldLeft(LAMBDA total, x : total + x, 0, s)

\* is_outlier(): more than three deviations, of ten at least, above the mean of
\* the whole history.  Multiplied by its length n, the deviation is the square
\* root of n * squares - sum * sum.
IsOutlier(h, r) ==
  LET n == Len(h)
      sum == Total([i \in DOMAIN h |-> h[i].residual])
      squares == Total([i \in DOMAIN h |-> h[i].residual * h[i].residual])
      spread == Max({n * squares - sum * sum, 100 * n * n})
  IN  r * n > sum /\ (r * n - sum) * (r * n - sum) > 9 * spread

InWindowAlways(h) == DOMAIN h

\* The observations recompute_correction() looks at.
InWindow(h) == {i \in DOMAIN h : h[i].age <= Window}

\* recompute_correction(): without recent observations confidence is gone, and
\* without any weight in them nothing changes.
Recomputed(h) ==
  LET recent == InWindow(h) IN
  IF recent = {}
  THEN [correction EXCEPT !.confidence = 0]
  ELSE IF \E i \in recent : h[i].quality > 0
       THEN [confidence |-> Min({Cardinality(recent), 5}), age |-> 0,
             basis |-> Max({h[i].age : i \in recent})]
       ELSE correction

\* update(): an outlier of three observations or more is dropped; the oldest
\* makes room for a new one.
Update(obs) ==
  IF Len(history) >= 3 /\ IsOutlier(history, obs.residual)
  THEN rejected' = obs.residual /\ UNCHANGED <<history, correction>>
  ELSE LET kept == IF Len(history) >= max_history THEN Tail(history) ELSE history IN
       /\ history' = Append(kept, obs)
       /\ correction' = Recomputed(history')
       /\ rejected' = Never

\* record_observation(): a rejected observation counts as one made.
RecordObservation(obs) ==
  /\ last_age' = obs.age
  /\ Update(obs)

PointingTick ==
  /\ history' = [i \in DOMAIN history |-> [history[i] EXCEPT !.age = Older(@, OldAge)]]
  /\ correction' = [correction EXCEPT !.age = Older(@, MaxAge), !.basis = Older(@, OldAge + MaxAge)]
  /\ last_age' = IF last_age = Never THEN Never ELSE Older(last_age, Max(Delays \cup {TargetInterval}))
  /\ UNCHANGED rejected

\* is_operationally_current(): a confidence above 0.3 takes two observations.
IsOperationallyCurrent == correction.age < MaxAge /\ correction.confidence >= 2

ObservationDue == last_age = Never \/ last_age >= TargetInterval

PointingNext ==
  \/ PointingTick
  \/ \E r \in Residuals, q \in Qualities, age \in Delays :
       RecordObservation([age |-> age, residual |-> r, quality |-> q])

PointingSpec == PointingInit /\ [][PointingNext]_pointingVars

-----------------------------------------------------------------------------
(* Properties *)

\* A correction that corrected_pointing() applies rests on no observation older
\* than the window and the freshness limit together, however late observations
\* are reported, however few are accepted and whatever their quality.
AppliedCorrectionIsRecent == IsOperationallyCurrent => correction.basis < Window + MaxAge

\* An ordinary drift does not lock the model, however well the history agrees:
\* what update() drops lies more than 30 milli-degrees above some observation
\* it has accepted.
SmallDriftIsAccepted ==
  rejected # Never => \E i \in DOMAIN history : rejected - history[i].residual > 30

\* The model neither applies what is too old nor rejects what is ordinary.
CorrectionIsSound == AppliedCorrectionIsRecent /\ SmallDriftIsAccepted

=============================================================================
