---------------------------- MODULE GainControl ----------------------------
(***************************************************************************)
(* The automatic gain control of the RF front end (rf-front-end/src/agc.rs)*)
(* over the amplifiers and attenuators it owns.  Tasks report signal       *)
(* levels while an operator changes the mode, the gains and the chain: a   *)
(* call takes its locks one after the other, so their steps interleave,    *)
(* but the guard of the amplifiers is held until the attenuators are set.  *)
(*                                                                         *)
(* Levels and gains are integers, in units small enough for every halving  *)
(* of an error to be exact while at most three devices work (GainSettles   *)
(* says so); with more it is rounded.  The devices are moved into the      *)
(* controller, which has no way to enable or disable them: whether one is  *)
(* operable is fixed when it is added.                                     *)
(***************************************************************************)
EXTENDS Integers, FiniteSetsExt

CONSTANTS
  Reporters,                \* tasks that call update_signal_level()
  Amplifiers, Attenuators,  \* devices that may be added: numbers, in the order they are pushed
  OperableAmplifiers, OperableAttenuators,  \* those enabled and without fault
  Inputs,                   \* signal levels at the input of the chain
  initial_level,            \* what a new controller takes the signal to be: -20 dB
  target_level, min_gain, max_gain, hysteresis,  \* AgcConfig
  AmplifierRange,           \* set_gain() accepts these
  MaxAttenuation,           \* of the clamp in adjust_gain() and of the devices
  step_size,                \* of the attenuators
  ManualGains,              \* gains the operator asks for
  MaxInterventions,         \* bound on the operator's calls
  MaxOverlaps               \* bound on the reports made while another is under way

\* The steps divide the range, as DigitalAttenuator::new() computes them.  (A
\* VariableAttenuator of other steps may be rounded past its maximum: FrontEndDevices.)
ASSUME GainAssumption ==
  /\ 0 \in AmplifierRange  \* the gain of a new amplifier
  /\ step_size \in Nat \ {0} /\ MaxAttenuation \in Nat /\ MaxAttenuation % step_size = 0

VARIABLES
  agc_mode, agc_enabled, current_level,
  amplifiers, attenuators,  \* the devices added so far
  gain, attenuation,        \* of every device
  input,                    \* the signal at the input of the chain
  report,                   \* where each call of update_signal_level() is
  resetting,                \* is set_manual_gain() between its two loops?
  interventions,
  overlaps                  \* the reports made while another was under way

gainVars == <<agc_mode, agc_enabled, current_level, amplifiers, attenuators, gain,
              attenuation, input, report, resetting, interventions, overlaps>>
configured == <<agc_mode, agc_enabled, amplifiers, attenuators, input>>

AgcMode == {"Manual", "Automatic"}
NotReporting == [at |-> "idle", error |-> 0]

TotalOf(f, devices) == MapThenSumSet(LAMBDA d : f[d], devices)

\* get_total_gain()
TotalGain == TotalOf(gain, amplifiers) - TotalOf(attenuation, attenuators)

\* The level at the output of the chain, which the receiver reports.
SignalLevel == input + TotalGain

Clamp(x, low, high) == IF x < low THEN low ELSE IF x > high THEN high ELSE x

\* AgcController::new(), and devices as their new() leaves them
GainInit ==
  /\ agc_mode = "Manual"
  /\ agc_enabled = FALSE
  /\ current_level = initial_level
  /\ amplifiers = {}
  /\ attenuators = {}
  /\ gain = [a \in Amplifiers |-> 0]
  /\ attenuation = [a \in Attenuators |-> 0]
  /\ input \in Inputs
  /\ report = [r \in Reporters |-> NotReporting]
  /\ resetting = FALSE
  /\ interventions = 0
  /\ overlaps = 0

-----------------------------------------------------------------------------
(* The devices *)

\* set_gain() of an amplifier: refused when it is not operable or out of range.
SetGain(a, db) == IF a \in OperableAmplifiers /\ db \in AmplifierRange THEN db ELSE gain[a]

\* set_attenuation(): refused when disabled or out of range, else quantized to
\* the step, halves up.
SetAttenuation(b, db) ==
  IF b \in OperableAttenuators /\ db \in 0..MaxAttenuation
  THEN ((2 * db + step_size) \div (2 * step_size)) * step_size
  ELSE attenuation[b]

-----------------------------------------------------------------------------
(* update_signal_level(), step by step *)

LockHeld == resetting \/ \E r \in Reporters : report[r].at = "attenuators"

GoesOn(r, at, error) == report' = [report EXCEPT ![r] = [at |-> at, error |-> error]]
Returns(r) == report' = [report EXCEPT ![r] = NotReporting]

ReportLevel(r) ==
  /\ report[r].at = "idle"
  /\ current_level' = SignalLevel
  /\ GoesOn(r, "enabled?", 0)
  /\ IF \A other \in Reporters : report[other].at = "idle" THEN UNCHANGED overlaps
     ELSE overlaps < MaxOverlaps /\ overlaps' = overlaps + 1
  /\ UNCHANGED <<configured, gain, attenuation, resetting, interventions>>

\* is_enabled() is read first, get_mode() after it has got the lock.
ReadEnabled(r) ==
  /\ report[r].at = "enabled?"
  /\ IF agc_enabled THEN GoesOn(r, "mode?", 0) ELSE Returns(r)
  /\ UNCHANGED <<configured, current_level, gain, attenuation, resetting, interventions, overlaps>>

ReadMode(r) ==
  /\ report[r].at = "mode?"
  /\ IF agc_mode = "Automatic" THEN GoesOn(r, "level", 0) ELSE Returns(r)
  /\ UNCHANGED <<configured, current_level, gain, attenuation, resetting, interventions, overlaps>>

\* adjust_gain() reads whatever level was reported last, and leaves small errors.
ReadLevel(r) ==
  LET error == target_level - current_level IN
  /\ report[r].at = "level"
  /\ IF -hysteresis < error /\ error < hysteresis THEN Returns(r) ELSE GoesOn(r, "amplifiers", error)
  /\ UNCHANGED <<configured, current_level, gain, attenuation, resetting, interventions, overlaps>>


\* compute_adjustment(): half the error
ComputeAdjustment(error) == error \div 2

AdjustAmplifiers(r) ==
  /\ report[r].at = "amplifiers"
  /\ ~ LockHeld
  /\ gain' = [a \in Amplifiers |->
       IF a \in amplifiers
       THEN SetGain(a, Clamp(gain[a] + ComputeAdjustment(report[r].error), min_gain, max_gain))
       ELSE gain[a]]
  /\ GoesOn(r, "attenuators", report[r].error)
  /\ UNCHANGED <<configured, current_level, attenuation, resetting, interventions, overlaps>>

AdjustAttenuators(r) ==
  /\ report[r].at = "attenuators"
  /\ attenuation' = [b \in Attenuators |->
       IF b \in attenuators
       THEN SetAttenuation(b, Clamp(attenuation[b] - ComputeAdjustment(report[r].error),
                                    0, MaxAttenuation))
       ELSE attenuation[b]]
  /\ Returns(r)
  /\ UNCHANGED <<configured, current_level, gain, resetting, interventions, overlaps>>

\* A call under way takes its next step.
Proceed(r) ==
  \/ ReadEnabled(r) \/ ReadMode(r) \/ ReadLevel(r)
  \/ AdjustAmplifiers(r) \/ AdjustAttenuators(r)

-----------------------------------------------------------------------------
(* The operator *)

Intervene == interventions < MaxInterventions /\ interventions' = interventions + 1

\* set_manual_gain(), whatever the mode: every amplifier, then every attenuator
\* back to its minimum.
SetManualGain(db) ==
  /\ ~ LockHeld
  /\ Intervene
  /\ gain' = [a \in Amplifiers |-> IF a \in amplifiers THEN SetGain(a, db) ELSE gain[a]]
  /\ resetting' = TRUE
  /\ UNCHANGED <<configured, current_level, attenuation, report, overlaps>>

ResetAttenuators ==
  /\ resetting
  /\ attenuation' = [b \in Attenuators |->
       IF b \in attenuators THEN SetAttenuation(b, 0) ELSE attenuation[b]]
  /\ resetting' = FALSE
  /\ UNCHANGED <<configured, current_level, gain, report, interventions, overlaps>>

SetMode(m) ==
  /\ Intervene
  /\ agc_mode' = m
  /\ UNCHANGED <<agc_enabled, current_level, amplifiers, attenuators, gain, attenuation,
                 input, report, resetting, overlaps>>

\* enable() and disable()
SetEnabled(on) ==
  /\ Intervene
  /\ agc_enabled' = on
  /\ UNCHANGED <<agc_mode, current_level, amplifiers, attenuators, gain, attenuation,
                 input, report, resetting, overlaps>>

\* add_amplifier() waits for the guard of the amplifiers.
AddAmplifier(a) ==
  /\ a = Cardinality(amplifiers) + 1
  /\ ~ LockHeld
  /\ amplifiers' = amplifiers \cup {a}
  /\ UNCHANGED <<agc_mode, agc_enabled, current_level, attenuators, gain, attenuation,
                 input, report, resetting, interventions, overlaps>>

\* add_attenuator() may come between the two loops of an adjustment.
AddAttenuator(b) ==
  /\ b = Cardinality(attenuators) + 1
  /\ attenuators' = attenuators \cup {b}
  /\ UNCHANGED <<agc_mode, agc_enabled, current_level, amplifiers, gain, attenuation,
                 input, report, resetting, interventions, overlaps>>

GainNext ==
  \/ \E r \in Reporters : ReportLevel(r) \/ Proceed(r)
  \/ \E db \in ManualGains : SetManualGain(db)
  \/ ResetAttenuators
  \/ \E m \in AgcMode : SetMode(m)
  \/ \E on \in BOOLEAN : SetEnabled(on)
  \/ \E a \in Amplifiers : AddAmplifier(a)
  \/ \E b \in Attenuators : AddAttenuator(b)

GainSpec == GainInit /\ [][GainNext]_gainVars

-----------------------------------------------------------------------------
(* Properties *)

\* Every field has its type, and gains and attenuations are ones the devices accept.
GainTypeOK ==
  /\ agc_mode \in AgcMode /\ agc_enabled \in BOOLEAN
  /\ \A a \in Amplifiers : gain[a] \in AmplifierRange
  /\ \A b \in Attenuators : attenuation[b] \in 0..MaxAttenuation

Settled == target_level - SignalLevel < hysteresis /\ SignalLevel - target_level < hysteresis

\* No operable device of the chain can move the level towards the target.
AtLimit ==
  IF SignalLevel < target_level
  THEN /\ \A a \in amplifiers \cap OperableAmplifiers : gain[a] >= max_gain
       /\ \A b \in attenuators \cap OperableAttenuators : attenuation[b] = 0
  ELSE /\ \A a \in amplifiers \cap OperableAmplifiers : gain[a] <= min_gain
       /\ \A b \in attenuators \cap OperableAttenuators : attenuation[b] = MaxAttenuation

Controls == agc_enabled /\ agc_mode = "Automatic"

\* The devices of the chain that answer an error, each with half of it
Working == Cardinality(amplifiers \cap OperableAmplifiers) + Cardinality(attenuators \cap OperableAttenuators)


=============================================================================
