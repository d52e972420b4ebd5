----------------------------- MODULE MCPointing -----------------------------
(***************************************************************************)
(* An antenna whose structure shifts once and for all, by more than the    *)
(* outlier limit, while observations keep to their schedule: at least one  *)
(* between two ticks of the clock, each made when it is recorded.          *)
(***************************************************************************)
EXTENDS PointingModel

VARIABLE shift  \* the residual that every observation now shows

ShiftInit == PointingInit /\ shift = Min(Residuals)

Observe ==
  /\ \E q \in Qualities, age \in Delays :
       RecordObservation([age |-> age, residual |-> shift, quality |-> q])
  /\ UNCHANGED shift

PunctualTick == last_age = 0 /\ PointingTick /\ UNCHANGED shift

Shift == shift' \in Residuals /\ shift' > shift /\ UNCHANGED pointingVars

ShiftSpec ==
  /\ ShiftInit /\ [][Observe \/ PunctualTick \/ Shift]_<<pointingVars, shift>>
  /\ WF_<<pointingVars, shift>>(Observe)
  /\ WF_<<pointingVars, shift>>(PunctualTick)

\* "the infrastructure to maintain the pointing model continuously": while
\* observations keep coming the model is operationally current again and again.
\* The code does not keep it: after a shift it drops every observation.
ModelIsMaintained == []<>IsOperationallyCurrent

=============================================================================
