--------------------------- MODULE StationProofs ---------------------------
(***************************************************************************)
(* Proofs for the parts of a station around the pass: the antenna's        *)
(* interlock, emergency stop and controller, the supervisor of the pass    *)
(* processes, the agent's proposals, the coordinator of the optical        *)
(* acquisitions, the devices of the RF front end, the evidence of the      *)
(* digital twin, and the optical terminal (its queue, its pointing model,  *)
(* its link and its routes), and the types of them all, for any tasks,     *)
(* passes, versions, operators, plans, levels, observations, measurements  *)
(* and graphs.                                                             *)
(***************************************************************************)
EXTENDS MCStation, ProofLemmas

----------------------------------------------------------------------------
(* The interlock *)

\* Under a stop, a call that is not older than the stop can only write the stop.
InterlockIInv ==
  /\ call \in [Tasks -> Calls]
  /\ emergency_stop \in BOOLEAN
  /\ interlock \in InterlockState
  /\ heartbeat_fresh \in BOOLEAN /\ zones \in BOOLEAN
  /\ early \subseteq Tasks
  /\ emergency_stop =>
       \A t \in Tasks \ early : call[t] = NoCall \/ call[t] = Writing("EmergencyStop")

LEMMA CallsDiffer ==
  /\ NoCall.at = "idle"
  /\ \A v : Writing(v).at = "write" /\ Writing(v).verdict = v
  /\ \A p : Checking(p).at = "checks" /\ Checking(p).position = p
  /\ NoCall \in Calls
  /\ \A v \in InterlockState : Writing(v) \in Calls
  /\ \A p \in Positions : Checking(p) \in Calls
  BY DEF NoCall, Writing, Checking, Calls

LEMMA VerdictIsAState == \A p : Verdict(p) \in InterlockState \ {"EmergencyStop"}
  BY DEF Verdict, InterlockState

LEMMA InterlockPreserves ==
  ASSUME InterlockIInv, InterlockNext
  PROVE  InterlockIInv'
<1>1. call' \in [Tasks -> Calls] /\ emergency_stop' \in BOOLEAN
  <2>1. "EmergencyStop" \in InterlockState /\ "Normal" \in InterlockState
    BY DEF InterlockState
  <2>2. ASSUME NEW t \in Tasks, trigger_emergency_stop(t) \/ clear_emergency_stop(t)
        PROVE  call' \in [Tasks -> Calls] /\ emergency_stop' \in BOOLEAN
    BY <2>1, <2>2, CallsDiffer DEF InterlockIInv, trigger_emergency_stop, clear_emergency_stop
  <2>3. ASSUME NEW t \in Tasks, NEW p \in Positions, validate_position(t, p)
        PROVE  call' \in [Tasks -> Calls] /\ emergency_stop' \in BOOLEAN
    BY <2>1, <2>3, CallsDiffer DEF InterlockIInv, validate_position
  <2>4. ASSUME NEW t \in Tasks, CheckPosition(t) \/ WriteState(t)
        PROVE  call' \in [Tasks -> Calls] /\ emergency_stop' \in BOOLEAN
    BY <2>4, CallsDiffer, VerdictIsAState DEF InterlockIInv, CheckPosition, WriteState
  <2>5. CASE UNCHANGED <<call, emergency_stop>>
    BY <2>5 DEF InterlockIInv
  <2> QED BY <2>2, <2>3, <2>4, <2>5
          DEF InterlockNext, InterlockStep, set_fault, clear_fault, update_watchdog, WatchdogExpires,
              add_collision_zone
<1>2. ASSUME emergency_stop', NEW u \in Tasks, u \notin early'
      PROVE  call'[u] = NoCall \/ call'[u] = Writing("EmergencyStop")
  <2>1. CASE ~ emergency_stop
    <3>1. PICK t \in Tasks : trigger_emergency_stop(t)
      BY <1>2, <2>1
      DEF InterlockNext, InterlockStep, clear_emergency_stop, validate_position, CheckPosition, WriteState,
          set_fault, clear_fault, update_watchdog, WatchdogExpires, add_collision_zone
    <3>2. call[u] = NoCall
      BY <1>2, <2>1 DEF InterlockNext
    <3> QED BY <3>1, <3>2 DEF trigger_emergency_stop, InterlockIInv
  <2>2. CASE emergency_stop
    <3>1. early' = {t \in early : call'[t] # NoCall}
      BY <1>2, <2>2 DEF InterlockNext
    <3>2. CASE call'[u] = NoCall
      BY <3>2
    <3>3. CASE u \notin early
      <4>1. call[u] = NoCall \/ call[u] = Writing("EmergencyStop")
        BY <1>2, <2>2, <3>3 DEF InterlockIInv
      <4>2. call'[u] # call[u] => call'[u] = NoCall \/ call'[u] = Writing("EmergencyStop")
        <5>1. ASSUME NEW t \in Tasks, trigger_emergency_stop(t)
              PROVE  call'[u] # call[u] => call'[u] = Writing("EmergencyStop")
          BY <5>1 DEF trigger_emergency_stop, InterlockIInv
        <5>2. ASSUME NEW t \in Tasks, clear_emergency_stop(t) PROVE FALSE
          BY <1>2, <5>2 DEF clear_emergency_stop
        <5>3. ASSUME NEW t \in Tasks, NEW p \in Positions, validate_position(t, p)
              PROVE  call'[u] # call[u] => call'[u] = Writing("EmergencyStop")
          BY <2>2, <5>3 DEF validate_position, InterlockIInv
        <5>4. ASSUME NEW t \in Tasks, CheckPosition(t) PROVE call'[u] = call[u]
          <6>1. t # u
            BY <4>1, <5>4, CallsDiffer DEF CheckPosition
          <6> QED BY <5>4, <6>1 DEF CheckPosition, InterlockIInv
        <5>5. ASSUME NEW t \in Tasks, WriteState(t)
              PROVE  call'[u] # call[u] => call'[u] = NoCall
          BY <5>5 DEF WriteState, InterlockIInv
        <5>6. CASE UNCHANGED call
          BY <5>6
        <5> QED BY <5>1, <5>2, <5>3, <5>4, <5>5, <5>6
                DEF InterlockNext, InterlockStep, set_fault, clear_fault, update_watchdog,
                    WatchdogExpires, add_collision_zone
      <4> QED BY <4>1, <4>2
    <3> QED BY <1>2, <3>1, <3>2, <3>3
  <2> QED BY <2>1, <2>2
<1>3. interlock' \in InterlockState
  <2>1. ASSUME NEW t \in Tasks, WriteState(t) PROVE interlock' \in InterlockState
    <3>1. call[t] \in Calls /\ call[t].at = "write" /\ interlock' = call[t].verdict
      BY <2>1 DEF InterlockIInv, WriteState
    <3>2. PICK v \in InterlockState : call[t] = Writing(v)
      BY <3>1, CallsDiffer DEF Calls
    <3> QED BY <3>1, <3>2, CallsDiffer
  <2>2. ASSUME NEW fault \in Faults, set_fault(fault) \/ clear_fault(fault) PROVE interlock' \in InterlockState
    BY <2>2 DEF set_fault, clear_fault, Faults, InterlockState
  <2>3. CASE UNCHANGED interlock
    BY <2>3 DEF InterlockIInv
  <2> QED BY <2>1, <2>2, <2>3
          DEF InterlockNext, InterlockStep, trigger_emergency_stop, clear_emergency_stop, validate_position,
              CheckPosition, update_watchdog, WatchdogExpires, add_collision_zone
<1>4. heartbeat_fresh' \in BOOLEAN /\ zones' \in BOOLEAN
  BY DEF InterlockIInv, InterlockNext, InterlockStep, trigger_emergency_stop, clear_emergency_stop,
         validate_position, CheckPosition, WriteState, set_fault, clear_fault, update_watchdog,
         WatchdogExpires, add_collision_zone
<1>5. early' \subseteq Tasks
  BY DEF InterlockIInv, InterlockNext
<1> QED BY <1>1, <1>2, <1>3, <1>4, <1>5 DEF InterlockIInv

\* No step of the interlock hides a stop.
LEMMA NoStepHidesTheStop ==
  ASSUME InterlockIInv, InterlockNext, emergency_stop, emergency_stop',
         interlock = "EmergencyStop", early = {}
  PROVE  interlock' \in {"EmergencyStop"} \cup Faults
<1>1. ASSUME NEW t \in Tasks, WriteState(t) PROVE interlock' = "EmergencyStop"
  <2>1. call[t] = Writing("EmergencyStop")
    BY <1>1, CallsDiffer DEF WriteState, InterlockIInv
  <2> QED BY <1>1, <2>1, CallsDiffer DEF WriteState
<1>2. ASSUME NEW fault \in Faults, clear_fault(fault) PROVE FALSE
  BY <1>2 DEF clear_fault, Faults
<1>3. ASSUME NEW fault \in Faults, set_fault(fault) PROVE interlock' \in Faults
  BY <1>3 DEF set_fault
<1>4. CASE UNCHANGED interlock
  BY <1>4
<1> QED BY <1>1, <1>2, <1>3, <1>4
        DEF InterlockNext, InterlockStep, trigger_emergency_stop, clear_emergency_stop, validate_position,
            CheckPosition, update_watchdog, WatchdogExpires, add_collision_zone

----------------------------------------------------------------------------
(* The emergency stop's record *)

\* Whoever is between its two writes holds the lock, and has written its time.
RecordIInv ==
  /\ stopper \in [Stoppers -> StopCalls]
  /\ time_lock \in Stoppers \cup {NoTask}
  /\ triggers \in Stamps
  /\ triggered \in BOOLEAN /\ trigger_time \in Stamps /\ trigger_reason \in Stamps
  /\ \A s \in Stoppers : stopper[s].at = "reason" <=> time_lock = s
  /\ \A s \in Stoppers : time_lock = s => trigger_time = stopper[s].stamp
  /\ TimeAndReasonAgree

LEMMA RecordPreserves ==
  ASSUME RecordIInv, StopNext
  PROVE  RecordIInv'
<1> USE SafetyAssumption
<1>1. PICK s \in Stoppers : trigger(s) \/ clear(s) \/ WriteTime(s) \/ WriteReason(s)
  BY DEF StopNext
<1>2. stopper[s] \in StopCalls /\ triggers \in Nat /\ 0 \in Stamps /\ s # NoTask
  BY DEF RecordIInv, Stamps
<1>3. CASE trigger(s) \/ clear(s)
  <2>1. PICK new \in Stamps : stopper' = [stopper EXCEPT ![s] = [at |-> "time", stamp |-> new]]
    BY <1>2, <1>3 DEF trigger, clear, Stamps
  <2>2. triggers' \in Stamps
    BY <1>2, <1>3 DEF trigger, clear, Stamps, RecordIInv
  <2>3. stopper[s].at = "idle" /\ time_lock # s
    BY <1>2, <1>3 DEF trigger, clear, Idle, RecordIInv
  <2>4. UNCHANGED <<trigger_time, trigger_reason, time_lock>> /\ triggered' \in BOOLEAN
    BY <1>3 DEF trigger, clear
  <2>5. stopper' \in [Stoppers -> StopCalls]
    BY <2>1 DEF StopCalls, RecordIInv
  <2> QED BY <2>1, <2>2, <2>3, <2>4, <2>5 DEF RecordIInv, TimeAndReasonAgree
<1>4. CASE WriteTime(s)
  <2>1. /\ time_lock = NoTask /\ time_lock' = s /\ trigger_time' = stopper[s].stamp
        /\ stopper' = [stopper EXCEPT ![s] = [stopper[s] EXCEPT !.at = "reason"]]
        /\ UNCHANGED <<triggered, trigger_reason, triggers>> /\ stopper[s].stamp \in Stamps
    BY <1>2, <1>4 DEF WriteTime, StopCalls
  <2>2. stopper' \in [Stoppers -> StopCalls]
    BY <1>2, <2>1 DEF StopCalls, RecordIInv
  <2>3. stopper'[s].at = "reason" /\ stopper'[s].stamp = stopper[s].stamp
    BY <1>2, <2>1 DEF StopCalls, RecordIInv
  <2>4. \A u \in Stoppers : u # s => stopper'[u] = stopper[u] /\ stopper[u].at # "reason"
    BY <2>1 DEF RecordIInv
  <2> QED BY <1>2, <2>1, <2>2, <2>3, <2>4 DEF RecordIInv, TimeAndReasonAgree
<1>5. CASE WriteReason(s)
  <2>1. /\ time_lock = s /\ time_lock' = NoTask /\ trigger_reason' = stopper[s].stamp
        /\ UNCHANGED <<triggered, trigger_time, triggers>> /\ stopper[s].stamp \in Stamps
        /\ stopper' = [stopper EXCEPT ![s] = Idle]
    BY <1>2, <1>5 DEF WriteReason, RecordIInv, StopCalls
  <2>2. Idle \in StopCalls /\ Idle.at = "idle"
    BY <1>2 DEF Idle, StopCalls
  <2>3. stopper' \in [Stoppers -> StopCalls]
    BY <2>1, <2>2 DEF RecordIInv
  <2>4. \A u \in Stoppers : u # s => stopper'[u] = stopper[u] /\ stopper[u].at # "reason"
    BY <2>1 DEF RecordIInv
  <2>5. stopper'[s].at = "idle"
    BY <2>1, <2>2 DEF RecordIInv
  <2> QED BY <1>2, <2>1, <2>3, <2>4, <2>5 DEF RecordIInv, TimeAndReasonAgree
<1> QED BY <1>1, <1>3, <1>4, <1>5

LEMMA SafetyInitially == ASSUME SafetyInit PROVE InterlockIInv /\ RecordIInv
<1>1. InterlockIInv
  BY CallsDiffer DEF SafetyInit, InterlockInit, InterlockIInv, InterlockState
<1>2. Idle \in StopCalls /\ Idle.at = "idle" /\ 0 \in Stamps
  BY SafetyAssumption DEF Idle, StopCalls, Stamps
<1>3. RecordIInv
  BY <1>2, SafetyAssumption DEF SafetyInit, StopInit, RecordIInv, TimeAndReasonAgree
<1> QED BY <1>1, <1>3

LEMMA SafetyPreserves ==
  ASSUME InterlockIInv, RecordIInv, [SafetyNext]_safetyVars
  PROVE  InterlockIInv' /\ RecordIInv'
<1>1. ASSUME UNCHANGED interlockVars PROVE InterlockIInv'
  BY <1>1 DEF interlockVars, InterlockIInv
<1>2. ASSUME UNCHANGED stopVars PROVE RecordIInv'
  BY <1>2 DEF stopVars, RecordIInv, TimeAndReasonAgree
<1> QED BY <1>1, <1>2, InterlockPreserves, RecordPreserves DEF SafetyNext, safetyVars

LEMMA SafetyIsTyped == SafetySpec => []SafetyTypeOK
<1>1. InterlockIInv /\ RecordIInv => SafetyTypeOK
  BY DEF InterlockIInv, RecordIInv, SafetyTypeOK
<1> QED BY <1>1, SafetyInitially, SafetyPreserves, PTL DEF SafetySpec

\* Whatever the tasks that validate, trigger and clear do between each other's
\* awaits: an emergency stop that is shown is replaced by a reported fault only, while it
\* lasts and once the calls older than it have returned, and the recorded time and reason
\* are of one trigger.
THEOREM StopStaysKept == SafetySpec => StopIsKept
<1>1. SafetyInit => InterlockIInv /\ RecordIInv
  BY SafetyInitially
<1>2. InterlockIInv /\ RecordIInv /\ [SafetyNext]_safetyVars => InterlockIInv' /\ RecordIInv'
  BY SafetyPreserves
<1>3. InterlockIInv /\ [SafetyNext]_safetyVars =>
        [emergency_stop /\ emergency_stop' /\ interlock = "EmergencyStop" /\ early = {}
           => interlock' \in {"EmergencyStop"} \cup Faults]_safetyVars
  <2> SUFFICES ASSUME InterlockIInv, SafetyNext, emergency_stop, emergency_stop',
                      interlock = "EmergencyStop", early = {}
               PROVE  interlock' \in {"EmergencyStop"} \cup Faults
    OBVIOUS
  <2>1. CASE UNCHANGED interlockVars
    BY <2>1 DEF interlockVars
  <2> QED BY <2>1, NoStepHidesTheStop DEF SafetyNext
<1>4. RecordIInv => TimeAndReasonAgree
  BY DEF RecordIInv
<1> QED BY <1>1, <1>2, <1>3, <1>4, PTL DEF SafetySpec, StopIsKept, StopSticks

----------------------------------------------------------------------------
(* The antenna controller *)

\* The parts of the report do not depend on each other: the type is all they need.
AntennaIInv == AntennaTypeOK /\ ReportIsTrue

LEMMA AntennaInitially == ASSUME AntennaInit PROVE AntennaIInv
<1> USE AxisAssumption, PositionAssumption
<1>1. AntennaTypeOK
  <2>1. {current, target} \subseteq Commands \cup {HomePosition, Stow}
    BY DEF AntennaInit
  <2>2. status \in ControllerStatus /\ enabled \in BOOLEAN /\ calibrated \in BOOLEAN
    BY DEF AntennaInit, ControllerStatus
  <2>3. offset \in Int /\ offset = 0
    BY DEF AntennaInit
  <2> QED BY <2>1, <2>2, <2>3, Zenon DEF AntennaTypeOK
<1>2. StowedIsParked /\ StaysInLimits
  BY DEF AntennaInit, StowedIsParked, StaysInLimits
<1>3. CalibrationIsAbsolute
  BY DEF AntennaInit, CalibrationIsAbsolute, apply_calibration
<1> QED BY <1>1, <1>2, <1>3 DEF ReportIsTrue, AntennaIInv

LEMMA AntennaPreserves == ASSUME AntennaIInv, [AntennaNext]_antennaVars PROVE AntennaIInv'
<1> USE AxisAssumption, PositionAssumption
<1> USE DEF AntennaIInv, AntennaTypeOK, ReportIsTrue, StowedIsParked, StaysInLimits, CalibrationIsAbsolute,
            apply_calibration, ControllerStatus
<1>1. ASSUME NEW position \in Commands, point(position) PROVE AntennaIInv'
  BY <1>1 DEF point, Reach, InLimits
<1>2. CASE stow
  BY <1>2 DEF stow, Reach, InLimits
<1>3. CASE abort_slew \/ enable \/ disable \/ emergency_stop_controller
  BY <1>3 DEF abort_slew, enable, disable, emergency_stop_controller, InLimits
<1>4. CASE home
  BY <1>4 DEF home
<1>5. CASE find_index_marks \/ reset_calibration
  <2>1. offset' = 0 /\ calibrated' \in BOOLEAN /\ UNCHANGED <<status, current, target, enabled>>
    BY <1>5 DEF find_index_marks, reset_calibration
  <2>2. AntennaTypeOK'
    BY <2>1
  <2>3. StowedIsParked' /\ StaysInLimits'
    BY <2>1 DEF InLimits
  <2>4. CalibrationIsAbsolute'
    BY <2>1
  <2> QED BY <2>2, <2>3, <2>4
<1>6. ASSUME NEW reference \in References, calibrate_to_reference(reference) PROVE AntennaIInv'
  BY <1>6 DEF calibrate_to_reference, InLimits
<1>7. CASE UNCHANGED antennaVars
  BY <1>7 DEF antennaVars, InLimits
<1> QED BY <1>1, <1>2, <1>3, <1>4, <1>5, <1>6, <1>7 DEF AntennaNext

LEMMA AntennaIsTyped == AntennaSpec => []AntennaTypeOK
<1>1. AntennaIInv => AntennaTypeOK
  BY DEF AntennaIInv
<1> QED BY <1>1, AntennaInitially, AntennaPreserves, PTL DEF AntennaSpec

\* The controller's report of the antenna is true for any limits, commands, stow
\* position and references.
THEOREM ReportStaysTrue == AntennaSpec => []ReportIsTrue
<1>1. AntennaInit => AntennaIInv
  BY AntennaInitially
<1>2. AntennaIInv /\ [AntennaNext]_antennaVars => AntennaIInv'
  BY AntennaPreserves
<1>3. AntennaIInv => ReportIsTrue
  BY DEF AntennaIInv
<1> QED BY <1>1, <1>2, <1>3, PTL DEF AntennaSpec

----------------------------------------------------------------------------
(* The supervisor *)

\* A pid is used once and in order, which is what makes the record of a pass the
\* newest.
SupervisorIInv ==
  /\ processes \subseteq Processes
  /\ live \subseteq Pids
  /\ image \in [live -> [pass : Passes, schema : Schemas]]
  /\ config \in Configs
  /\ disk \in [Paths -> Contents \cup {Absent}]
  /\ nextPid \in 1..(MaxPid + 1)
  /\ \A pid \in live : pid < nextPid
  /\ \A p \in processes : p.pid < nextPid
  /\ ProcessesAreSound

LEMMA StartPreserves ==
  ASSUME SupervisorIInv, NEW pass \in Passes, start_pass(pass)
  PROVE  SupervisorIInv'
<1> DEFINE new == [pass |-> pass, pid |-> nextPid, version |-> config.version, schema |-> config.schema]
           started == [pass |-> pass, schema |-> config.schema]
<1>1. /\ nextPid \in Pids /\ nextPid \in Nat /\ nextPid' = nextPid + 1 /\ nextPid' \in 1..(MaxPid + 1)
      /\ UNCHANGED <<config, disk>>
      /\ processes' = (processes \ get_process(pass)) \cup {new}
      /\ live' = live \cup {nextPid}
      /\ image' = [pid \in live' |-> IF pid = nextPid THEN started ELSE image[pid]]
  BY SupervisorAssumption DEF start_pass, add_process, SupervisorIInv, Pids
<1>2. config.version \in Versions /\ config.schema \in Schemas
  BY DEF SupervisorIInv, Configs
<1>3. /\ new \in Processes /\ new.pass = pass /\ new.pid = nextPid
      /\ started \in [pass : Passes, schema : Schemas]
      /\ started.pass = pass /\ started.schema = config.schema
  BY <1>1, <1>2 DEF Processes
<1> HIDE DEF new, started
<1>4. /\ nextPid \notin live
      /\ \A pid \in live : pid \in Int /\ pid <= nextPid
  BY <1>1 DEF SupervisorIInv, Pids
<1>5. /\ image'[nextPid] = started
      /\ \A pid \in live : image'[pid] = image[pid]
  BY <1>1, <1>4
<1>6. processes' \subseteq Processes /\ live' \subseteq Pids
  BY <1>1, <1>3 DEF SupervisorIInv
<1>7. image' \in [live' -> [pass : Passes, schema : Schemas]]
  <2>1. ASSUME NEW pid \in live' PROVE image'[pid] \in [pass : Passes, schema : Schemas]
    BY <1>1, <1>3, <1>5, <2>1 DEF SupervisorIInv
  <2> QED BY <1>1, <2>1
<1>8. \A pid \in live' : pid < nextPid'
  BY <1>1, <1>4 DEF SupervisorIInv
<1>9. LiveProcessesShareSchema'
  BY <1>1, <1>3, <1>5 DEF SupervisorIInv, ProcessesAreSound, LiveProcessesShareSchema
<1>10. NewestProcessIsRecorded'
  <2> SUFFICES ASSUME NEW p \in processes'
               PROVE  /\ \A q \in processes' : q.pass = p.pass => q = p
                      /\ \A pid \in live' : image'[pid].pass = p.pass => pid <= p.pid
    BY DEF NewestProcessIsRecorded
  <2>1. CASE p = new
    <3>1. \A q \in processes' : q.pass = p.pass => q = p
      BY <1>1, <1>3, <2>1 DEF get_process
    <3>2. \A pid \in live' : pid <= p.pid
      BY <1>1, <1>3, <1>4, <2>1
    <3> QED BY <3>1, <3>2
  <2>2. CASE p # new
    <3>1. p \in processes /\ p.pass # pass
      BY <1>1, <2>2 DEF get_process
    <3>2. \A q \in processes' : q.pass = p.pass => q = p
      BY <1>1, <1>3, <3>1 DEF SupervisorIInv, ProcessesAreSound, NewestProcessIsRecorded
    <3>3. \A pid \in live' : image'[pid].pass = p.pass => pid <= p.pid
      BY <1>1, <1>3, <1>5, <3>1 DEF SupervisorIInv, ProcessesAreSound, NewestProcessIsRecorded
    <3> QED BY <3>2, <3>3
  <2> QED BY <2>1, <2>2
<1>11. \A p \in processes' : p.pid < nextPid'
  <2>1. \A p \in processes : p.pid \in Int /\ p.pid < nextPid
    BY DEF SupervisorIInv, Processes, Pids
  <2> QED BY <1>1, <1>3, <2>1
<1> QED BY <1>1, <1>6, <1>7, <1>8, <1>9, <1>10, <1>11 DEF SupervisorIInv, ProcessesAreSound

LEMMA SupervisorInitially == ASSUME SupervisorInit PROVE SupervisorIInv
  BY SupervisorAssumption
  DEF SupervisorInit, SupervisorIInv, ProcessesAreSound, LiveProcessesShareSchema, NewestProcessIsRecorded

LEMMA SupervisorPreserves == ASSUME SupervisorIInv, [SupervisorNext]_supervisorVars PROVE SupervisorIInv'
<1> USE DEF ProcessesAreSound, LiveProcessesShareSchema, NewestProcessIsRecorded
<1>1. ASSUME NEW pids, Exit(pids) PROVE SupervisorIInv'
  <2>1. /\ live' \subseteq live /\ image' = [pid \in live' |-> image[pid]]
        /\ UNCHANGED <<config, processes, disk, nextPid>>
    BY <1>1 DEF Exit
  <2>2. image' \in [live' -> [pass : Passes, schema : Schemas]]
    BY <2>1 DEF SupervisorIInv
  <2>3. \A pid \in live' : pid \in live /\ image'[pid] = image[pid]
    BY <2>1
  <2> QED BY <2>1, <2>2, <2>3 DEF SupervisorIInv
<1>2. ASSUME NEW pass \in Passes, complete_pass(pass) PROVE SupervisorIInv'
  BY <1>1, <1>2 DEF complete_pass
<1>3. CASE ProcessExits
  BY <1>1, <1>3 DEF ProcessExits
<1>4. ASSUME NEW binary \in Binaries, deploy(binary) PROVE SupervisorIInv'
  <2>1. config' \in Configs /\ config'.schema = config.schema
    BY <1>4 DEF deploy, schema_compatible, Binaries, Configs
  <2>2. UNCHANGED <<processes, disk, live, image, nextPid>>
    BY <1>4 DEF deploy
  <2> QED BY <2>1, <2>2 DEF SupervisorIInv
<1>5. ASSUME UNCHANGED <<config, processes, live, image, nextPid>>, disk' \in [Paths -> Contents \cup {Absent}]
      PROVE  SupervisorIInv'
  BY <1>5 DEF SupervisorIInv
<1>6. CASE FileChanges
  <2>1. disk' \in [Paths -> Contents \cup {Absent}]
    BY <1>6 DEF FileChanges, SupervisorIInv
  <2> QED BY <1>5, <1>6, <2>1 DEF FileChanges
<1>7. CASE UNCHANGED supervisorVars
  BY <1>5, <1>7 DEF supervisorVars, SupervisorIInv
<1> QED BY <1>2, <1>3, <1>4, <1>6, <1>7, StartPreserves DEF SupervisorNext

LEMMA SupervisorIsTyped == SupervisorSpec => []SupervisorTypeOK
<1>1. SupervisorIInv => SupervisorTypeOK
  BY DEF SupervisorIInv, SupervisorTypeOK
<1> QED BY <1>1, SupervisorInitially, SupervisorPreserves, PTL DEF SupervisorSpec

\* However many binaries are deployed, replaced on disk and started, every live
\* process has the shared-memory schema of the current one, and a pass's record is of
\* its newest process.
THEOREM ProcessesStaySound == SupervisorSpec => []ProcessesAreSound
<1>1. SupervisorInit => SupervisorIInv
  BY SupervisorInitially
<1>2. SupervisorIInv /\ [SupervisorNext]_supervisorVars => SupervisorIInv'
  BY SupervisorPreserves
<1>3. SupervisorIInv => ProcessesAreSound
  BY DEF SupervisorIInv
<1> QED BY <1>1, <1>2, <1>3, PTL DEF SupervisorSpec

----------------------------------------------------------------------------
(* The agent's proposals *)

\* Whatever the risk, an approval not yet spent is one more than the executions, and
\* no call takes a proposal back to Pending.
ProposalsIInv ==
  /\ ProposalsTypeOK
  /\ \A id \in ProposalIds :
       /\ executions[id] <= approvals[id]
       /\ proposals[id].status = "Approved" => executions[id] < approvals[id]
       /\ proposals[id].status = "Pending" => executions[id] = 0

LEMMA ProposalsInitially == ASSUME ProposalsInit PROVE ProposalsIInv
  BY ProposalsAssumption DEF ProposalsInit, ProposalsIInv, ProposalsTypeOK, NoProposal

LEMMA ProposalsPreserve == ASSUME ProposalsIInv, [ProposalsNext]_proposalVars PROVE ProposalsIInv'
<1> USE ProposalsAssumption
<1> DEFINE Proposed == ActionProposal \cup {NoProposal}
           Fits(p, a, e) ==
             /\ p \in Proposed /\ a \in 0..MaxApprovals /\ e \in Nat
             /\ p.status = "Executed" /\ e > 0 => p.executed
             /\ e <= a
             /\ p.status = "Approved" => e < a
             /\ p.status = "Pending" => e = 0
<1>1. ASSUME NEW id \in ProposalIds, NEW p, NEW a, NEW e, Fits(p, a, e),
             proposals' = [proposals EXCEPT ![id] = p],
             approvals' = [approvals EXCEPT ![id] = a],
             executions' = [executions EXCEPT ![id] = e]
      PROVE  ProposalsIInv'
  BY <1>1 DEF ProposalsIInv, ProposalsTypeOK
<1>2. \A id \in ProposalIds :
        /\ Fits(proposals[id], approvals[id], executions[id])
        /\ approvals = [approvals EXCEPT ![id] = approvals[id]]
        /\ executions = [executions EXCEPT ![id] = executions[id]]
  BY DEF ProposalsIInv, ProposalsTypeOK
<1>3. \A p \in ActionProposal : p.status \in ApprovalStatus /\ p # NoProposal
  BY DEF ActionProposal, NoProposal, ApprovalStatus
<1>4. ASSUME NEW id \in ProposalIds, NEW p \in ActionProposal, create_proposal(id, p)
      PROVE  ProposalsIInv'
  <2> DEFINE a == IF p.status = "Approved" THEN 1 ELSE 0
  <2>1. Fits(p, a, 0)
    OBVIOUS
  <2> HIDE DEF Fits
  <2> QED BY <1>1, <1>4, <2>1 DEF create_proposal
<1>5. ASSUME NEW id \in ProposalIds, NEW operator \in Operators, approve(id, operator)
      PROVE  ProposalsIInv'
  <2> DEFINE p == [proposals[id] EXCEPT !.status = "Approved", !.decided_by = operator]
  <2>1. proposals[id] \in ActionProposal
    BY <1>2, <1>5 DEF approve
  <2>2. /\ p \in ActionProposal /\ p.status = "Approved" /\ p.decided_by = operator
        /\ p.executed = proposals[id].executed
    BY <2>1 DEF ActionProposal, ApprovalStatus
  <2>3. /\ proposals' = [proposals EXCEPT ![id] = p]
        /\ approvals' = [approvals EXCEPT ![id] = approvals[id] + 1]
        /\ executions' = [executions EXCEPT ![id] = executions[id]]
        /\ approvals[id] < MaxApprovals
    BY <1>2, <1>5 DEF approve
  <2> HIDE DEF p
  <2>4. Fits(p, approvals[id] + 1, executions[id])
    BY <1>2, <2>2, <2>3
  <2> HIDE DEF Fits
  <2> QED BY <1>1, <2>3, <2>4
<1>6. ASSUME NEW id \in ProposalIds, NEW operator \in Operators, reject(id, operator)
      PROVE  ProposalsIInv'
  <2> DEFINE p == [proposals[id] EXCEPT !.status = "Rejected", !.decided_by = operator]
  <2>1. proposals[id] \in ActionProposal
    BY <1>2, <1>6 DEF reject
  <2>2. /\ p \in ActionProposal /\ p.status = "Rejected" /\ p.decided_by = operator
        /\ p.executed = proposals[id].executed
    BY <2>1 DEF ActionProposal, ApprovalStatus
  <2>3. /\ proposals' = [proposals EXCEPT ![id] = p]
        /\ approvals' = [approvals EXCEPT ![id] = approvals[id]]
        /\ executions' = [executions EXCEPT ![id] = executions[id]]
    BY <1>2, <1>6 DEF reject
  <2> HIDE DEF p
  <2>4. Fits(p, approvals[id], executions[id])
    BY <1>2, <2>2
  <2> HIDE DEF Fits
  <2> QED BY <1>1, <2>3, <2>4
<1>7. ASSUME NEW id \in ProposalIds, execute(id) PROVE ProposalsIInv'
  <2> DEFINE p == [proposals[id] EXCEPT !.status = "Executed", !.executed = TRUE]
  <2>1. proposals[id] \in ActionProposal /\ proposals[id].status = "Approved"
    BY <1>2, <1>7 DEF execute, NoProposal
  <2>2. /\ p \in ActionProposal /\ p.status = "Executed" /\ p.executed = TRUE
        /\ p.decided_by = proposals[id].decided_by
    BY <2>1 DEF ActionProposal, ApprovalStatus
  <2>3. /\ proposals' = [proposals EXCEPT ![id] = p]
        /\ approvals' = [approvals EXCEPT ![id] = approvals[id]]
        /\ executions' = [executions EXCEPT ![id] = executions[id] + 1]
    BY <1>2, <1>7 DEF execute
  <2> HIDE DEF p
  <2>4. Fits(p, approvals[id], executions[id] + 1)
    BY <1>2, <2>1, <2>2
  <2> HIDE DEF Fits
  <2> QED BY <1>1, <2>3, <2>4
<1>8. CASE UNCHANGED proposalVars
  BY <1>8 DEF proposalVars, ProposalsIInv, ProposalsTypeOK
<1> QED BY <1>4, <1>5, <1>6, <1>7, <1>8 DEF ProposalsNext

LEMMA ProposalsAreTyped == ProposalsSpec => []ProposalsTypeOK
<1>1. ProposalsIInv => ProposalsTypeOK
  BY DEF ProposalsIInv
<1> QED BY <1>1, ProposalsInitially, ProposalsPreserve, PTL DEF ProposalsSpec

\* Over any history of proposals, approvals, rejections and executions, for any
\* operators and whatever callers write into the proposals they create, a
\* consequential action runs at most once per approval, and not while it waits.
THEOREM ApprovalsAreSpentOnce == ProposalsSpec => []OneExecutionPerApproval
<1>1. ProposalsInit => ProposalsIInv
  BY ProposalsInitially
<1>2. ProposalsIInv /\ [ProposalsNext]_proposalVars => ProposalsIInv'
  BY ProposalsPreserve
<1>3. ProposalsIInv => OneExecutionPerApproval
  BY DEF ProposalsIInv, OneExecutionPerApproval
<1> QED BY <1>1, <1>2, <1>3, PTL DEF ProposalsSpec

----------------------------------------------------------------------------
(* The coordinator of the acquisitions *)

LEMMA PhasesAreNamed ==
  /\ \A name, plan : Phase(name, plan).name = name /\ Phase(name, plan).plan = plan
  /\ NotExecuting.at = "none"
  /\ \A f \in Futures : f.at \in {"waiting", "searching"} => f.plan \in Plans
  BY DEF Phase, NotExecuting, Futures

PatIInv ==
  /\ PatTypeOK
  /\ AnnouncedPlanIsStored
  /\ TasksBeginOnTime

LEMMA PatInitially == ASSUME PatInit PROVE PatIInv
<1> USE PatAssumption
<1>1. PatTypeOK
  <2>1. pat_now \in PatTimes /\ acquisition_schedules \in [PatTimes -> Plans \cup {NoPlan}]
    BY DEF PatInit, PatTimes
  <2>2. current_phase \in PatPhases /\ executing \in Futures
    BY DEF PatInit, PatPhases, Futures
  <2>3. [at |-> "none", clock |-> FALSE] \in TaskStates
    BY DEF TaskStates
  <2> QED BY <2>1, <2>2, <2>3 DEF PatInit, PatTypeOK
<1> QED BY <1>1, PhasesAreNamed DEF PatInit, PatIInv, AnnouncedPlanIsStored, TasksBeginOnTime

LEMMA PatPreserves == ASSUME PatIInv, [PatNext]_patVars PROVE PatIInv'
<1> USE PatAssumption
<1> USE DEF PatIInv
<1>1. CASE ExecuteStart
  <2>1. executing \in Futures /\ executing.at = "waiting" /\ executing.plan \in Plans
    BY <1>1, PhasesAreNamed DEF ExecuteStart, PatTypeOK
  <2>2. executing' \in Futures /\ current_phase' \in PatPhases
    BY <1>1, <2>1 DEF ExecuteStart, Futures, PatTypeOK, PatPhases, NotExecuting
  <2>3. current_phase' = current_phase \/ current_phase'.name # "Scheduled"
    BY <1>1, PhasesAreNamed DEF ExecuteStart
  <2> QED BY <1>1, <2>2, <2>3 DEF ExecuteStart, PatTypeOK, AnnouncedPlanIsStored, TasksBeginOnTime
<1>2. CASE ExecuteDone
  <2>1. executing.plan \in Plans
    BY <1>2, PhasesAreNamed DEF ExecuteDone, PatTypeOK
  <2>2. executing' \in Futures /\ current_phase' \in PatPhases /\ current_phase'.name # "Scheduled"
    BY <1>2, <2>1, PhasesAreNamed DEF ExecuteDone, Futures, PatPhases
  <2> QED BY <1>2, <2>2 DEF ExecuteDone, PatTypeOK, AnnouncedPlanIsStored, TasksBeginOnTime
<1>3. CASE ExecuteDropped
  BY <1>3 DEF ExecuteDropped, PatTypeOK, AnnouncedPlanIsStored, TasksBeginOnTime, Futures
<1>4. CASE Joined \/ SyncClock \/ ClockMoves
  BY <1>4 DEF Joined, SyncClock, ClockMoves, PatTypeOK, AnnouncedPlanIsStored, TasksBeginOnTime
<1>5. CASE PatTick
  <2>1. pat_now' \in PatTimes /\ \A p \in Plans : pat_now >= TargetT0[p] => pat_now' >= TargetT0[p]
    BY <1>5 DEF PatTick, PatTypeOK, PatTimes
  <2> QED BY <1>5, <2>1 DEF PatTick, PatTypeOK, AnnouncedPlanIsStored, TasksBeginOnTime
<1>6. ASSUME NEW plan \in Plans, SchedulePat(plan) PROVE PatIInv'
  <2>1. current_phase' = Phase("Scheduled", plan) /\ current_phase' \in PatPhases
    BY <1>6 DEF SchedulePat, PatPhases
  <2>2. /\ acquisition_schedules' \in [PatTimes -> Plans \cup {NoPlan}]
        /\ acquisition_schedules'[TargetT0[plan]] = plan
    BY <1>6 DEF SchedulePat, PatTypeOK, PatTimes
  <2> QED BY <1>6, <2>1, <2>2, PhasesAreNamed
          DEF SchedulePat, PatTypeOK, AnnouncedPlanIsStored, TasksBeginOnTime
<1>7. ASSUME NEW plan \in Plans, ExecutePlan(plan) PROVE PatIInv'
  <2>1. executing' \in Futures
    BY <1>7 DEF ExecutePlan, Futures, PatTypeOK
  <2> QED BY <1>7, <2>1 DEF ExecutePlan, PatTypeOK, AnnouncedPlanIsStored, TasksBeginOnTime
<1>8. ASSUME NEW plan \in Plans, TaskStart(plan) \/ TaskDone(plan) PROVE PatIInv'
  <2>1. PICK at \in {"searching", "failed", "done"} :
          /\ task' = [task EXCEPT ![plan] = [task[plan] EXCEPT !.at = at]]
          /\ at # "failed" => pat_now >= TargetT0[plan] /\ task[plan].clock
    BY <1>8 DEF TaskStart, TaskDone, TaskDue, TasksBeginOnTime, PatTypeOK, TaskStates
  <2>2. task[plan] \in TaskStates
    BY DEF PatTypeOK
  <2>3. /\ task' \in [Plans -> TaskStates]
        /\ task'[plan].at = at /\ task'[plan].clock = task[plan].clock
    BY <2>1, <2>2 DEF PatTypeOK, TaskStates
  <2>4. \A p \in Plans \ {plan} : task'[p] = task[p]
    BY <2>1, <2>3 DEF PatTypeOK
  <2>5. TasksBeginOnTime'
    BY <1>8, <2>1, <2>3, <2>4 DEF TasksBeginOnTime, TaskStart, TaskDone
  <2> QED BY <1>8, <2>3, <2>5 DEF TaskStart, TaskDone, PatTypeOK, AnnouncedPlanIsStored
<1>9. ASSUME NEW plans \in SUBSET Plans, ExecuteConcurrent(plans) PROVE PatIInv'
  <2>1. task' \in [Plans -> TaskStates]
    BY <1>9 DEF ExecuteConcurrent, PatTypeOK, TaskStates
  <2>2. \A p \in Plans : task'[p] = task[p] \/ task'[p].at = "waiting"
    BY <1>9 DEF ExecuteConcurrent, PatTypeOK
  <2> QED BY <1>9, <2>1, <2>2 DEF ExecuteConcurrent, PatTypeOK, AnnouncedPlanIsStored, TasksBeginOnTime
<1>10. CASE UNCHANGED patVars
  BY <1>10 DEF patVars, PatTypeOK, AnnouncedPlanIsStored, TasksBeginOnTime
<1> QED BY <1>1, <1>2, <1>3, <1>4, <1>5, <1>6, <1>7, <1>8, <1>9, <1>10 DEF PatNext

LEMMA PatIsTyped == PatSpec => []PatTypeOK
<1>1. PatIInv => PatTypeOK
  BY DEF PatIInv
<1> QED BY <1>1, PatInitially, PatPreserves, PTL DEF PatSpec

\* Whatever futures are dropped, whatever the clock does and however many plans share
\* a moment: the announced plan is stored, no task has begun before its moment or on a
\* refused clock, and a search only begins at its moment on a good clock.
THEOREM AcquisitionsStayCoordinated == PatSpec => AcquisitionsAreCoordinated
<1>1. PatInit => PatIInv
  BY PatInitially
<1>2. PatIInv /\ [PatNext]_patVars => PatIInv'
  BY PatPreserves
<1>3. PatIInv /\ [PatNext]_patVars =>
        [current_phase.name # "CoarseAcquisition" /\ current_phase'.name = "CoarseAcquisition" =>
           confidence_ok /\ pat_now >= TargetT0[current_phase'.plan]]_patVars
  <2> SUFFICES ASSUME PatIInv, PatNext, current_phase.name # "CoarseAcquisition",
                      current_phase'.name = "CoarseAcquisition"
               PROVE  confidence_ok /\ pat_now >= TargetT0[current_phase'.plan]
    OBVIOUS
  <2>1. ExecuteStart
    BY PhasesAreNamed
    DEF PatNext, ExecuteDone, ExecuteDropped, Joined, SyncClock, ClockMoves, PatTick, SchedulePat,
        ExecutePlan, TaskStart, TaskDone, ExecuteConcurrent
  <2> QED BY <2>1, PhasesAreNamed DEF ExecuteStart, ClockAccepted
<1>4. PatIInv => AnnouncedPlanIsStored /\ TasksBeginOnTime
  BY DEF PatIInv
<1> QED BY <1>1, <1>2, <1>3, <1>4, PTL DEF PatSpec, AcquisitionsAreCoordinated, SearchBeginsInSync

----------------------------------------------------------------------------
(* The devices of the RF front end *)

\* An amplifier is a record of its fields, and so are a report and what was imposed.
AmplifierIsTyped ==
  /\ amplifier = [enabled |-> amplifier.enabled, fault |-> amplifier.fault,
                  temperature |-> amplifier.temperature, gain |-> amplifier.gain,
                  status |-> amplifier.status]
  /\ amplifier.enabled \in BOOLEAN /\ amplifier.fault \in BOOLEAN
  /\ update \in [Updaters -> {"idle", "written", "tripped"}]
  /\ imposed \in [temperature : BOOLEAN, status : BOOLEAN]
  /\ reading = [at |-> reading.at, report |-> reading.report]
  /\ reading.report = [status |-> reading.report.status, temperature |-> reading.report.temperature,
                       fault |-> reading.report.fault, imposed |-> reading.report.imposed]
  /\ reading.report.imposed \in BOOLEAN

\* A temperature is judged by now or its writer is still to judge it, an update that
\* tripped has set the fault, and what a report has read of the status still holds of
\* the flag, because only calls that have the amplifier to themselves clear a fault.
AmplifierIInv ==
  /\ AmplifierIsTyped
  /\ \/ imposed.temperature
     \/ ~ (amplifier.temperature >= max_temperature)
     \/ amplifier.fault
     \/ \E u \in Updaters : update[u] = "written"
  /\ \A u \in Updaters : update[u] = "tripped" => amplifier.fault
  /\ ~ imposed.status =>
       /\ amplifier.status = "Overheating" => amplifier.fault
       /\ amplifier.status = "Active" =>
            amplifier.enabled /\ (amplifier.fault => \E u \in Updaters : update[u] = "tripped")
  /\ reading.report.status = {"Overheating"} /\ ~reading.report.imposed =>
       /\ reading.report.fault # None => reading.report.fault = {TRUE}
       /\ reading.at # "idle" => amplifier.fault

LEMMA AmplifierPreserves == ASSUME AmplifierIInv, AmplifierNext PROVE AmplifierIInv'
<1>0. AmplifierIsTyped
  BY DEF AmplifierIInv
<1>1. ASSUME NEW u \in Updaters, NEW t \in Temperatures, WriteTemperature(u, t) PROVE AmplifierIInv'
  BY <1>0, <1>1 DEF WriteTemperature, AmplifierIInv, AmplifierIsTyped
<1>2. ASSUME NEW u \in Updaters, CheckThermalProtection(u) PROVE AmplifierIInv'
  BY <1>0, <1>2 DEF CheckThermalProtection, AmplifierIInv, AmplifierIsTyped
<1>3. ASSUME NEW u \in Updaters, Overheat(u) PROVE AmplifierIInv'
  BY <1>0, <1>3 DEF Overheat, AmplifierIInv, AmplifierIsTyped
<1>4. CASE ReadStatus
  BY <1>0, <1>4 DEF ReadStatus, AmplifierIInv, AmplifierIsTyped, NoReport
<1>5. CASE ReadTemperature
  BY <1>0, <1>5 DEF ReadTemperature, AmplifierIInv, AmplifierIsTyped
<1>6. CASE ReadFlags
  BY <1>0, <1>6 DEF ReadFlags, AmplifierIInv, AmplifierIsTyped
<1>7. CASE EnableAmplifier
  BY <1>0, <1>7 DEF EnableAmplifier, Alters, Exclusive, AmplifierIInv, AmplifierIsTyped, NoReport, None
<1>8. CASE DisableAmplifier
  BY <1>0, <1>8 DEF DisableAmplifier, Alters, Exclusive, AmplifierIInv, AmplifierIsTyped, NoReport, None
<1>9. ASSUME NEW on \in BOOLEAN, NEW fault \in BOOLEAN, NEW t, ImposeAmplifier(on, fault, t)
      PROVE  AmplifierIInv'
  BY <1>0, <1>9 DEF ImposeAmplifier, Alters, Exclusive, AmplifierIInv, AmplifierIsTyped, NoReport, None
<1>10. ASSUME NEW db \in Gains, SetAmplifierGain(db) PROVE AmplifierIInv'
  BY <1>0, <1>10 DEF SetAmplifierGain, Alters, Exclusive, AmplifierIInv, AmplifierIsTyped, NoReport, None
<1> QED BY <1>1, <1>2, <1>3, <1>4, <1>5, <1>6, <1>7, <1>8, <1>9, <1>10 DEF AmplifierNext

\* At most one filter is selected, and it and the one a look-up has found are in the
\* bank: nothing that removes a filter runs between the two locks of a look-up.
BankIInv ==
  /\ bank = [enabled |-> bank.enabled, current |-> bank.current, filters |-> bank.filters]
  /\ bank.current = None \/ \E id : bank.current = {id}
  /\ bank.current \subseteq DOMAIN bank.filters
  /\ lookup.at = "found" => \E id \in DOMAIN bank.filters : lookup.of = {id}
  /\ lookup.at = "answered" => \E spec : lookup.answer = {spec}

LEMMA BankPreserves == ASSUME BankIInv, BankNext PROVE BankIInv'
<1>1. ASSUME NEW on \in BOOLEAN, EnableBank(on) PROVE BankIInv'
  BY <1>1 DEF EnableBank, BankIInv
<1>2. ASSUME NEW id \in FilterIds, NEW spec \in FilterSpecs, AddFilter(id, spec) PROVE BankIInv'
  <2> DEFINE new == [x \in DOMAIN bank.filters \cup {id} |-> IF x = id THEN spec ELSE bank.filters[x]]
  <2>1. bank' = [bank EXCEPT !.filters = new] /\ lookup' = lookup
    BY <1>2 DEF AddFilter
  <2>2. DOMAIN bank.filters \subseteq DOMAIN new
    OBVIOUS
  <2> HIDE DEF new
  <2>3. bank'.filters = new /\ bank'.current = bank.current /\ bank'.enabled = bank.enabled
    BY <2>1 DEF BankIInv
  <2>4. bank' = [enabled |-> bank'.enabled, current |-> bank'.current, filters |-> bank'.filters]
    BY <2>1 DEF BankIInv
  <2> QED BY <2>1, <2>2, <2>3, <2>4 DEF BankIInv
<1>3. ASSUME NEW id \in FilterIds, SelectFilter(id) PROVE BankIInv'
  BY <1>3 DEF SelectFilter, BankIInv, None
<1>4. ASSUME NEW frequency \in Frequencies, TuneFilter(frequency) PROVE BankIInv'
  BY <1>4 DEF TuneFilter, BankIInv
<1>5. ASSUME NEW id \in FilterIds, RemoveFilter(id) PROVE BankIInv'
  <2> DEFINE left == [x \in DOMAIN bank.filters \ {id} |-> bank.filters[x]]
  <2>1. bank' = [bank EXCEPT !.filters = left, !.current = @ \ {id}] /\ lookup' = lookup /\ Alone
    BY <1>5 DEF RemoveFilter
  <2>2. DOMAIN left = DOMAIN bank.filters \ {id}
    OBVIOUS
  <2> HIDE DEF left
  <2>3. bank'.filters = left /\ bank'.current = bank.current \ {id}
    BY <2>1 DEF BankIInv
  <2>4. bank' = [enabled |-> bank'.enabled, current |-> bank'.current, filters |-> bank'.filters]
    BY <2>1 DEF BankIInv
  <2>5. bank'.current = None \/ \E x : bank'.current = {x}
    BY <2>3 DEF BankIInv, None
  <2>6. bank'.current \subseteq DOMAIN bank'.filters
    BY <2>2, <2>3 DEF BankIInv
  <2> QED BY <2>1, <2>4, <2>5, <2>6 DEF BankIInv, Alone
<1>6. CASE LookUpCurrent
  BY <1>6 DEF LookUpCurrent, BankIInv, None
<1>7. CASE LookUpSpec
  <2>1. PICK id \in DOMAIN bank.filters : lookup.of = {id}
    BY <1>7 DEF LookUpSpec, BankIInv
  <2>2. {bank.filters[x] : x \in lookup.of \cap DOMAIN bank.filters} = {bank.filters[id]}
    BY <2>1
  <2> QED BY <1>7, <2>2 DEF LookUpSpec, BankIInv
<1> QED BY <1>1, <1>2, <1>3, <1>4, <1>5, <1>6, <1>7 DEF BankNext

\* The voltage of a YIG filter belongs to its frequency; at first both are at their least.
YigIInv ==
  /\ yig = [enabled |-> yig.enabled, frequency |-> yig.frequency, voltage |-> yig.voltage]
  /\ yig.voltage[1] * (yig_max - yig_min) = 10 * (yig.frequency - yig_min) * yig.voltage[2]

LEMMA YigPreserves == ASSUME YigIInv, YigNext PROVE YigIInv'
<1>1. ASSUME NEW on \in BOOLEAN, EnableYig(on) PROVE YigIInv'
  BY <1>1 DEF EnableYig, YigIInv
<1>2. ASSUME NEW frequency \in Frequencies, TuneYig(frequency) PROVE YigIInv'
  <2> DEFINE v == <<10 * (frequency - yig_min), yig_max - yig_min>>
  <2>1. frequency \in yig_min..yig_max /\ yig' = [yig EXCEPT !.frequency = frequency, !.voltage = v]
    BY <1>2 DEF TuneYig
  <2>2. v[1] = 10 * (frequency - yig_min) /\ v[2] = yig_max - yig_min
    OBVIOUS
  <2> HIDE DEF v
  <2>3. yig'.frequency = frequency /\ yig'.voltage = v
    BY <2>1 DEF YigIInv
  <2>4. yig' = [enabled |-> yig'.enabled, frequency |-> yig'.frequency, voltage |-> yig'.voltage]
    BY <2>1 DEF YigIInv
  <2> QED BY <2>2, <2>3, <2>4 DEF YigIInv
<1> QED BY <1>1, <1>2 DEF YigNext

SwitchIInv ==
  /\ switch = [enabled |-> switch.enabled, position |-> switch.position, states |-> switch.states]
  /\ switch.position \in {1, 2}

LEMMA SwitchPreserves == ASSUME SwitchIInv, SwitchNext PROVE SwitchIInv'
<1>1. ASSUME NEW on \in BOOLEAN, EnableSwitch(on) PROVE SwitchIInv'
  BY <1>1 DEF EnableSwitch, SwitchIInv
<1>2. ASSUME NEW p \in {1, 2}, SetPosition(p) PROVE SwitchIInv'
  BY <1>2 DEF SetPosition, SwitchIInv
<1>3. ASSUME NEW mode \in DOMAIN SwitchTo PROVE SwitchTo[mode] \in {1, 2}
  BY DEF SwitchTo
<1>4. ASSUME NEW mode \in DOMAIN PolarizeTo PROVE PolarizeTo[mode] \in {1, 2}
  BY DEF PolarizeTo
<1>5. ASSUME NEW i \in 1..(NumSwitches + 1), NEW state \in {"Open", "Closed"}, set_switch_state(i, state)
      PROVE  SwitchIInv'
  BY <1>5 DEF set_switch_state, SwitchIInv
<1> QED BY <1>1, <1>2, <1>3, <1>4, <1>5 DEF SwitchNext, TransmitReceive, Polarize

\* The level set is always a step nearest to the one asked for.
AttenuatorIInv ==
  /\ attenuator = [enabled |-> attenuator.enabled, current |-> attenuator.current,
                   step |-> attenuator.step, table |-> attenuator.table]
  /\ attenuator.step \in Nat \ {0}
  /\ asked \in 0..AttenuatorLimit
  /\ attenuator.current \in Nearest(asked)
  /\ attenuator.table \in Seq(CalibrationPoints)

\* A quotient is known by its remainder.
LEMMA DivisionIsUnique ==
  ASSUME NEW a \in Int, NEW d \in Nat \ {0}, NEW q \in Int, q * d <= a, a < q * d + d
  PROVE  a \div d = q
  OBVIOUS

\* Rounding gives a multiple of the step that is half a step away at most, and
\* leaves a multiple alone.
LEMMA NearestIsNear ==
  ASSUME attenuator.step \in Nat \ {0}, NEW db \in Nat, NEW level \in Nearest(db)
  PROVE  /\ \E q \in Nat : level = q * attenuator.step
         /\ 2 * level - 2 * db <= attenuator.step
         /\ 2 * db - 2 * level <= attenuator.step
<1> DEFINE s == attenuator.step
           q == db \div s
<1>1. q \in Nat /\ s \in Nat
  OBVIOUS
<1>2. level \in {q * s, q * s + s} /\ 2 * (level - db) \in (-s)..s
  BY DEF Nearest
<1> HIDE DEF q, s
<1>3. q * s + s = (q + 1) * s /\ q + 1 \in Nat /\ q * s \in Nat /\ q * s + s \in Nat
  BY <1>1
<1>4. \E p \in Nat : level = p * s
  BY <1>1, <1>2, <1>3
<1>5. level \in Nat
  BY <1>2, <1>3
<1>6. 2 * level - 2 * db <= s /\ 2 * db - 2 * level <= s
  BY <1>1, <1>2, <1>5
<1> QED BY <1>4, <1>6 DEF s

LEMMA NearestAgain ==
  ASSUME attenuator.step \in Nat \ {0}, NEW q \in Nat
  PROVE  Nearest(q * attenuator.step) = {q * attenuator.step}
<1> DEFINE s == attenuator.step
           p == q * s
<1>1. p \in Nat /\ s \in Nat \ {0}
  OBVIOUS
<1>2. p \div s = q
  <2>1. q * s <= p /\ p < q * s + s /\ p \in Int
    BY <1>1
  <2> HIDE DEF s, p
  <2> QED BY <1>1, <2>1, DivisionIsUnique
<1>3. Nearest(p) = {level \in {p, p + s} : 2 * (level - p) \in (-s)..s}
  BY <1>2 DEF Nearest
<1> HIDE DEF p, s
<1>4. Nearest(p) = {p}
  BY <1>1, <1>3
<1> QED BY <1>4 DEF p, s

LEMMA AttenuatorPreserves == ASSUME AttenuatorIInv, AttenuatorNext PROVE AttenuatorIInv'
<1>1. ASSUME NEW on \in BOOLEAN, EnableAttenuator(on) PROVE AttenuatorIInv'
  BY <1>1 DEF EnableAttenuator, AttenuatorIInv, Nearest
<1>2. ASSUME NEW db \in Int, Attenuate(db) PROVE AttenuatorIInv'
  <2>1. db \in 0..AttenuatorLimit /\ asked' = db
    BY <1>2, FrontEndAssumption DEF Attenuate, min_attenuation
  <2>3. PICK level \in Nearest(db) : attenuator' = [attenuator EXCEPT !.current = level]
    BY <1>2 DEF Attenuate
  <2>4. /\ attenuator'.current = level /\ attenuator'.step = attenuator.step
        /\ attenuator'.table = attenuator.table /\ attenuator'.enabled = attenuator.enabled
    BY <2>3 DEF AttenuatorIInv
  <2>5. attenuator' = [enabled |-> attenuator'.enabled, current |-> attenuator'.current,
                       step |-> attenuator'.step, table |-> attenuator'.table]
    BY <2>3 DEF AttenuatorIInv
  <2>6. attenuator'.current \in Nearest(asked)'
    BY <2>1, <2>3, <2>4 DEF Nearest
  <2> QED BY <2>1, <2>4, <2>5, <2>6 DEF AttenuatorIInv
<1>3. attenuator.current \in Int
  <2>1. attenuator.step \in Nat \ {0} /\ asked \in Nat /\ attenuator.current \in Nearest(asked)
    BY FrontEndAssumption DEF AttenuatorIInv
  <2>2. PICK q \in Nat : attenuator.current = q * attenuator.step
    BY <2>1, NearestIsNear
  <2> QED BY <2>1, <2>2
<1>4. ASSUME NEW db \in Levels
      PROVE  db \in Int /\ attenuator.current + db \in Int /\ attenuator.current - db \in Int
  BY <1>3, <1>4, FrontEndAssumption
<1>5. ASSUME NEW word \in 0..Words PROVE WordLevel(word) \in Int
  <2>1. Words \in Nat \ {0} /\ AttenuatorLimit \in Nat
    BY FrontEndAssumption DEF Words
  <2>2. word * AttenuatorLimit \in Nat
    BY <2>1
  <2> QED BY <2>1, <2>2 DEF WordLevel
<1>6. ASSUME NEW pt \in CalibrationPoints, AddCalibrationPoint(pt) PROVE AttenuatorIInv'
  <2> DEFINE new == Append(attenuator.table, pt)
  <2>1. new \in Seq(CalibrationPoints)
    BY DEF AttenuatorIInv
  <2>2. attenuator' = [attenuator EXCEPT !.table = new] /\ asked' = asked
    BY <1>6 DEF AddCalibrationPoint
  <2> HIDE DEF new
  <2>3. /\ attenuator'.current = attenuator.current /\ attenuator'.step = attenuator.step
        /\ attenuator'.table = new
    BY <2>2 DEF AttenuatorIInv
  <2>4. attenuator' = [enabled |-> attenuator'.enabled, current |-> attenuator'.current,
                       step |-> attenuator'.step, table |-> attenuator'.table]
    BY <2>2 DEF AttenuatorIInv
  <2> QED BY <2>1, <2>2, <2>3, <2>4 DEF AttenuatorIInv, Nearest
<1> QED BY <1>1, <1>2, <1>4, <1>5, <1>6 DEF AttenuatorNext, Increment, Decrement, SetControlWord

\* The control word of a digital attenuator is the number of steps it is set to, or
\* one less.
LEMMA ControlWordIsTheStep ==
  ASSUME AttenuatorIInv, Digital
  PROVE  \A word \in ControlWords :
           /\ word \in 0..Words
           /\ word = Words <=> attenuator.current = AttenuatorLimit
           /\ WordLevel(word) \in {attenuator.current - attenuator.step, attenuator.current}
<1> DEFINE s == attenuator.step
           w == Words
           c == attenuator.current
<1>1. s \in Nat \ {0} /\ w \in Nat \ {0} /\ s * w = AttenuatorLimit /\ AttenuatorLimit \in Nat \ {0}
  BY FrontEndAssumption DEF AttenuatorIInv, Digital, Words
<1>2. asked \in Nat /\ asked <= AttenuatorLimit /\ c \in Nearest(asked)
  BY <1>1 DEF AttenuatorIInv
<1>3. PICK q \in Nat : c = q * s /\ 2 * (q * s) - 2 * asked <= s
  BY <1>1, <1>2, NearestIsNear
<1>4. ControlWords = IF q \in {0, w} THEN {q} ELSE {q - 1, q}
  <2>1. c * w = q * AttenuatorLimit
    BY <1>1, <1>3
  <2>2. q * AttenuatorLimit \in Int
    BY <1>1
  <2>3. (q * AttenuatorLimit) \div AttenuatorLimit = q
    BY <1>1, <2>2, DivisionIsUnique
  <2> QED BY <2>1, <2>3 DEF ControlWords
<1>5. q <= w
  <2> SUFFICES ASSUME q >= w + 1 PROVE FALSE
    BY <1>1
  <2>1. (w + 1) * s <= q * s
    BY <1>1
  <2>2. (w + 1) * s = AttenuatorLimit + s
    BY <1>1
  <2> DEFINE p == q * s
  <2>3. p \in Nat
    BY <1>1
  <2>4. AttenuatorLimit + s <= p /\ 2 * p - 2 * asked <= s
    BY <1>3, <2>1, <2>2
  <2> HIDE DEF p, s
  <2>5. s \in Nat \ {0}
    BY <1>1
  <2> QED BY <1>1, <1>2, <2>3, <2>4, <2>5
<1>6. q = w <=> c = AttenuatorLimit
  <2>1. q = w => c = AttenuatorLimit
    BY <1>1, <1>3
  <2>2. c = AttenuatorLimit => q = w
    <3> SUFFICES ASSUME q * s = w * s PROVE q = w
      BY <1>1, <1>3
    <3> QED BY <1>1
  <2> QED BY <2>1, <2>2
<1>7. ASSUME NEW k \in Nat PROVE WordLevel(k) = k * s
  <2> DEFINE p == k * s
  <2>1. k * AttenuatorLimit = p * w /\ p \in Nat
    BY <1>1
  <2>2. (p * w) \div w = p
    <3> HIDE DEF p, w
    <3>1. p \in Nat /\ w \in Nat \ {0}
      BY <1>1, <2>1
    <3>2. p * w \in Int
      BY <3>1
    <3> QED BY <3>1, <3>2, DivisionIsUnique
  <2> QED BY <2>1, <2>2 DEF WordLevel
<1>8. WordLevel(q) = c
  BY <1>3, <1>7
<1>9. ASSUME q # 0 PROVE q - 1 \in Nat /\ WordLevel(q - 1) = c - s
  <2>1. q - 1 \in Nat /\ (q - 1) * s = q * s - s
    BY <1>1, <1>9
  <2> QED BY <1>3, <1>7, <2>1
<1> HIDE DEF w, c, s
<1>10. ASSUME NEW word \in ControlWords
       PROVE  word \in 0..w /\ (word = w <=> c = AttenuatorLimit) /\ WordLevel(word) \in {c - s, c}
  <2>1. CASE word = q
    BY <1>1, <1>5, <1>6, <1>8, <2>1
  <2>2. CASE word # q
    <3>1. q \notin {0, w} /\ word = q - 1
      BY <1>4, <2>2
    <3>2. word \in 0..w /\ word # w /\ c # AttenuatorLimit
      BY <1>1, <1>5, <1>6, <3>1
    <3> QED BY <1>9, <3>1, <3>2
  <2> QED BY <2>1, <2>2
<1> QED BY <1>10 DEF w, c, s

\* There is a first point above a level, or the end of the table.
LEMMA FirstAboveIsFirst ==
  ASSUME NEW table \in Seq(CalibrationPoints), NEW db \in Int, NEW i, i = FirstAbove(table, db)
  PROVE  /\ i \in 1..(Len(table) + 1)
         /\ i <= Len(table) => table[i].commanded > db
         /\ \A j \in 1..(i - 1) : table[j].commanded <= db
<1> DEFINE n == Len(table)
           A == {k \in 1..(n + 1) : k <= n => table[k].commanded > db}
<1>1. n \in Nat /\ A \in SUBSET Nat /\ n + 1 \in A
  OBVIOUS
<1>2. PICK k \in A : \A m \in A : k <= m
  BY <1>1, LeastNatural
<1>3. ASSUME NEW j \in 1..(k - 1) PROVE table[j].commanded <= db
  <2>1. j \in 1..n /\ j < k /\ j \in Nat /\ k \in Nat
    BY <1>1, <1>2
  <2>2. j \notin A
    BY <1>2, <2>1
  <2>3. table[j] \in CalibrationPoints
    BY <2>1
  <2>4. table[j].commanded \in Int
    BY <2>3, FrontEndAssumption
  <2> QED BY <2>1, <2>2, <2>4
<1>4. k \in 1..(n + 1) /\ (k <= n => table[k].commanded > db)
  BY <1>2
<1>5. \E x \in 1..(n + 1) : (x <= n => table[x].commanded > db) /\ \A j \in 1..(x - 1) : table[j].commanded <= db
  BY <1>3, <1>4
<1> QED BY <1>5 DEF FirstAbove

\* A value interpolated between two others lies between them.
LEMMA InterpolationLiesBetween ==
  ASSUME NEW a \in Int, NEW b \in Int, NEW span \in Nat \ {0}, NEW x \in 0..span, NEW v,
         v = a * span + x * (b - a)
  PROVE  /\ v \in Int
         /\ a <= b => a * span <= v /\ v <= b * span
         /\ b <= a => b * span <= v /\ v <= a * span
<1>1. v = a * span + x * (b - a) /\ b * span = a * span + span * (b - a)
  OBVIOUS
<1> DEFINE g == b - a
           p == a * span
<1>2. g \in Int /\ p \in Int
  OBVIOUS
<1>3. v = p + x * g /\ b * span = p + span * g
  BY <1>1
<1>4. a <= b => 0 <= g
  OBVIOUS
<1>5. b <= a => 0 <= -g
  OBVIOUS
<1> HIDE DEF g, p
<1>6. 0 <= g => 0 <= x * g /\ x * g <= span * g
  BY <1>2
<1>7. 0 <= -g => x * g <= 0 /\ span * g <= x * g
  BY <1>2
<1>8. x * g \in Int /\ span * g \in Int
  BY <1>2
<1>9. v \in Int
  BY <1>2, <1>3, <1>8
<1>10. a <= b => p <= v /\ v <= b * span
  BY <1>2, <1>3, <1>4, <1>6, <1>8
<1>11. b <= a => b * span <= v /\ v <= p
  BY <1>2, <1>3, <1>5, <1>7, <1>8
<1> QED BY <1>9, <1>10, <1>11 DEF p

\* The points a calibrated level is taken from: before and from the first above.
Before(table, db) == LET i == FirstAbove(table, db) IN IF i = 1 THEN 1 ELSE i - 1
From(table, db) == LET i == FirstAbove(table, db) IN IF i > Len(table) THEN Len(table) ELSE i

\* So does a calibrated attenuation, between the points around the level.
LEMMA CalibratedLiesBetween ==
  ASSUME NEW table \in Seq(CalibrationPoints), table # << >>, NEW db \in Int,
         NEW c, c = get_calibrated_attenuation(table, db),
         NEW lo, lo = Before(table, db), NEW hi, hi = From(table, db)
  PROVE  /\ lo \in 1..Len(table) /\ hi \in 1..Len(table)
         /\ table[lo].actual \in Int /\ table[hi].actual \in Int
         /\ c[1] \in Int /\ c[2] \in Nat \ {0}
         /\ table[lo].actual <= table[hi].actual =>
              table[lo].actual * c[2] <= c[1] /\ c[1] <= table[hi].actual * c[2]
         /\ table[hi].actual <= table[lo].actual =>
              table[hi].actual * c[2] <= c[1] /\ c[1] <= table[lo].actual * c[2]
<1> DEFINE n == Len(table)
           i == FirstAbove(table, db)
<1>1. n \in Nat /\ n > 0 /\ DOMAIN table = 1..n
  OBVIOUS
<1>2. \A k \in 1..n : table[k].commanded \in Int /\ table[k].actual \in Int
  <2> SUFFICES ASSUME NEW k \in 1..n PROVE table[k].commanded \in Int /\ table[k].actual \in Int
    OBVIOUS
  <2>1. table[k] \in CalibrationPoints
    BY <1>1
  <2> QED BY <2>1, FrontEndAssumption
<1>3. /\ i \in 1..(n + 1)
      /\ i <= n => table[i].commanded > db
      /\ \A j \in 1..(i - 1) : table[j].commanded <= db
  BY FirstAboveIsFirst
<1>4. lo = (IF i = 1 THEN 1 ELSE i - 1) /\ hi = (IF i > n THEN n ELSE i)
  BY DEF Before, From
<1>5. CASE i = 1
  <2>1. c = <<table[1].actual, 1>>
    BY <1>5 DEF get_calibrated_attenuation
  <2>2. c[1] = table[1].actual /\ c[2] = 1
    BY <2>1
  <2>3. lo = 1 /\ hi = 1 /\ 1 \in 1..n
    BY <1>1, <1>4, <1>5
  <2> QED BY <1>1, <1>2, <2>2, <2>3
<1>6. CASE i > n /\ i # 1
  <2>1. c = <<table[n].actual, 1>>
    BY <1>6 DEF get_calibrated_attenuation
  <2>2. c[1] = table[n].actual /\ c[2] = 1
    BY <2>1
  <2>3. lo = n /\ hi = n /\ n \in 1..n
    BY <1>1, <1>3, <1>4, <1>6
  <2> HIDE DEF n
  <2> QED BY <1>1, <1>2, <2>2, <2>3 DEF n
<1>7. CASE ~ (i > n) /\ i # 1
  <2> DEFINE lower == table[i - 1]
             upper == table[i]
             span == upper.commanded - lower.commanded
             v == lower.actual * span + (db - lower.commanded) * (upper.actual - lower.actual)
  <2>1. c = <<v, span>>
    BY <1>7 DEF get_calibrated_attenuation
  <2>2. lo = i - 1 /\ hi = i /\ lo \in 1..n /\ hi \in 1..n /\ i - 1 \in 1..(i - 1) /\ i <= n
    BY <1>1, <1>3, <1>4, <1>7
  <2>3. /\ lower.commanded \in Int /\ upper.commanded \in Int
        /\ lower.actual \in Int /\ upper.actual \in Int
    BY <1>2, <2>2
  <2>4. lower.commanded <= db /\ db < upper.commanded
    BY <1>3, <2>2, <2>3
  <2>5. span \in Nat \ {0} /\ db - lower.commanded \in 0..span
    <3> DEFINE p == lower.commanded
               q == upper.commanded
    <3>1. p \in Int /\ q \in Int /\ p <= db /\ db < q
      BY <2>3, <2>4
    <3> HIDE DEF p, q
    <3>2. q - p \in Nat \ {0} /\ db - p \in 0..(q - p)
      BY <3>1
    <3> QED BY <3>2 DEF p, q
  <2>6. c[1] = v /\ c[2] = span
    BY <2>1
  <2> DEFINE a == lower.actual
             b == upper.actual
             x == db - lower.commanded
  <2>7. v = a * span + x * (b - a)
    OBVIOUS
  <2>8. a = table[lo].actual /\ b = table[hi].actual
    BY <2>2
  <2> HIDE DEF v, span, a, b, x, lower, upper
  <2>9. a \in Int /\ b \in Int /\ span \in Nat \ {0} /\ x \in 0..span
    BY <2>3, <2>5 DEF a, b, x
  <2>10. /\ v \in Int
         /\ a <= b => a * span <= v /\ v <= b * span
         /\ b <= a => b * span <= v /\ v <= a * span
    BY <2>7, <2>9, InterpolationLiesBetween
  <2> QED BY <2>2, <2>6, <2>8, <2>9, <2>10
<1> QED BY <1>5, <1>6, <1>7

\* With its points in order the calibrated level rises with the level commanded.
LEMMA CalibratedRises ==
  ASSUME NEW table \in Seq(CalibrationPoints), table # << >>, InOrder(table),
         NEW db \in Int, NEW more \in Int, db <= more,
         NEW c, c = get_calibrated_attenuation(table, db),
         NEW e, e = get_calibrated_attenuation(table, more)
  PROVE  c[1] * e[2] <= e[1] * c[2]
<1> DEFINE n == Len(table)
           i == FirstAbove(table, db)
           k == FirstAbove(table, more)
           lo == Before(table, db)
           hi == From(table, db)
           below == Before(table, more)
           above == From(table, more)
           act(j) == table[j].actual
<1>1. n \in Nat /\ n > 0 /\ DOMAIN table = 1..n
  OBVIOUS
<1>2. \A j \in 1..n : table[j].commanded \in Int
  <2> SUFFICES ASSUME NEW j \in 1..n PROVE table[j].commanded \in Int
    OBVIOUS
  <2>1. table[j] \in CalibrationPoints
    BY <1>1
  <2> QED BY <2>1, FrontEndAssumption
<1>3. i \in 1..(n + 1) /\ \A j \in 1..(i - 1) : table[j].commanded <= db
  BY FirstAboveIsFirst
<1>4. k \in 1..(n + 1) /\ (k <= n => table[k].commanded > more)
  BY FirstAboveIsFirst
<1>5. i <= k
  <2> SUFFICES ASSUME k < i PROVE FALSE
    BY <1>3, <1>4
  <2>1. k \in 1..(i - 1) /\ k \in 1..n /\ k <= n
    BY <1>1, <1>3, <1>4
  <2> HIDE DEF k
  <2>2. table[k].commanded <= db /\ table[k].commanded > more /\ table[k].commanded \in Int
    BY <1>2, <1>3, <1>4, <2>1
  <2> QED BY <2>2
<1>6. /\ lo \in 1..n /\ hi \in 1..n /\ act(lo) \in Int /\ act(hi) \in Int
      /\ c[1] \in Int /\ c[2] \in Nat \ {0}
      /\ act(lo) <= act(hi) => act(lo) * c[2] <= c[1] /\ c[1] <= act(hi) * c[2]
  BY CalibratedLiesBetween
<1>7. /\ below \in 1..n /\ above \in 1..n /\ act(below) \in Int /\ act(above) \in Int
      /\ e[1] \in Int /\ e[2] \in Nat \ {0}
      /\ act(below) <= act(above) => act(below) * e[2] <= e[1] /\ e[1] <= act(above) * e[2]
  BY CalibratedLiesBetween
<1>8. /\ lo = (IF i = 1 THEN 1 ELSE i - 1) /\ hi = (IF i > n THEN n ELSE i)
      /\ below = (IF k = 1 THEN 1 ELSE k - 1) /\ above = (IF k > n THEN n ELSE k)
  BY DEF Before, From
<1>9. CASE i = k
  <2>1. CASE i = 1 \/ i > n
    <3>1. c = e
      BY <1>9, <2>1 DEF get_calibrated_attenuation
    <3> QED BY <1>6, <3>1
  <2>2. CASE i # 1 /\ ~ (i > n)
    <3> DEFINE p == table[i - 1].commanded
               q == table[i].commanded
               a == table[i - 1].actual
               b == table[i].actual
               g == b - a
               span == q - p
               low == a * span
    <3>1. c = <<a * span + (db - p) * g, span>>
      BY <2>2 DEF get_calibrated_attenuation
    <3>2. e = <<a * span + (more - p) * g, span>>
      BY <1>9, <2>2 DEF get_calibrated_attenuation
    <3>3. c[1] = low + (db - p) * g /\ c[2] = span
      BY <3>1
    <3>4. e[1] = low + (more - p) * g /\ e[2] = span
      BY <3>2
    <3>5. i - 1 \in 1..n /\ i \in 1..n /\ i - 1 < i
      BY <1>1, <1>3, <2>2
    <3>6. a <= b /\ p \in Int
      BY <1>1, <1>2, <3>5 DEF InOrder
    <3>7. lo = i - 1 /\ hi = i
      BY <1>8, <2>2
    <3>8. a \in Int /\ b \in Int
      BY <1>6, <3>7
    <3>9. g \in Int /\ 0 <= g
      BY <3>6, <3>8
    <3>10. span \in Nat \ {0}
      BY <1>6, <3>3
    <3>11. low \in Int
      <4> HIDE DEF span, a
      <4> QED BY <3>8, <3>10
    <3> HIDE DEF p, g, span, low
    <3>12. (db - p) * g <= (more - p) * g /\ (db - p) * g \in Int /\ (more - p) * g \in Int
      BY <3>6, <3>9
    <3>13. c[1] <= e[1]
      BY <3>3, <3>4, <3>11, <3>12
    <3> DEFINE x == c[1]
               y == e[1]
    <3>14. x \in Int /\ y \in Int /\ x <= y
      BY <1>6, <1>7, <3>13
    <3> HIDE DEF x, y
    <3>15. x * span <= y * span
      BY <3>10, <3>14
    <3> QED BY <3>3, <3>4, <3>15 DEF x, y
  <2> QED BY <2>1, <2>2
<1>10. CASE i < k
  <2>1. hi <= below /\ lo <= hi /\ below <= above
    BY <1>1, <1>3, <1>4, <1>8, <1>10
  <2>2. ASSUME NEW x \in 1..n, NEW y \in 1..n, x <= y PROVE act(x) <= act(y) \/ x = y
    BY <1>1, <2>2 DEF InOrder
  <2> DEFINE A == act(hi)
             B == act(below)
  <2> HIDE DEF lo, hi, below, above
  <2>3. act(lo) <= A /\ A <= B /\ B <= act(above)
    <3>1. lo \in 1..n /\ hi \in 1..n /\ below \in 1..n /\ above \in 1..n
      BY <1>6, <1>7, Zenon
    <3>2. act(lo) \in Int /\ act(hi) \in Int /\ act(below) \in Int
      BY <1>6, <1>7, Zenon
    <3> HIDE DEF act, n
    <3>3. act(lo) <= act(hi) \/ lo = hi
      BY <2>1, <2>2, <3>1, Zenon
    <3>4. act(hi) <= act(below) \/ hi = below
      BY <2>1, <2>2, <3>1, Zenon
    <3>5. act(below) <= act(above) \/ below = above
      BY <2>1, <2>2, <3>1, Zenon
    <3> QED BY <3>2, <3>3, <3>4, <3>5
  <2>4. c[1] <= A * c[2] /\ B * e[2] <= e[1] /\ A \in Int /\ B \in Int
    BY <1>6, <1>7, <2>3
  <2> HIDE DEF A, B
  <2> DEFINE cx == c[1]
             cy == c[2]
             e1 == e[1]
             e2 == e[2]
  <2>5. /\ cx \in Int /\ cy \in Nat \ {0} /\ e1 \in Int /\ e2 \in Nat \ {0}
        /\ cx <= A * cy /\ B * e2 <= e1
    BY <1>6, <1>7, <2>4
  <2> HIDE DEF cx, cy, e1, e2
  <2>6. cx * e2 <= (A * cy) * e2
    BY <2>4, <2>5
  <2>7. (A * cy) * e2 <= (B * e2) * cy
    <3>1. (A * cy) * e2 = A * (cy * e2) /\ (B * e2) * cy = B * (cy * e2) /\ cy * e2 \in Nat
      BY <2>4, <2>5
    <3> DEFINE both == cy * e2
    <3>2. both \in Nat
      BY <3>1
    <3> HIDE DEF both
    <3>3. A * both <= B * both
      BY <2>3, <2>4, <3>2, ProductsKeepOrder
    <3> QED BY <3>1, <3>3 DEF both
  <2>8. (B * e2) * cy <= e1 * cy
    BY <2>4, <2>5
  <2>9. /\ cx * e2 \in Int /\ (A * cy) * e2 \in Int /\ (B * e2) * cy \in Int /\ e1 * cy \in Int
    BY <2>4, <2>5
  <2>10. cx * e2 <= e1 * cy
    BY <2>6, <2>7, <2>8, <2>9
  <2> QED BY <2>10 DEF cx, cy, e1, e2
<1> QED BY <1>3, <1>4, <1>5, <1>9, <1>10

LEMMA AttenuatorIsHonest == ASSUME AttenuatorIInv PROVE AttenuationIsHonest
<1> DEFINE table == attenuator.table
           Calibrated(db) == get_calibrated_attenuation(table, db)
           Actual == {table[i].actual : i \in DOMAIN table}
<1>1. /\ attenuator.step \in Nat \ {0} /\ asked \in Nat /\ table \in Seq(CalibrationPoints)
      /\ attenuator.current \in Nearest(asked) /\ Levels \subseteq Int
  BY FrontEndAssumption DEF AttenuatorIInv
<1>2. PICK q \in Nat : attenuator.current = q * attenuator.step
  BY <1>1, NearestIsNear
<1>3. Nearest(attenuator.current) = {attenuator.current}
  BY <1>1, <1>2, NearestAgain
<1>4. 2 * (attenuator.current - asked) \in (-attenuator.step)..attenuator.step
  <2> DEFINE c == attenuator.current
             s == attenuator.step
  <2>1. c \in Nat
    BY <1>1, <1>2
  <2>2. 2 * c - 2 * asked <= s /\ 2 * asked - 2 * c <= s
    BY <1>1, NearestIsNear
  <2>3. s \in Nat
    BY <1>1
  <2> HIDE DEF c, s
  <2>4. 2 * (c - asked) \in (-s)..s
    BY <1>1, <2>1, <2>2, <2>3
  <2> QED BY <2>4 DEF c, s
<1>5. ASSUME NEW db \in Levels, Actual # {}
      PROVE  /\ \E a \in Actual : a * Calibrated(db)[2] <= Calibrated(db)[1]
             /\ \E a \in Actual : Calibrated(db)[1] <= a * Calibrated(db)[2]
  <2> DEFINE c == Calibrated(db)
             lo == Before(table, db)
             hi == From(table, db)
  <2>1. table # << >> /\ db \in Int
    BY <1>1, <1>5
  <2>2. /\ lo \in 1..Len(table) /\ hi \in 1..Len(table)
        /\ table[lo].actual \in Int /\ table[hi].actual \in Int
        /\ table[lo].actual <= table[hi].actual =>
             table[lo].actual * c[2] <= c[1] /\ c[1] <= table[hi].actual * c[2]
        /\ table[hi].actual <= table[lo].actual =>
             table[hi].actual * c[2] <= c[1] /\ c[1] <= table[lo].actual * c[2]
    BY <1>1, <2>1, CalibratedLiesBetween
  <2>3. table[lo].actual \in Actual /\ table[hi].actual \in Actual
    BY <1>1, <2>2
  <2>4. table[lo].actual <= table[hi].actual \/ table[hi].actual <= table[lo].actual
    BY <2>2
  <2> HIDE DEF c, lo, hi, Actual
  <2>5. (\E a \in Actual : a * c[2] <= c[1]) /\ (\E a \in Actual : c[1] <= a * c[2])
    BY <2>2, <2>3, <2>4
  <2> QED BY <2>5 DEF c
<1>6. ASSUME InOrder(table), NEW db \in Levels, NEW more \in Levels, db <= more
      PROVE  Calibrated(db)[1] * Calibrated(more)[2] <= Calibrated(more)[1] * Calibrated(db)[2]
  <2>1. db \in Int /\ more \in Int
    BY <1>1
  <2>2. CASE table = << >>
    <3>1. Calibrated(db) = <<db, 1>> /\ Calibrated(more) = <<more, 1>>
      BY <2>2 DEF get_calibrated_attenuation
    <3> HIDE DEF Calibrated
    <3>2. Calibrated(db)[1] = db /\ Calibrated(db)[2] = 1 /\ Calibrated(more)[1] = more /\ Calibrated(more)[2] = 1
      BY <3>1
    <3> QED BY <1>6, <2>1, <3>2 DEF Calibrated
  <2>3. CASE table # << >>
    BY <1>1, <1>6, <2>1, <2>3, CalibratedRises
  <2> QED BY <2>2, <2>3
<1> HIDE DEF Calibrated, Actual, table
<1>7. \A db \in Levels :
        /\ Actual # {} => /\ \E a \in Actual : a * Calibrated(db)[2] <= Calibrated(db)[1]
                          /\ \E a \in Actual : Calibrated(db)[1] <= a * Calibrated(db)[2]
        /\ InOrder(table) =>
             \A more \in Levels : db <= more =>
               Calibrated(db)[1] * Calibrated(more)[2] <= Calibrated(more)[1] * Calibrated(db)[2]
  BY <1>5, <1>6
<1> QED BY <1>3, <1>4, <1>7, ControlWordIsTheStep DEF AttenuationIsHonest, Calibrated, Actual, table

FrontEndIInv == SwitchIInv /\ BankIInv /\ YigIInv /\ AmplifierIInv /\ AttenuatorIInv

LEMMA InitFrontEnd == FrontEndInit => FrontEndIInv
<1> SUFFICES ASSUME FrontEndInit PROVE FrontEndIInv
  OBVIOUS
<1>1. SwitchIInv
  BY DEF FrontEndInit, SwitchIInv
<1>2. BankIInv
  BY DEF FrontEndInit, BankIInv, None
<1>3. YigIInv
  <2>1. yig = [enabled |-> FALSE, frequency |-> yig_min, voltage |-> <<0, 1>>]
    BY DEF FrontEndInit
  <2>2. yig.frequency = yig_min /\ yig.voltage[1] = 0 /\ yig.voltage[2] = 1
    BY <2>1
  <2>3. yig_min \in Int /\ yig_max \in Int
    BY FrontEndAssumption
  <2> QED BY <2>1, <2>2, <2>3 DEF YigIInv
<1>4. AmplifierIInv
  BY DEF FrontEndInit, AmplifierIInv, AmplifierIsTyped, NoReport, None
<1>5. AttenuatorIInv
  <2>1. /\ AttenuatorLimit \in Nat \ {0} /\ OddStep \in Nat \ {0} /\ 2 ^ num_bits \in Nat \ {0}
        /\ AttenuatorLimit % 2 ^ num_bits = 0
    BY FrontEndAssumption
  <2> DEFINE w == 2 ^ num_bits
  <2>2. AttenuatorLimit \div w \in Nat \ {0}
    <3>1. w \in Nat \ {0} /\ AttenuatorLimit % w = 0
      BY <2>1
    <3> HIDE DEF w
    <3> QED BY <2>1, <3>1
  <2>3. PICK step \in Nat \ {0} :
          attenuator = [enabled |-> FALSE, current |-> 0, step |-> step, table |-> << >>]
    BY <2>1, <2>2 DEF FrontEndInit
  <2>4. /\ attenuator.step = step /\ attenuator.current = 0 /\ attenuator.table = << >>
        /\ attenuator.enabled = FALSE
    BY <2>3
  <2>5. asked = 0
    BY DEF FrontEndInit
  <2>6. Nearest(0 * attenuator.step) = {0 * attenuator.step}
    BY <2>4, NearestAgain
  <2>7. Nearest(0) = {0}
    BY <2>4, <2>6
  <2>8. << >> \in Seq(CalibrationPoints)
    OBVIOUS
  <2> QED BY <2>1, <2>3, <2>4, <2>5, <2>7, <2>8 DEF AttenuatorIInv
<1> QED BY <1>1, <1>2, <1>3, <1>4, <1>5 DEF FrontEndIInv

LEMMA NextFrontEnd == FrontEndIInv /\ [FrontEndNext]_frontEndVars => FrontEndIInv'
<1> SUFFICES ASSUME FrontEndIInv, [FrontEndNext]_frontEndVars PROVE FrontEndIInv'
  OBVIOUS
<1>0. SwitchIInv /\ BankIInv /\ YigIInv /\ AmplifierIInv /\ AttenuatorIInv
  BY DEF FrontEndIInv
<1>1. UNCHANGED switch => SwitchIInv'
  BY <1>0 DEF SwitchIInv
<1>2. UNCHANGED filterVars => BankIInv'
  BY <1>0 DEF BankIInv, filterVars
<1>3. UNCHANGED yig => YigIInv'
  BY <1>0 DEF YigIInv
<1>4. UNCHANGED amplifierVars => AmplifierIInv'
  BY <1>0 DEF AmplifierIInv, AmplifierIsTyped, amplifierVars
<1>5. UNCHANGED attenuatorVars => AttenuatorIInv'
  BY <1>0 DEF AttenuatorIInv, Nearest, attenuatorVars
<1>6. SwitchNext => SwitchIInv'
  BY <1>0, SwitchPreserves
<1>7. BankNext => BankIInv'
  BY <1>0, BankPreserves
<1>8. YigNext => YigIInv'
  BY <1>0, YigPreserves
<1>9. AmplifierNext => AmplifierIInv'
  BY <1>0, AmplifierPreserves
<1>10. AttenuatorNext => AttenuatorIInv'
  BY <1>0, AttenuatorPreserves
<1> QED
  BY <1>1, <1>2, <1>3, <1>4, <1>5, <1>6, <1>7, <1>8, <1>9, <1>10
  DEF FrontEndNext, frontEndVars, FrontEndIInv

\* Under every order of the calls to the front end's devices, for any updaters,
\* filters, levels and calibration tables: every temperature is judged however its
\* updates overlap, a look-up finds the selected filter, a voltage belongs to its
\* frequency, an attenuator is at the step nearest to the level asked for, its
\* control word sets what it was read at, a calibrated level stays between the points
\* and rises with the level, and a transmit/receive switch is in one of its modes.
THEOREM FrontEndStaysSound == FrontEndSpec => []FrontEndIsSound
<1>1. ASSUME FrontEndIInv PROVE FrontEndIsSound
  <2>0. SwitchIInv /\ BankIInv /\ YigIInv /\ AmplifierIInv /\ AttenuatorIInv
    BY <1>1 DEF FrontEndIInv
  <2>1. HeatIsJudged
    BY <2>0 DEF AmplifierIInv, AmplifierIsTyped, HeatIsJudged, Exclusive
  <2>2. lookup.at = "answered" => Cardinality(lookup.answer) = 1
    BY <2>0, FS_Singleton, Zenon DEF BankIInv
  <2>3. FiltersAreConsistent
    BY <2>0, <2>2 DEF BankIInv, YigIInv, FiltersAreConsistent
  <2>4. AttenuationIsHonest
    BY <2>0, AttenuatorIsHonest
  <2>5. is_transmit # is_receive
    BY <2>0 DEF SwitchIInv, is_transmit, is_receive, SwitchTo
  <2> QED BY <2>1, <2>3, <2>4, <2>5 DEF FrontEndIsSound
<1> QED BY <1>1, InitFrontEnd, NextFrontEnd, PTL DEF FrontEndSpec

\* What the types of the devices need beside the invariants of their promises
DevicesAreTyped ==
  /\ device.enabled \in BOOLEAN /\ device.fault \in BOOLEAN
  /\ device = [enabled |-> device.enabled, fault |-> device.fault, temperature |-> device.temperature]
  /\ switch.position \in SwitchPositions /\ DOMAIN switch.states = 1..NumSwitches
  /\ DOMAIN bank.filters \subseteq FilterIds
  /\ yig.frequency \in yig_min..yig_max
  /\ amplifier.status \in AmplifierStatus /\ amplifier.gain \in gain_range \cup {0}
  /\ Len(attenuator.table) <= MaxPoints
  /\ device_calls \in 0..MaxDeviceCalls

LEMMA CallIsCounted ==
  ASSUME device_calls \in 0..MaxDeviceCalls, Called
  PROVE  device_calls' \in 0..MaxDeviceCalls
  BY FrontEndAssumption DEF Called

LEMMA DevicesKeepTheirTypes ==
  ASSUME FrontEndIInv, DevicesAreTyped, FrontEndNext
  PROVE  DevicesAreTyped'
<1>0. SwitchIInv /\ BankIInv /\ YigIInv /\ AmplifierIInv /\ AttenuatorIInv
  BY DEF FrontEndIInv
<1>1. device_calls' \in 0..MaxDeviceCalls
  <2>1. DeviceNext => Called
    BY DEF DeviceNext, EnableDevice, DisableDevice, ImposeDevice
  <2>2. SwitchNext => Called
    BY DEF SwitchNext, EnableSwitch, TransmitReceive, Polarize, SetPosition, set_switch_state
  <2>3. BankNext => Called \/ UNCHANGED device_calls
    BY DEF BankNext, EnableBank, AddFilter, SelectFilter, TuneFilter, RemoveFilter, LookUpCurrent, LookUpSpec
  <2>4. YigNext => Called
    BY DEF YigNext, EnableYig, TuneYig
  <2>5. AmplifierNext => Called \/ UNCHANGED device_calls
    BY DEF AmplifierNext, WriteTemperature, CheckThermalProtection, Overheat, ReadStatus, ReadTemperature,
           ReadFlags, Alters, EnableAmplifier, DisableAmplifier, ImposeAmplifier, SetAmplifierGain
  <2>6. AttenuatorNext => Called
    BY DEF AttenuatorNext, EnableAttenuator, Attenuate, Increment, Decrement, SetControlWord,
           AddCalibrationPoint
  <2>7. Called \/ UNCHANGED device_calls
    BY <2>1, <2>2, <2>3, <2>4, <2>5, <2>6 DEF FrontEndNext
  <2> QED BY <2>7, CallIsCounted DEF DevicesAreTyped
<1>2. /\ device'.enabled \in BOOLEAN /\ device'.fault \in BOOLEAN
      /\ device' = [enabled |-> device'.enabled, fault |-> device'.fault, temperature |-> device'.temperature]
  <2> DEFINE Typed(r) == /\ r.enabled \in BOOLEAN /\ r.fault \in BOOLEAN
                         /\ r = [enabled |-> r.enabled, fault |-> r.fault, temperature |-> r.temperature]
  <2>1. Typed(device)
    BY DEF DevicesAreTyped
  <2>2. ASSUME NEW on \in BOOLEAN, device' = [device EXCEPT !.enabled = on] PROVE Typed(device')
    BY <2>1, <2>2
  <2>3. ASSUME NEW on \in BOOLEAN, NEW fault \in BOOLEAN, NEW u,
               device' = [enabled |-> on, fault |-> fault, temperature |-> u]
        PROVE  Typed(device')
    BY <2>3
  <2>4. CASE UNCHANGED device
    BY <2>1, <2>4
  <2>5. Typed(device')
    <3> HIDE DEF Typed
    <3> QED BY <2>2, <2>3, <2>4 DEF FrontEndNext, DeviceNext, EnableDevice, DisableDevice, ImposeDevice
  <2> QED BY <2>5
<1>3. switch'.position \in SwitchPositions /\ DOMAIN switch'.states = 1..NumSwitches
  <2>0. switch = [enabled |-> switch.enabled, position |-> switch.position, states |-> switch.states]
    BY <1>0 DEF SwitchIInv
  <2>1. ASSUME NEW on \in BOOLEAN, EnableSwitch(on)
        PROVE  switch'.position \in SwitchPositions /\ DOMAIN switch'.states = 1..NumSwitches
    BY <2>0, <2>1 DEF EnableSwitch, DevicesAreTyped
  <2>2. ASSUME NEW p, SetPosition(p)
        PROVE  switch'.position \in SwitchPositions /\ DOMAIN switch'.states = 1..NumSwitches
    BY <2>0, <2>2 DEF SetPosition, DevicesAreTyped
  <2>3. ASSUME NEW i \in 1..(NumSwitches + 1), NEW state \in {"Open", "Closed"}, set_switch_state(i, state)
        PROVE  switch'.position \in SwitchPositions /\ DOMAIN switch'.states = 1..NumSwitches
    <3>1. switch' = [switch EXCEPT !.states = [switch.states EXCEPT ![i] = state]]
      BY <2>3 DEF set_switch_state
    <3>2. switch'.position = switch.position /\ DOMAIN switch'.states = DOMAIN switch.states
      BY <2>0, <3>1
    <3> QED BY <3>2 DEF DevicesAreTyped
  <2>4. CASE UNCHANGED switch
    BY <2>4 DEF DevicesAreTyped
  <2> QED BY <2>1, <2>2, <2>3, <2>4 DEF FrontEndNext, SwitchNext, TransmitReceive, Polarize
<1>4. DOMAIN bank'.filters \subseteq FilterIds
  <2>0. /\ bank = [enabled |-> bank.enabled, current |-> bank.current, filters |-> bank.filters]
        /\ DOMAIN bank.filters \subseteq FilterIds
    BY <1>0 DEF BankIInv, DevicesAreTyped
  <2>1. ASSUME NEW id \in FilterIds, NEW spec \in FilterSpecs, AddFilter(id, spec)
        PROVE  DOMAIN bank'.filters \subseteq FilterIds
    <3> DEFINE new == [x \in DOMAIN bank.filters \cup {id} |-> IF x = id THEN spec ELSE bank.filters[x]]
    <3>1. bank' = [bank EXCEPT !.filters = new]
      BY <2>1 DEF AddFilter
    <3>2. DOMAIN new = DOMAIN bank.filters \cup {id}
      OBVIOUS
    <3> HIDE DEF new
    <3> QED BY <2>0, <3>1, <3>2
  <2>2. ASSUME NEW id \in FilterIds, RemoveFilter(id) PROVE DOMAIN bank'.filters \subseteq FilterIds
    <3> DEFINE left == [x \in DOMAIN bank.filters \ {id} |-> bank.filters[x]]
    <3>1. bank' = [bank EXCEPT !.filters = left, !.current = @ \ {id}]
      BY <2>2 DEF RemoveFilter
    <3>2. DOMAIN left \subseteq DOMAIN bank.filters
      OBVIOUS
    <3> HIDE DEF left
    <3> QED BY <2>0, <3>1, <3>2
  <2>3. ASSUME NEW id \in FilterIds, SelectFilter(id) PROVE DOMAIN bank'.filters \subseteq FilterIds
    BY <2>0, <2>3 DEF SelectFilter
  <2>4. ASSUME NEW on \in BOOLEAN, EnableBank(on) PROVE DOMAIN bank'.filters \subseteq FilterIds
    BY <2>0, <2>4 DEF EnableBank
  <2>5. CASE UNCHANGED bank
    BY <2>0, <2>5
  <2>6. UNCHANGED bank \/ BankNext
    BY DEF FrontEndNext, filterVars
  <2> QED BY <2>1, <2>2, <2>3, <2>4, <2>5, <2>6 DEF BankNext, TuneFilter, LookUpCurrent, LookUpSpec
<1>5. yig'.frequency \in yig_min..yig_max
  <2>0. yig = [enabled |-> yig.enabled, frequency |-> yig.frequency, voltage |-> yig.voltage]
    BY <1>0 DEF YigIInv
  <2>1. ASSUME NEW on \in BOOLEAN, EnableYig(on) PROVE yig'.frequency = yig.frequency
    BY <2>0, <2>1 DEF EnableYig
  <2>2. ASSUME NEW frequency \in Frequencies, TuneYig(frequency) PROVE yig'.frequency \in yig_min..yig_max
    <3> DEFINE v == <<10 * (frequency - yig_min), yig_max - yig_min>>
    <3>1. frequency \in yig_min..yig_max /\ yig' = [yig EXCEPT !.frequency = frequency, !.voltage = v]
      BY <2>2 DEF TuneYig
    <3> HIDE DEF v
    <3>2. yig'.frequency = frequency
      BY <2>0, <3>1
    <3> QED BY <3>1, <3>2
  <2>3. CASE UNCHANGED yig
    BY <2>3 DEF DevicesAreTyped
  <2> QED BY <2>1, <2>2, <2>3 DEF FrontEndNext, YigNext, DevicesAreTyped
<1>6. amplifier'.status \in AmplifierStatus /\ amplifier'.gain \in gain_range \cup {0}
  <2>0. /\ amplifier = [enabled |-> amplifier.enabled, fault |-> amplifier.fault,
                        temperature |-> amplifier.temperature, gain |-> amplifier.gain,
                        status |-> amplifier.status]
        /\ amplifier.status \in AmplifierStatus /\ amplifier.gain \in gain_range \cup {0}
    BY <1>0 DEF AmplifierIInv, AmplifierIsTyped, DevicesAreTyped
  <2> DEFINE Typed(r) == r.status \in AmplifierStatus /\ r.gain \in gain_range \cup {0}
  <2>1. ASSUME NEW u, NEW t, WriteTemperature(u, t) PROVE Typed(amplifier')
    BY <2>0, <2>1 DEF WriteTemperature
  <2>2. ASSUME NEW u, CheckThermalProtection(u) PROVE Typed(amplifier')
    BY <2>0, <2>2 DEF CheckThermalProtection
  <2>3. ASSUME NEW u, Overheat(u) PROVE Typed(amplifier')
    BY <2>0, <2>3 DEF Overheat, AmplifierStatus
  <2>4. ASSUME EnableAmplifier \/ DisableAmplifier PROVE Typed(amplifier')
    BY <2>0, <2>4 DEF EnableAmplifier, DisableAmplifier, AmplifierStatus
  <2>5. ASSUME NEW on, NEW fault, NEW t, ImposeAmplifier(on, fault, t) PROVE Typed(amplifier')
    BY <2>0, <2>5 DEF ImposeAmplifier
  <2>6. ASSUME NEW db, SetAmplifierGain(db) PROVE Typed(amplifier')
    BY <2>0, <2>6 DEF SetAmplifierGain
  <2>7. ASSUME UNCHANGED amplifier PROVE Typed(amplifier')
    BY <2>0, <2>7
  <2>8. UNCHANGED amplifier \/ AmplifierNext
    BY DEF FrontEndNext, amplifierVars
  <2>9. Typed(amplifier')
    <3> HIDE DEF Typed
    <3> QED BY <2>1, <2>2, <2>3, <2>4, <2>5, <2>6, <2>7, <2>8
            DEF AmplifierNext, ReadStatus, ReadTemperature, ReadFlags
  <2> QED BY <2>9
<1>7. Len(attenuator'.table) <= MaxPoints
  <2>0. /\ attenuator = [enabled |-> attenuator.enabled, current |-> attenuator.current,
                         step |-> attenuator.step, table |-> attenuator.table]
        /\ attenuator.table \in Seq(CalibrationPoints) /\ Len(attenuator.table) <= MaxPoints
    BY <1>0 DEF AttenuatorIInv, DevicesAreTyped
  <2>1. ASSUME NEW p \in CalibrationPoints, AddCalibrationPoint(p)
        PROVE  Len(attenuator'.table) <= MaxPoints
    <3>1. attenuator'.table = Append(attenuator.table, p) /\ Len(attenuator.table) < MaxPoints
      BY <2>0, <2>1 DEF AddCalibrationPoint
    <3>2. Len(attenuator'.table) = Len(attenuator.table) + 1 /\ Len(attenuator.table) \in Nat
      BY <2>0, <3>1
    <3> QED BY <3>1, <3>2, FrontEndAssumption
  <2>2. ASSUME NEW db, Attenuate(db) PROVE attenuator'.table = attenuator.table
    BY <2>0, <2>2 DEF Attenuate
  <2>3. ASSUME NEW on \in BOOLEAN, EnableAttenuator(on) PROVE attenuator'.table = attenuator.table
    BY <2>0, <2>3 DEF EnableAttenuator
  <2>4. CASE UNCHANGED attenuatorVars
    BY <2>0, <2>4 DEF attenuatorVars
  <2> QED BY <2>0, <2>1, <2>2, <2>3, <2>4 DEF FrontEndNext, AttenuatorNext, Increment, Decrement, SetControlWord
<1> QED BY <1>1, <1>2, <1>3, <1>4, <1>5, <1>6, <1>7 DEF DevicesAreTyped

LEMMA FrontEndIsTyped == FrontEndSpec => []FrontEndTypeOK
<1>1. FrontEndInit => DevicesAreTyped
  <2> SUFFICES ASSUME FrontEndInit PROVE DevicesAreTyped
    OBVIOUS
  <2>1. Len(attenuator.table) = 0
    BY DEF FrontEndInit
  <2>2. DOMAIN bank.filters = {}
    BY DEF FrontEndInit
  <2>3. switch.position \in SwitchPositions /\ DOMAIN switch.states = 1..NumSwitches
    BY FrontEndAssumption DEF FrontEndInit
  <2>4. yig.frequency \in yig_min..yig_max /\ device_calls \in 0..MaxDeviceCalls
    BY FrontEndAssumption DEF FrontEndInit
  <2>5. amplifier.status \in AmplifierStatus /\ amplifier.gain \in gain_range \cup {0}
    BY DEF FrontEndInit, AmplifierStatus
  <2>6. /\ device.enabled \in BOOLEAN /\ device.fault \in BOOLEAN
        /\ device = [enabled |-> device.enabled, fault |-> device.fault, temperature |-> device.temperature]
    BY DEF FrontEndInit
  <2> QED BY <2>1, <2>2, <2>3, <2>4, <2>5, <2>6, FrontEndAssumption DEF DevicesAreTyped
<1>2. FrontEndIInv /\ DevicesAreTyped /\ [FrontEndNext]_frontEndVars => DevicesAreTyped'
  <2>1. DevicesAreTyped /\ UNCHANGED frontEndVars => DevicesAreTyped'
    BY DEF frontEndVars, filterVars, amplifierVars, attenuatorVars, DevicesAreTyped
  <2> QED BY <2>1, DevicesKeepTheirTypes
<1>3. FrontEndIInv /\ DevicesAreTyped => FrontEndTypeOK
  <2> SUFFICES ASSUME FrontEndIInv, DevicesAreTyped PROVE FrontEndTypeOK
    OBVIOUS
  <2>1. bank.current \subseteq FilterIds
    BY DEF FrontEndIInv, BankIInv, DevicesAreTyped
  <2>2. \A u \in Updaters : update[u] \in {"idle", "written", "tripped"}
    BY DEF FrontEndIInv, AmplifierIInv, AmplifierIsTyped
  <2>3. attenuator.current \in Nat
    <3>1. attenuator.step \in Nat \ {0} /\ asked \in Nat /\ attenuator.current \in Nearest(asked)
      BY FrontEndAssumption DEF FrontEndIInv, AttenuatorIInv
    <3>2. PICK q \in Nat : attenuator.current = q * attenuator.step
      BY <3>1, NearestIsNear
    <3> QED BY <3>1, <3>2
  <2> QED BY <2>1, <2>2, <2>3 DEF DevicesAreTyped, FrontEndTypeOK
<1> QED BY <1>1, <1>2, <1>3, InitFrontEnd, NextFrontEnd, PTL DEF FrontEndSpec

-----------------------------------------------------------------------------
(* The evidence of the digital twin *)

\* The walk w is s above its lowest point when it has come to n.
AboveLowest(w, n, s) ==
  /\ \A i \in 1..n : w[n] - w[i] <= s
  /\ \E i \in 1..n : w[n] - w[i] = s

\* As long as it has detected nothing, the sum of a detector is the height of the
\* walk above its lowest point so far.
Follows(d, w) ==
  /\ Len(w) > 0
  /\ ~ d.change_detected => AboveLowest(w, Len(w), d.cusum) /\ d.cusum < Threshold
  /\ d.change_detected <=> Shifted(w)

DetectorIInv ==
  /\ detectors \in [Monitored -> [cusum : Int, change_detected : BOOLEAN]]
  /\ walk \in [Monitored -> Seq(Int)]
  /\ \A k \in Monitored : Follows(detectors[k], walk[k])

\* The snapshots that are gone are older than all that are left, and these are then
\* as many as may be kept.
StoreIInv ==
  /\ stored \subseteq Nat /\ IsFiniteSet(stored)
  /\ twin_snapshots \subseteq stored
  /\ \A t \in stored \ twin_snapshots :
       /\ Cardinality(twin_snapshots) = MaxTwinSnapshots
       /\ \A u \in twin_snapshots : t < u
  /\ Cardinality(twin_snapshots) <= MaxTwinSnapshots

\* clamped at zero
LEMMA UpdateIsClamped ==
  ASSUME NEW d \in [cusum : Int, change_detected : BOOLEAN], NEW x \in Int
  PROVE  /\ UpdateDetector(d, x) \in [cusum : Int, change_detected : BOOLEAN]
         /\ d.change_detected => UpdateDetector(d, x) = d
         /\ ~ d.change_detected =>
              LET sum == d.cusum + x - MinShift IN
              /\ UpdateDetector(d, x).cusum = IF sum >= 0 THEN sum ELSE 0
              /\ UpdateDetector(d, x).change_detected <=> UpdateDetector(d, x).cusum >= Threshold
<1> DEFINE sum == d.cusum + x - MinShift
<1>1. sum \in Int
  BY DEF MinShift
<1>2. Max({0, sum}) = IF sum >= 0 THEN sum ELSE 0
  <2> HIDE DEF sum
  <2>1. PICK m \in {0, sum} : \A y \in {0, sum} : m >= y
    BY <1>1
  <2>2. Max({0, sum}) \in {0, sum} /\ \A y \in {0, sum} : Max({0, sum}) >= y
    BY <2>1, MaxIsOne
  <2> QED BY <1>1, <2>2
<1> HIDE DEF sum
<1>3. UpdateDetector(d, x) = IF d.change_detected THEN d
                             ELSE [cusum |-> Max({0, sum}), change_detected |-> Max({0, sum}) >= Threshold]
  BY DEF UpdateDetector, sum
<1>4. sum = d.cusum + x - MinShift
  BY DEF sum
<1> DEFINE top == Max({0, sum})
<1>5. top \in Int /\ top = IF sum >= 0 THEN sum ELSE 0
  BY <1>1, <1>2
<1> HIDE DEF top
<1>6. CASE d.change_detected
  BY <1>3, <1>6
<1>7. CASE ~ d.change_detected
  <2>1. UpdateDetector(d, x) = [cusum |-> top, change_detected |-> top >= Threshold]
    BY <1>3, <1>7 DEF top
  <2>2. (top >= Threshold) \in BOOLEAN
    OBVIOUS
  <2>3. UpdateDetector(d, x) \in [cusum : Int, change_detected : BOOLEAN]
    BY <1>5, <2>1, <2>2
  <2>4. UpdateDetector(d, x).cusum = top
    BY <2>1
  <2>5. UpdateDetector(d, x).change_detected <=> top >= Threshold
    <3> DEFINE high == top >= Threshold
    <3>1. UpdateDetector(d, x) = [cusum |-> top, change_detected |-> high]
      BY <2>1
    <3>2. high <=> top >= Threshold
      OBVIOUS
    <3> HIDE DEF high
    <3>3. UpdateDetector(d, x).change_detected = high
      BY <3>1
    <3> QED BY <3>2, <3>3, Zenon
  <2>6. top = IF d.cusum + x - MinShift >= 0 THEN d.cusum + x - MinShift ELSE 0
    BY <1>4, <1>5
  <2> QED BY <1>7, <2>3, <2>4, <2>5, <2>6, Zenon
<1> QED BY <1>6, <1>7

LEMMA DeviationIsANumber ==
  ASSUME TwinAssumption, NEW k \in Monitored, NEW v \in ObservedValues
  PROVE  Deviation(PredictedInterval[k], v) \in Int
<1> DEFINE lo == PredictedInterval[k].lower
           hi == PredictedInterval[k].upper
<1>1. v \in Int /\ lo \in Int /\ hi \in Int
  BY DEF TwinAssumption
<1>2. Distance(PredictedInterval[k], v) \in Int
  <2> HIDE DEF lo, hi
  <2>1. PICK m \in {0, lo - v, v - hi} : \A y \in {0, lo - v, v - hi} : m >= y
    BY <1>1
  <2>2. Max({0, lo - v, v - hi}) \in {0, lo - v, v - hi}
    BY <2>1, MaxIsOne
  <2>3. Max({0, lo - v, v - hi}) \in Int
    BY <1>1, <2>2
  <2> QED BY <2>3 DEF Distance, lo, hi
<1> QED BY <1>1, <1>2 DEF Deviation

\* How a walk goes on: the height above the lowest point is what the detector adds up.
LEMMA WalkGoesOn ==
  ASSUME NEW n \in Nat \ {0}, NEW w, \A i \in 1..n : w[i] \in Int,
         NEW s \in Int, NEW x \in Int, AboveLowest(w, n, s),
         NEW v, \A i \in 1..n : v[i] = w[i], v[n + 1] = w[n] + x,
         NEW r, r = IF s + x >= 0 THEN s + x ELSE 0
  PROVE  AboveLowest(v, n + 1, r)
<1> DEFINE top == w[n]
<1>3. top \in Int
  OBVIOUS
<1>4. \A i \in 1..n : top - w[i] <= s
  BY DEF AboveLowest
<1>5. PICK j \in 1..n : top - w[j] = s
  BY DEF AboveLowest
<1>8. v[n + 1] = top + x
  OBVIOUS
<1> HIDE DEF top
<1>9. \A i \in 1..(n + 1) : v[n + 1] - v[i] <= r
  <2> TAKE i \in 1..(n + 1)
  <2>1. CASE i = n + 1
    BY <1>3, <1>8, <2>1
  <2>2. CASE i \in 1..n
    BY <1>3, <1>4, <1>8, <2>2
  <2> QED BY <2>1, <2>2
<1>10. \E i \in 1..(n + 1) : v[n + 1] - v[i] = r
  <2>1. CASE s + x >= 0
    <3>1. v[n + 1] - v[j] = r
      BY <1>3, <1>5, <1>8, <2>1
    <3> QED BY <3>1
  <2>2. CASE s + x < 0
    <3>1. v[n + 1] - v[n + 1] = r
      BY <1>3, <1>8, <2>2
    <3> QED BY <3>1
  <2> QED BY <2>1, <2>2
<1> QED BY <1>9, <1>10 DEF AboveLowest

\* It has risen by the threshold, which it had not before, if it is that high now.
LEMMA ShiftedByNow ==
  ASSUME NEW n \in Nat \ {0}, NEW w, \A i \in 1..n : w[i] \in Int, DOMAIN w = 1..n,
         NEW v, \A i \in 1..n : v[i] = w[i], v[n + 1] \in Int, DOMAIN v = 1..(n + 1),
         NEW r \in Int, AboveLowest(v, n + 1, r), ~ Shifted(w)
  PROVE  Shifted(v) <=> r >= Threshold
<1>1. ASSUME Shifted(v) PROVE r >= Threshold
  <2>1. PICK a \in 1..(n + 1), b \in 1..(n + 1) : a < b /\ v[b] - v[a] >= Threshold
    BY <1>1 DEF Shifted
  <2>2. a \in 1..n
    BY <2>1
  <2>3. CASE b \in 1..n
    BY <2>1, <2>2, <2>3 DEF Shifted
  <2>4. CASE b = n + 1
    <3>1. v[n + 1] - v[a] <= r
      BY DEF AboveLowest
    <3>2. v[a] \in Int
      BY <2>2
    <3> QED BY <2>1, <2>4, <3>1, <3>2 DEF Threshold
  <2> QED BY <2>3, <2>4
<1>2. ASSUME r >= Threshold PROVE Shifted(v)
  <2>1. PICK i \in 1..(n + 1) : v[n + 1] - v[i] = r
    BY DEF AboveLowest
  <2>2. i # n + 1
    BY <1>2, <2>1 DEF Threshold
  <2>3. i < n + 1 /\ n + 1 \in 1..(n + 1)
    BY <2>2
  <2> QED BY <1>2, <2>1, <2>3 DEF Shifted
<1> QED BY <1>1, <1>2

\* What a walk has risen by it has risen by when it goes on.
LEMMA ShiftedStays ==
  ASSUME NEW w \in Seq(Int), NEW x \in Int, Shifted(w)
  PROVE  Shifted(Append(w, x))
<1>1. PICK a \in 1..Len(w), b \in 1..Len(w) : a < b /\ w[b] - w[a] >= Threshold
  BY DEF Shifted
<1> DEFINE v == Append(w, x)
<1>2. a \in DOMAIN v /\ b \in DOMAIN v /\ v[a] = w[a] /\ v[b] = w[b]
  OBVIOUS
<1> HIDE DEF v
<1>3. Shifted(v)
  BY <1>1, <1>2 DEF Shifted
<1> QED BY <1>3 DEF v

LEMMA WalkAppended ==
  ASSUME NEW w \in Seq(Int), NEW n, n = Len(w), NEW z \in Int, NEW v, v = Append(w, z)
  PROVE  /\ v \in Seq(Int) /\ Len(v) = n + 1 /\ DOMAIN w = 1..n /\ DOMAIN v = 1..(n + 1)
         /\ v[n + 1] = z /\ \A i \in 1..n : v[i] = w[i]
         /\ \A i \in 1..n : w[i] \in Int
  OBVIOUS

LEMMA DetectorPreserves ==
  ASSUME DetectorIInv, NEW k \in Monitored, NEW x \in Int
  PROVE  LET d == UpdateDetector(detectors[k], x)
             v == Append(walk[k], walk[k][Len(walk[k])] + x - MinShift)
         IN  /\ d \in [cusum : Int, change_detected : BOOLEAN]
             /\ v \in Seq(Int) /\ Follows(d, v)
<1> DEFINE w == walk[k]
           n == Len(w)
           c == detectors[k]
           y == x - MinShift
           d == UpdateDetector(c, x)
           v == Append(w, w[n] + x - MinShift)
<1>1. c \in [cusum : Int, change_detected : BOOLEAN] /\ w \in Seq(Int) /\ n \in Nat \ {0}
  BY DEF DetectorIInv, Follows
<1>2. /\ ~ c.change_detected => AboveLowest(w, n, c.cusum) /\ c.cusum < Threshold
      /\ c.change_detected <=> Shifted(w)
  BY DEF DetectorIInv, Follows
<1>3. y \in Int /\ \A z \in Int : z + x - MinShift = z + y
  BY DEF MinShift
<1>4. /\ d \in [cusum : Int, change_detected : BOOLEAN]
      /\ c.change_detected => d = c
      /\ ~ c.change_detected =>
           /\ d.cusum = IF c.cusum + y >= 0 THEN c.cusum + y ELSE 0
           /\ d.change_detected <=> d.cusum >= Threshold
  <2> HIDE DEF c, y
  <2> QED BY <1>1, <1>3, UpdateIsClamped
<1>5. w[n] \in Int
  BY <1>1
<1>6. n = Len(w)
  OBVIOUS
<1> DEFINE z == w[n] + y
<1>7. z \in Int /\ v = Append(w, z)
  BY <1>3, <1>5
<1> SUFFICES /\ d \in [cusum : Int, change_detected : BOOLEAN]
             /\ v \in Seq(Int) /\ Len(v) > 0
             /\ ~ d.change_detected => AboveLowest(v, Len(v), d.cusum) /\ d.cusum < Threshold
             /\ d.change_detected <=> Shifted(v)
  BY DEF Follows
<1> HIDE DEF n, y, c, w, d, v
<1>8. /\ v \in Seq(Int) /\ Len(v) = n + 1 /\ DOMAIN w = 1..n /\ DOMAIN v = 1..(n + 1)
      /\ v[n + 1] = w[n] + y /\ \A i \in 1..n : v[i] = w[i]
      /\ \A i \in 1..n : w[i] \in Int
  <2>1. v[n + 1] = z
    <3> HIDE DEF z
    <3> QED BY <1>1, <1>6, <1>7, WalkAppended
  <2> HIDE DEF z
  <2>2. /\ v \in Seq(Int) /\ Len(v) = n + 1 /\ DOMAIN w = 1..n /\ DOMAIN v = 1..(n + 1)
        /\ \A i \in 1..n : v[i] = w[i]
        /\ \A i \in 1..n : w[i] \in Int
    BY <1>1, <1>6, <1>7, WalkAppended
  <2> QED BY <2>1, <2>2 DEF z
<1>9. CASE c.change_detected
  <2> HIDE DEF z
  <2>1. Shifted(v)
    BY <1>1, <1>2, <1>7, <1>9, ShiftedStays
  <2> QED BY <1>1, <1>4, <1>8, <1>9, <2>1
<1>10. CASE ~ c.change_detected
  <2>1. c.cusum \in Int /\ d.cusum \in Int
    BY <1>1, <1>4
  <2>2. AboveLowest(w, n, c.cusum) /\ ~ Shifted(w)
    BY <1>2, <1>10
  <2>3. d.cusum = IF c.cusum + y >= 0 THEN c.cusum + y ELSE 0
    BY <1>4, <1>10
  <2> DEFINE r == d.cusum
             s == c.cusum
  <2>4. r \in Int /\ s \in Int /\ r = IF s + y >= 0 THEN s + y ELSE 0
    BY <2>1, <2>3
  <2>5. AboveLowest(w, n, s)
    BY <2>2
  <2> HIDE DEF r, s, z
  <2>6. AboveLowest(v, n + 1, r)
    BY <1>1, <1>3, <1>8, <2>4, <2>5, WalkGoesOn, ZenonT(30)
  <2>7. v[n + 1] \in Int
    <3>1. w[n] + y \in Int
      BY <1>3, <1>5
    <3> QED BY <1>8, <3>1
  <2>8. Shifted(v) <=> r >= Threshold
    BY <1>1, <1>8, <2>2, <2>4, <2>6, <2>7, ShiftedByNow
  <2>9. d.change_detected <=> r >= Threshold
    BY <1>4, <1>10 DEF r
  <2>10. ~ d.change_detected => r < Threshold
    BY <2>4, <2>9 DEF Threshold
  <2>11. Len(v) = n + 1 /\ Len(v) > 0
    BY <1>1, <1>8
  <2> QED BY <1>4, <1>8, <2>6, <2>8, <2>9, <2>10, <2>11 DEF r
<1> QED BY <1>9, <1>10

\* A snapshot stored, and the oldest removed when there is no room.
LEMMA StoreStaysSound ==
  ASSUME TwinAssumption, StoreIInv, NEW time \in SnapshotTimes, StoreSnapshot(time)
  PROVE  StoreIInv'
<1> DEFINE kept == twin_snapshots \cup {time}
           N == MaxTwinSnapshots
           C == Cardinality(twin_snapshots)
<1>1. time \in Nat /\ N \in Nat \ {0} /\ kept \in SUBSET Nat /\ kept # {}
  BY DEF TwinAssumption, StoreIInv
<1>2. IsFiniteSet(twin_snapshots) /\ C \in Nat /\ C <= N
  <2>1. IsFiniteSet(twin_snapshots)
    BY FS_Subset DEF StoreIInv
  <2> QED BY <2>1, FS_CardinalityType DEF StoreIInv
<1>3. IsFiniteSet(kept) /\ Cardinality(kept) = IF time \in twin_snapshots THEN C ELSE C + 1
  <2>1. IsFiniteSet(kept)
    BY <1>2, FS_AddElement
  <2>2. Cardinality(kept) = IF time \in twin_snapshots THEN C ELSE C + 1
    BY <1>2, FS_AddElement
  <2> QED BY <2>1, <2>2
<1>4. stored' = stored \cup {time} /\ IsFiniteSet(stored') /\ stored' \subseteq Nat
  <2>1. IsFiniteSet(stored \cup {time})
    BY FS_AddElement DEF StoreIInv
  <2> QED BY <1>1, <2>1 DEF StoreSnapshot, StoreIInv
<1>5. twin_snapshots' = IF Cardinality(kept) > N THEN kept \ {Min(kept)} ELSE kept
  BY DEF StoreSnapshot
<1>6. kept \subseteq stored'
  BY <1>4 DEF StoreIInv
<1>7. \A t \in stored \ twin_snapshots : t \in Nat /\ C = N /\ \A u \in twin_snapshots : t < u
  BY DEF StoreIInv
<1>8. CASE ~ (Cardinality(kept) > N)
  <2>1. twin_snapshots' = kept /\ Cardinality(kept) <= N
    <3>1. Cardinality(kept) \in Nat
      BY <1>2, <1>3
    <3> QED BY <1>1, <1>5, <1>8, <3>1
  <2>2. ASSUME NEW t \in stored' \ kept
        PROVE  Cardinality(kept) = N /\ \A u \in kept : t < u
    <3>1. t \in stored \ twin_snapshots
      BY <1>4, <2>2
    <3>2. C = N
      BY <1>7, <3>1
    <3>3. time \in twin_snapshots
      BY <1>1, <1>2, <1>3, <2>1, <3>2
    <3>4. kept = twin_snapshots
      BY <3>3
    <3>5. Cardinality(kept) = N
      BY <1>3, <3>2, <3>3
    <3> QED BY <1>7, <3>1, <3>4, <3>5
  <2>3. Cardinality(twin_snapshots') = Cardinality(kept)
    BY <2>1, Zenon
  <2> HIDE DEF kept
  <2> QED BY <1>4, <1>6, <2>1, <2>2, <2>3 DEF StoreIInv
<1>9. CASE Cardinality(kept) > N
  <2> DEFINE m == Min(kept)
  <2>1. time \notin twin_snapshots /\ C = N /\ Cardinality(kept) = N + 1
    <3>1. time \notin twin_snapshots
      BY <1>1, <1>2, <1>3, <1>9
    <3> QED BY <1>1, <1>2, <1>3, <1>9, <3>1
  <2>2. m \in kept /\ \A u \in kept : m <= u
    BY <1>1, MinIsLeast
  <2>3. twin_snapshots' = kept \ {m}
    BY <1>5, <1>9
  <2>4. Cardinality(twin_snapshots') = N
    <3>1. Cardinality(kept \ {m}) = Cardinality(kept) - 1
      BY <1>3, <2>2, FS_RemoveElement
    <3>2. Cardinality(twin_snapshots') = Cardinality(kept \ {m})
      BY <2>3, Zenon
    <3> QED BY <1>1, <2>1, <3>1, <3>2
  <2>5. m \in Nat /\ \A u \in kept \ {m} : m < u /\ u \in Nat
    <3> HIDE DEF m, kept
    <3>1. m \in Nat /\ \A u \in kept : u \in Nat
      BY <1>1, <2>2
    <3> QED BY <2>2, <3>1
  <2>6. ASSUME NEW t \in stored' \ (kept \ {m}), NEW u \in kept \ {m}
        PROVE  t < u
    <3> HIDE DEF m
    <3>1. CASE t = m
      BY <2>5, <3>1
    <3>2. CASE t # m
      <4>1. t \in stored \ twin_snapshots
        BY <1>4, <2>6, <3>2
      <4>2. t \in Nat /\ \A v \in twin_snapshots : t < v
        BY <1>7, <4>1
      <4>3. CASE u \in twin_snapshots
        BY <4>2, <4>3
      <4>4. CASE u \notin twin_snapshots
        <5>1. u = time /\ m \in twin_snapshots
          BY <2>2, <2>6, <4>4
        <5> QED BY <2>5, <2>6, <4>2, <5>1
      <4> QED BY <4>3, <4>4
    <3> QED BY <3>1, <3>2
  <2>7. twin_snapshots' \subseteq stored'
    BY <1>6, <2>3
  <2> HIDE DEF kept, m
  <2> QED BY <1>1, <1>4, <2>3, <2>4, <2>6, <2>7 DEF StoreIInv
<1> QED BY <1>8, <1>9

LEMMA StoreHoldsTheNewest ==
  ASSUME TwinAssumption, StoreIInv
  PROVE  NewestAreKept
<1> DEFINE Newer(t) == {u \in stored : u > t}
           N == MaxTwinSnapshots
<1>1. IsFiniteSet(twin_snapshots) /\ N \in Nat \ {0}
  BY FS_Subset DEF StoreIInv, TwinAssumption
<1>2. ASSUME NEW t \in stored
      PROVE  /\ IsFiniteSet(Newer(t)) /\ Cardinality(Newer(t)) \in Nat
  <2>1. Newer(t) \subseteq stored
    OBVIOUS
  <2> HIDE DEF Newer
  <2>2. IsFiniteSet(Newer(t))
    BY <2>1, FS_Subset DEF StoreIInv
  <2> QED BY <2>2, FS_CardinalityType
<1>3. ASSUME NEW t \in stored, t \notin twin_snapshots
      PROVE  ~ (Cardinality(Newer(t)) < N)
  <2>1. Cardinality(twin_snapshots) = N /\ twin_snapshots \subseteq Newer(t)
    BY <1>3 DEF StoreIInv
  <2>2. Cardinality(twin_snapshots) <= Cardinality(Newer(t))
    <3> HIDE DEF Newer
    <3> QED BY <1>2, <2>1, FS_Subset
  <2> QED BY <1>1, <1>2, <2>1, <2>2
<1>4. ASSUME NEW t \in twin_snapshots
      PROVE  t \in stored /\ Cardinality(Newer(t)) < N
  <2>1. t \in stored
    BY DEF StoreIInv
  <2>2. Newer(t) \subseteq twin_snapshots \ {t}
    <3> SUFFICES ASSUME NEW u \in stored, u > t
                 PROVE  u \in twin_snapshots /\ u # t
      OBVIOUS
    <3>1. u \in Nat /\ t \in Nat
      BY <2>1 DEF StoreIInv
    <3>2. u \notin twin_snapshots => u < t
      BY DEF StoreIInv
    <3> QED BY <3>1, <3>2
  <2>3. IsFiniteSet(twin_snapshots \ {t}) /\ Cardinality(twin_snapshots \ {t}) = Cardinality(twin_snapshots) - 1
    BY <1>1, FS_RemoveElement
  <2>4. Cardinality(Newer(t)) <= Cardinality(twin_snapshots \ {t})
    <3> HIDE DEF Newer
    <3> QED BY <2>2, <2>3, FS_Subset
  <2>5. Cardinality(twin_snapshots) \in Nat /\ Cardinality(twin_snapshots) <= N
    BY <1>1, FS_CardinalityType DEF StoreIInv
  <2>6. Cardinality(Newer(t)) \in Nat
    BY <1>2, <2>1
  <2> HIDE DEF Newer
  <2> QED BY <1>1, <2>1, <2>3, <2>4, <2>5, <2>6
<1>5. twin_snapshots = {t \in stored : Cardinality(Newer(t)) < N}
  <2> HIDE DEF Newer
  <2> QED BY <1>3, <1>4
<1> QED BY <1>5 DEF NewestAreKept

TwinIInv == DetectorIInv /\ StoreIInv

LEMMA FreshDetector ==
  NewDetector \in [cusum : Int, change_detected : BOOLEAN] /\ <<0>> \in Seq(Int) /\ Follows(NewDetector, <<0>>)
<1> DEFINE w == <<0>>
<1>1. w \in Seq(Int) /\ Len(w) = 1 /\ w[1] = 0 /\ DOMAIN w = 1..1
  OBVIOUS
<1>2. /\ NewDetector.cusum = 0 /\ NewDetector.change_detected = FALSE
      /\ NewDetector \in [cusum : Int, change_detected : BOOLEAN]
  BY DEF NewDetector
<1> HIDE DEF w
<1>3. AboveLowest(w, Len(w), 0) /\ ~ Shifted(w)
  BY <1>1 DEF AboveLowest, Shifted
<1>4. Follows(NewDetector, w)
  BY <1>1, <1>2, <1>3 DEF Follows, Threshold
<1> QED BY <1>1, <1>2, <1>4 DEF w

LEMMA TwinInitially ==
  ASSUME TwinAssumption, TwinInit
  PROVE  TwinIInv
<1>1. DetectorIInv
  <2> DEFINE w == <<0>>
  <2>1. walk = [k \in Monitored |-> w] /\ detectors = [k \in Monitored |-> NewDetector]
    BY DEF TwinInit
  <2> HIDE DEF w
  <2>2. NewDetector \in [cusum : Int, change_detected : BOOLEAN] /\ w \in Seq(Int) /\ Follows(NewDetector, w)
    BY FreshDetector DEF w
  <2> QED BY <2>1, <2>2 DEF DetectorIInv
<1>2. StoreIInv
  <2>1. IsFiniteSet({}) /\ Cardinality({}) = 0
    BY FS_EmptySet
  <2>2. Cardinality(twin_snapshots) = 0 /\ twin_snapshots = {} /\ stored = {} /\ IsFiniteSet(stored)
    BY <2>1, Zenon DEF TwinInit
  <2> QED BY <2>2 DEF StoreIInv, TwinAssumption
<1> QED BY <1>1, <1>2 DEF TwinIInv

LEMMA TwinPreserves ==
  ASSUME TwinAssumption, TwinIInv, TwinNext
  PROVE  TwinIInv'
<1>1. CASE UNCHANGED detectorVars
  <2>1. DetectorIInv'
    BY <1>1 DEF TwinIInv, DetectorIInv, detectorVars
  <2>2. StoreIInv'
    <3>1. CASE UNCHANGED storeVars
      BY <3>1 DEF TwinIInv, StoreIInv, storeVars
    <3>2. CASE ClearSnapshots
      <4>1. IsFiniteSet({}) /\ Cardinality({}) = 0
        BY FS_EmptySet
      <4>2. Cardinality(twin_snapshots') = 0 /\ twin_snapshots' = {} /\ stored' = {} /\ IsFiniteSet(stored')
        BY <3>2, <4>1, Zenon DEF ClearSnapshots
      <4> QED BY <4>2 DEF StoreIInv, TwinAssumption
    <3>3. ASSUME NEW t \in SnapshotTimes, StoreSnapshot(t) PROVE StoreIInv'
      BY <3>3, StoreStaysSound DEF TwinIInv
    <3> QED BY <1>1, <3>1, <3>2, <3>3 DEF TwinNext, StoreNext
  <2> QED BY <2>1, <2>2 DEF TwinIInv
<1>2. CASE DetectorNext /\ UNCHANGED storeVars
  <2>1. StoreIInv'
    BY <1>2 DEF TwinIInv, StoreIInv, storeVars
  <2>2. DetectorIInv'
    <3>1. CASE ClearLog
      BY <3>1 DEF ClearLog, TwinIInv, DetectorIInv
    <3>2. CASE ResetDetectors
      <4> DEFINE w == <<0>>
      <4>1. walk' = [k \in Monitored |-> w] /\ detectors' = [k \in Monitored |-> NewDetector]
        BY <3>2 DEF ResetDetectors
      <4> HIDE DEF w
      <4>2. NewDetector \in [cusum : Int, change_detected : BOOLEAN] /\ w \in Seq(Int) /\ Follows(NewDetector, w)
        BY FreshDetector DEF w
      <4> QED BY <4>1, <4>2 DEF DetectorIInv
    <3>3. ASSUME NEW k \in Monitored, NEW v \in ObservedValues, ProcessObservation(k, v)
          PROVE  DetectorIInv'
      <4> DEFINE x == Deviation(PredictedInterval[k], v)
                 d == UpdateDetector(detectors[k], x)
                 w == Append(walk[k], walk[k][Len(walk[k])] + x - MinShift)
      <4>1. x \in Int
        BY DeviationIsANumber
      <4>2. detectors' = [detectors EXCEPT ![k] = d] /\ walk' = [walk EXCEPT ![k] = w]
        BY <3>3, Zenon DEF ProcessObservation
      <4> HIDE DEF x
      <4>3. /\ d \in [cusum : Int, change_detected : BOOLEAN]
            /\ w \in Seq(Int) /\ Follows(d, w)
        BY <4>1, DetectorPreserves DEF TwinIInv
      <4> HIDE DEF d, w
      <4> QED BY <4>2, <4>3 DEF TwinIInv, DetectorIInv
    <3> QED BY <1>2, <3>1, <3>2, <3>3 DEF DetectorNext
  <2> QED BY <2>1, <2>2 DEF TwinIInv
<1> QED BY <1>1, <1>2 DEF TwinNext

\* The log and the store's history have their types.
LogIsTyped ==
  /\ divergence_log \subseteq [pair : Monitored, change_point : BOOLEAN]
  /\ stored \subseteq SnapshotTimes

LEMMA TwinStutters == TwinIInv /\ [TwinNext]_twinVars => TwinIInv'
<1>1. CASE TwinNext
  BY <1>1, TwinPreserves, TwinAssumption
<1>2. CASE UNCHANGED twinVars
  BY <1>2 DEF TwinIInv, DetectorIInv, StoreIInv, twinVars, detectorVars, storeVars
<1> QED BY <1>1, <1>2

LEMMA TwinIsTyped == TwinSpec => []TwinTypeOK
<1>1. TwinInit => TwinIInv /\ LogIsTyped
  BY TwinAssumption, TwinInitially DEF TwinInit, LogIsTyped
<1>2. LogIsTyped /\ [TwinNext]_twinVars => LogIsTyped'
  <2> SUFFICES ASSUME LogIsTyped, [TwinNext]_twinVars PROVE LogIsTyped'
    OBVIOUS
  <2>1. stored' \subseteq SnapshotTimes
    BY DEF LogIsTyped, TwinNext, StoreNext, ClearSnapshots, StoreSnapshot, twinVars, storeVars
  <2>2. ASSUME NEW k \in Monitored, NEW v \in ObservedValues, ProcessObservation(k, v)
        PROVE  divergence_log' \subseteq [pair : Monitored, change_point : BOOLEAN]
    <3> DEFINE new == UpdateDetector(detectors[k], Deviation(PredictedInterval[k], v))
               change == new.change_detected /\ ~ detectors[k].change_detected
               entry == [pair |-> k, change_point |-> change]
    <3>1. divergence_log' = divergence_log \cup (IF Distance(PredictedInterval[k], v) > 0 \/ change THEN {entry} ELSE {})
      BY <2>2, Zenon DEF ProcessObservation
    <3>2. change \in BOOLEAN
      OBVIOUS
    <3> HIDE DEF change
    <3>3. entry \in [pair : Monitored, change_point : BOOLEAN]
      BY <3>2
    <3> HIDE DEF entry
    <3> QED BY <3>1, <3>3 DEF LogIsTyped
  <2>3. ASSUME divergence_log' = {} \/ UNCHANGED divergence_log
        PROVE  divergence_log' \subseteq [pair : Monitored, change_point : BOOLEAN]
    BY <2>3 DEF LogIsTyped
  <2>4. divergence_log' \subseteq [pair : Monitored, change_point : BOOLEAN]
    BY <2>2, <2>3 DEF TwinNext, DetectorNext, ClearLog, ResetDetectors, twinVars, detectorVars
  <2> QED BY <2>1, <2>4 DEF LogIsTyped
<1>3. TwinIInv /\ LogIsTyped => TwinTypeOK
  BY DEF TwinIInv, DetectorIInv, StoreIInv, LogIsTyped, TwinTypeOK
<1> QED BY <1>1, <1>2, <1>3, TwinStutters, PTL DEF TwinSpec

\* The twin's evidence is exact: a detector of divergence.rs has marked a change if
\* and only if the deviations since its reset rose by the threshold over some stretch,
\* and the store of snapshot.rs holds the newest snapshots whatever the order they
\* came in; for any intervals of the two widths, observations and limit.
THEOREM EvidenceStaysExact == TwinSpec => []EvidenceIsExact
<1> USE TwinAssumption
<1>1. TwinInit => TwinIInv
  BY TwinInitially
<1>2. TwinIInv /\ [TwinNext]_twinVars => TwinIInv'
  BY TwinStutters
<1>3. TwinIInv => EvidenceIsExact
  BY StoreHoldsTheNewest DEF TwinIInv, EvidenceIsExact, DetectorIInv, Follows, CusumIsExact
<1> QED BY <1>1, <1>2, <1>3, PTL DEF TwinSpec

----------------------------------------------------------------------------
(* The queue of acquisitions *)

Count(s, R, P) == Cardinality({i \in R : s[i] \in P})

\* A selection of a sequence's places holds as many of a kind as the places do.
LEMMA PlacesCount ==
  ASSUME NEW m \in Nat, NEW n \in Nat, NEW r, NEW s, NEW pos, NEW R \in SUBSET (1..n),
         Places(pos, r, m, s, n, R), NEW P
  PROVE  Count(r, 1..m, P) = Count(s, R, P) /\ Count(r, 1..m, P) \in Nat
<1> DEFINE A == {j \in 1..m : r[j] \in P}
           B == {i \in R : s[i] \in P}
           f == [j \in A |-> pos[j]]
<1>1. /\ pos \in [1..m -> 1..n] /\ \A i, j \in 1..m : i < j => pos[i] < pos[j]
      /\ \A j \in 1..m : r[j] = s[pos[j]] /\ pos[j] \in R
      /\ \A i \in R : \E j \in 1..m : pos[j] = i
  BY DEF Places
<1>2. \A j \in 1..m : pos[j] \in Nat
  BY <1>1
<1>3. \A i, j \in 1..m : pos[i] = pos[j] => i = j
  <2> SUFFICES ASSUME NEW i \in 1..m, NEW j \in 1..m, pos[i] = pos[j], i # j PROVE FALSE
    OBVIOUS
  <2>1. i < j \/ j < i
    OBVIOUS
  <2> QED BY <1>1, <1>2, <2>1
<1>4. f \in [A -> B]
  BY <1>1
<1>5. \A i, j \in A : f[i] = f[j] => i = j
  BY <1>3
<1>6. \A i \in B : \E j \in A : f[j] = i
  BY <1>1
<1>7. f \in Bijection(A, B)
  <2> HIDE DEF f, A, B
  <2> QED BY <1>4, <1>5, <1>6 DEF Bijection, Injection, Surjection, IsInjective
<1>8. IsFiniteSet(A) /\ Cardinality(A) \in Nat
  <2>1. IsFiniteSet(1..m) /\ A \in SUBSET (1..m)
    BY FS_Interval
  <2> HIDE DEF A
  <2> QED BY <2>1, FS_Subset, FS_CardinalityType
<1> HIDE DEF A, B, f
<1>9. Cardinality(B) = Cardinality(A)
  BY <1>7, <1>8, FS_Bijection DEF ExistsBijection
<1> QED BY <1>8, <1>9 DEF A, B, Count

\* A sequence with one more or one less.
LEMMA AppendCounts ==
  ASSUME NEW S, NEW s \in Seq(S), NEW x \in S, NEW P
  PROVE  /\ Count(s, DOMAIN s, P) \in Nat
         /\ Count(Append(s, x), DOMAIN Append(s, x), P) = Count(s, DOMAIN s, P) + (IF x \in P THEN 1 ELSE 0)
<1> DEFINE n == Len(s)
           A == {i \in 1..n : s[i] \in P}
           t == Append(s, x)
           B == {i \in 1..(n + 1) : t[i] \in P}
<1>1. n \in Nat /\ DOMAIN s = 1..n /\ DOMAIN t = 1..(n + 1) /\ t[n + 1] = x /\ \A i \in 1..n : t[i] = s[i]
  OBVIOUS
<1> HIDE DEF n, t
<1>2. B = IF x \in P THEN A \cup {n + 1} ELSE A
  <2>1. 1..(n + 1) = (1..n) \cup {n + 1}
    BY <1>1
  <2> QED BY <1>1, <2>1
<1>3. IsFiniteSet(A) /\ Cardinality(A) \in Nat
  <2>1. IsFiniteSet(1..n) /\ A \in SUBSET (1..n)
    BY <1>1, FS_Interval
  <2> HIDE DEF A
  <2> QED BY <2>1, FS_Subset, FS_CardinalityType
<1>4. n + 1 \notin A
  BY <1>1
<1> HIDE DEF A, B
<1>5. Cardinality(A \cup {n + 1}) = Cardinality(A) + 1
  BY <1>3, <1>4, FS_AddElement
<1>6. Cardinality(B) = Cardinality(A) + (IF x \in P THEN 1 ELSE 0)
  BY <1>2, <1>3, <1>5
<1> QED BY <1>1, <1>3, <1>6 DEF A, B, t, Count

\* RemoveAt() keeps all other elements in their order.
LEMMA RemovePlaces ==
  ASSUME NEW S, NEW s \in Seq(S), NEW i \in DOMAIN s
  PROVE  /\ RemoveAt(s, i) \in Seq(S)
         /\ \E pos : Places(pos, RemoveAt(s, i), Len(RemoveAt(s, i)), s, Len(s), (1..Len(s)) \ {i})
<1> DEFINE n == Len(s)
           a == SubSeq(s, 1, i - 1)
           b == SubSeq(s, i + 1, n)
           r == a \o b
           pos == [j \in 1..(n - 1) |-> IF j < i THEN j ELSE j + 1]
<1>1. n \in Nat /\ i \in 1..n /\ DOMAIN s = 1..n
  OBVIOUS
<1>2. RemoveAt(s, i) = r
  BY DEF RemoveAt
<1>3. a \in Seq(S) /\ Len(a) = i - 1 /\ \A j \in 1..(i - 1) : a[j] = s[j]
  OBVIOUS
<1>4. b \in Seq(S) /\ Len(b) = n - i /\ \A j \in 1..(n - i) : b[j] = s[i + j]
  OBVIOUS
<1> HIDE DEF a, b, n
<1>5. r \in Seq(S) /\ Len(r) = n - 1
  <2>1. r \in Seq(S)
    BY <1>3, <1>4, Concatenated
  <2>2. Len(r) = Len(a) + Len(b)
    BY <1>3, <1>4, Concatenated
  <2> QED BY <1>1, <1>3, <1>4, <2>1, <2>2
<1>6. ASSUME NEW j \in 1..(n - 1) PROVE r[j] = s[pos[j]]
  <2>1. CASE j < i
    <3>1. j \in 1..(i - 1) /\ j \in 1..Len(a)
      BY <1>1, <1>3, <2>1
    <3>2. r[j] = a[j]
      BY <1>3, <1>4, <3>1
    <3> QED BY <1>3, <2>1, <3>1, <3>2
  <2>2. CASE ~ (j < i)
    <3>1. j - (i - 1) \in 1..(n - i) /\ j \in (Len(a) + 1)..(Len(a) + Len(b)) /\ j - Len(a) = j - (i - 1)
      BY <1>1, <1>3, <1>4, <2>2
    <3>2. r[j] = b[j - (i - 1)]
      BY <1>3, <1>4, <3>1
    <3>3. i + (j - (i - 1)) = j + 1
      BY <1>1
    <3> QED BY <1>4, <2>2, <3>1, <3>2, <3>3
  <2> QED BY <2>1, <2>2
<1>7. pos \in [1..(n - 1) -> 1..n] /\ \A j, k \in 1..(n - 1) : j < k => pos[j] < pos[k]
  BY <1>1
<1>8. \A j \in 1..(n - 1) : pos[j] \in (1..n) \ {i}
  BY <1>1
<1>9. ASSUME NEW k \in (1..n) \ {i} PROVE \E j \in 1..(n - 1) : pos[j] = k
  <2>1. CASE k < i
    <3>1. k \in 1..(n - 1) /\ pos[k] = k
      BY <1>1, <2>1
    <3> QED BY <3>1
  <2>2. CASE ~ (k < i)
    <3>1. k - 1 \in 1..(n - 1) /\ pos[k - 1] = k
      BY <1>1, <2>2
    <3> QED BY <3>1
  <2> QED BY <2>1, <2>2
<1> HIDE DEF pos, r
<1>10. Places(pos, r, Len(r), s, n, (1..n) \ {i})
  BY <1>5, <1>6, <1>7, <1>8, <1>9 DEF Places
<1> QED BY <1>2, <1>5, <1>10 DEF n

\* schedule_next() takes one entry out of the heap,
LEMMA RemoveCounts ==
  ASSUME NEW S, NEW s \in Seq(S), NEW i \in DOMAIN s, NEW P
  PROVE  /\ RemoveAt(s, i) \in Seq(S)
         /\ Count(RemoveAt(s, i), DOMAIN RemoveAt(s, i), P)
              = Count(s, DOMAIN s, P) - (IF s[i] \in P THEN 1 ELSE 0)
<1> DEFINE r == RemoveAt(s, i)
           n == Len(s)
           R == (1..n) \ {i}
           A == {j \in 1..n : s[j] \in P}
           B == {j \in R : s[j] \in P}
<1>1. PICK pos : Places(pos, r, Len(r), s, n, R)
  BY RemovePlaces
<1>2. r \in Seq(S)
  BY RemovePlaces
<1> HIDE DEF r
<1>3. n \in Nat /\ DOMAIN s = 1..n /\ Len(r) \in Nat /\ DOMAIN r = 1..Len(r) /\ R \in SUBSET (1..n)
  BY <1>2
<1> HIDE DEF n
<1>4. Count(r, 1..Len(r), P) = Count(s, R, P)
  <2> HIDE DEF R
  <2> QED BY <1>1, <1>3, PlacesCount
<1>5. B = A \ {i}
  OBVIOUS
<1>6. IsFiniteSet(A) /\ Cardinality(A) \in Nat
  <2>1. IsFiniteSet(1..n) /\ A \in SUBSET (1..n)
    BY <1>3, FS_Interval
  <2> HIDE DEF A
  <2> QED BY <2>1, FS_Subset, FS_CardinalityType
<1>7. i \in A <=> s[i] \in P
  BY <1>3
<1> HIDE DEF A, B
<1>8. Cardinality(A \ {i}) = IF i \in A THEN Cardinality(A) - 1 ELSE Cardinality(A)
  BY <1>6, FS_RemoveElement
<1>9. Cardinality(B) = Cardinality(A) - (IF s[i] \in P THEN 1 ELSE 0)
  BY <1>5, <1>6, <1>7, <1>8
<1>10. Count(s, R, P) = Cardinality(B) /\ Count(s, 1..n, P) = Cardinality(A)
  BY DEF A, B, Count
<1> HIDE DEF R
<1> QED BY <1>2, <1>3, <1>4, <1>9, <1>10 DEF r

\* and cancel() those of one plan; neither touches another.
LEMMA FilterCounts ==
  ASSUME NEW S, NEW s \in Seq(S), NEW T, NEW P
  PROVE  /\ Keep(s, T) \in Seq(S)
         /\ Count(Keep(s, T), DOMAIN Keep(s, T), P) = Cardinality({i \in DOMAIN s : s[i] \in T /\ s[i] \in P})
<1> DEFINE r == Keep(s, T)
           n == Len(s)
           R == {i \in 1..n : s[i] \in T}
<1>1. n \in Nat /\ DOMAIN s = 1..n /\ R \in SUBSET (1..n) /\ R = {i \in DOMAIN s : s[i] \in T}
  OBVIOUS
<1>2. r = Filter(s, T)
  BY DEF Keep, Filter, FoldLeft, MapThenFoldSet
<1> HIDE DEF r
<1>3. r \in Seq(S) /\ \E pos : Places(pos, r, Len(r), s, n, R)
  BY <1>1, <1>2, FilterPlaces
<1>4. PICK pos : Places(pos, r, Len(r), s, n, R)
  BY <1>3
<1>5. Len(r) \in Nat /\ DOMAIN r = 1..Len(r)
  BY <1>3
<1>6. Count(r, 1..Len(r), P) = Count(s, R, P)
  <2> HIDE DEF R, n
  <2> QED BY <1>1, <1>4, <1>5, PlacesCount
<1>7. Count(s, R, P) = Cardinality({i \in DOMAIN s : s[i] \in T /\ s[i] \in P})
  <2>1. {i \in R : s[i] \in P} = {i \in DOMAIN s : s[i] \in T /\ s[i] \in P}
    BY <1>1
  <2> QED BY <2>1 DEF Count
<1> QED BY <1>3, <1>5, <1>6, <1>7 DEF r

\* Every request waits, was handed out or was cancelled.
QueueIInv == AcquisitionQueueTypeOK /\ EveryRequestIsAccountedFor

LEMMA CountsOfAPlan ==
  ASSUME NEW q \in Seq(Entries), NEW t \in Seq(PlanIds), NEW plan
  PROVE  /\ Cardinality({i \in DOMAIN q : q[i].plan = plan}) = Count(q, DOMAIN q, {e \in Entries : e.plan = plan})
         /\ Cardinality({i \in DOMAIN t : t[i] = plan}) = Count(t, DOMAIN t, {plan})
         /\ Cardinality({i \in DOMAIN q : q[i].plan = plan}) \in Nat
         /\ Cardinality({i \in DOMAIN t : t[i] = plan}) \in Nat
<1> DEFINE A == {i \in DOMAIN q : q[i].plan = plan}
           B == {i \in DOMAIN t : t[i] = plan}
<1>2. \A i \in DOMAIN q : q[i] \in Entries
  OBVIOUS
<1>3. A = {i \in DOMAIN q : q[i] \in {e \in Entries : e.plan = plan}}
  BY <1>2
<1>4. B = {i \in DOMAIN t : t[i] \in {plan}}
  OBVIOUS
<1>5. IsFiniteSet(DOMAIN q) /\ IsFiniteSet(DOMAIN t)
  <2>1. DOMAIN q = 1..Len(q) /\ DOMAIN t = 1..Len(t) /\ Len(q) \in Nat /\ Len(t) \in Nat
    OBVIOUS
  <2> QED BY <2>1, FS_Interval
<1>6. A \in SUBSET DOMAIN q /\ B \in SUBSET DOMAIN t
  OBVIOUS
<1>7. Cardinality(A) \in Nat /\ Cardinality(B) \in Nat
  <2> HIDE DEF A, B
  <2> QED BY <1>5, <1>6, FS_Subset, FS_CardinalityType
<1> QED BY <1>3, <1>4, <1>7 DEF Count

LEMMA WaitingIsACount ==
  ASSUME AcquisitionQueueTypeOK
  PROVE  \A plan \in PlanIds :
           /\ Waiting(plan) = Count(queue, DOMAIN queue, {e \in Entries : e.plan = plan})
           /\ HandedOut(plan) = Count(scheduled, DOMAIN scheduled, {plan})
           /\ Waiting(plan) \in Nat /\ HandedOut(plan) \in Nat
<1>1. queue \in Seq(Entries) /\ scheduled \in Seq(PlanIds)
  BY DEF AcquisitionQueueTypeOK
<1>2. ASSUME NEW plan \in PlanIds
      PROVE  /\ Waiting(plan) = Count(queue, DOMAIN queue, {e \in Entries : e.plan = plan})
             /\ HandedOut(plan) = Count(scheduled, DOMAIN scheduled, {plan})
             /\ Waiting(plan) \in Nat /\ HandedOut(plan) \in Nat
  BY <1>1, CountsOfAPlan DEF Waiting, HandedOut
<1> QED BY <1>2
LEMMA QueueInitially == AcquisitionQueueInit => QueueIInv
<1> SUFFICES ASSUME AcquisitionQueueInit PROVE QueueIInv
  OBVIOUS
<1>1. AcquisitionQueueTypeOK
  BY AcquisitionQueueAssumption DEF AcquisitionQueueInit, AcquisitionQueueTypeOK
<1>2. ASSUME NEW plan \in PlanIds PROVE calls[plan] = Waiting(plan) + HandedOut(plan) + cancelled[plan]
  <2>1. queue = <<>> /\ scheduled = <<>> /\ calls[plan] = 0 /\ cancelled[plan] = 0
    BY DEF AcquisitionQueueInit
  <2>2. {i \in DOMAIN queue : queue[i].plan = plan} = {} /\ {i \in DOMAIN scheduled : scheduled[i] = plan} = {}
    BY <2>1
  <2>3. Waiting(plan) = 0 /\ HandedOut(plan) = 0
    BY <2>2, FS_EmptySet DEF Waiting, HandedOut
  <2> QED BY <2>1, <2>3
<1> QED BY <1>1, <1>2 DEF QueueIInv, EveryRequestIsAccountedFor

LEMMA QueueKeeps ==
  ASSUME QueueIInv, NEW plan \in PlanIds, NEW priority \in AcquisitionPriorities, Queue(plan, priority)
  PROVE  QueueIInv'
<1>0. AcquisitionQueueTypeOK
  BY DEF QueueIInv
<1>1. PICK now \in {wall, wall + 1} :
        now <= MaxQueued /\ wall' = now
        /\ queue' = Append(queue, [plan |-> plan, priority |-> priority, queued_at |-> now])
  BY DEF Queue
<1> DEFINE e == [plan |-> plan, priority |-> priority, queued_at |-> now]
<1>2. now \in 0..MaxQueued /\ e \in Entries
  BY <1>0, <1>1, AcquisitionQueueAssumption DEF AcquisitionQueueTypeOK, Entries
<1>3. queue' = Append(queue, e) /\ e.plan = plan
  BY <1>1
<1> HIDE DEF e
<1>4. AcquisitionQueueTypeOK'
  BY <1>0, <1>1, <1>2, <1>3 DEF AcquisitionQueueTypeOK, Queue
<1>5. ASSUME NEW p \in PlanIds PROVE calls'[p] = Waiting(p)' + HandedOut(p)' + cancelled'[p]
  <2> DEFINE P == {f \in Entries : f.plan = p}
  <2>1. Waiting(p) = Count(queue, DOMAIN queue, P) /\ Waiting(p) \in Nat /\ HandedOut(p) \in Nat
    BY <1>0, WaitingIsACount
  <2>2. Waiting(p)' = Count(queue', DOMAIN queue', P)
    <3>1. queue' \in Seq(Entries) /\ scheduled' \in Seq(PlanIds)
      BY <1>4 DEF AcquisitionQueueTypeOK
    <3> QED BY <3>1, CountsOfAPlan DEF Waiting
  <2>3. e \in P <=> p = plan
    BY <1>2, <1>3
  <2> HIDE DEF P
  <2>4. Waiting(p)' = Waiting(p) + (IF p = plan THEN 1 ELSE 0)
    <3>1. queue \in Seq(Entries)
      BY <1>0 DEF AcquisitionQueueTypeOK
    <3>2. Count(queue', DOMAIN queue', P) = Count(queue, DOMAIN queue, P) + (IF e \in P THEN 1 ELSE 0)
      BY <1>2, <1>3, <3>1, AppendCounts
    <3> QED BY <2>1, <2>2, <2>3, <3>2
  <2>5. HandedOut(p)' = HandedOut(p) /\ cancelled' = cancelled /\ calls' = [calls EXCEPT ![plan] = @ + 1]
    BY DEF Queue, HandedOut
  <2>6. calls[p] = Waiting(p) + HandedOut(p) + cancelled[p] /\ calls \in [PlanIds -> Nat] /\ cancelled[p] \in Nat
    BY <1>0 DEF QueueIInv, EveryRequestIsAccountedFor, AcquisitionQueueTypeOK
  <2> QED BY <2>1, <2>4, <2>5, <2>6
<1> QED BY <1>4, <1>5 DEF QueueIInv, EveryRequestIsAccountedFor

LEMMA ScheduleNextKeeps ==
  ASSUME QueueIInv, ScheduleNext
  PROVE  QueueIInv'
<1>0. AcquisitionQueueTypeOK /\ queue \in Seq(Entries) /\ scheduled \in Seq(PlanIds)
  BY DEF QueueIInv, AcquisitionQueueTypeOK
<1>1. PICK i \in DOMAIN queue :
        /\ queue' = RemoveAt(queue, i) /\ scheduled' = Append(scheduled, queue[i].plan)
        /\ in_progress' = queue[i].plan /\ UNCHANGED <<wall, calls, cancelled>>
  BY DEF ScheduleNext
<1> DEFINE e == queue[i]
<1>2. e \in Entries /\ e.plan \in PlanIds
  <2>1. e \in Entries
    BY <1>0
  <2> HIDE DEF e
  <2> QED BY <2>1 DEF Entries
<1>3. RemoveAt(queue, i) \in Seq(Entries)
  BY <1>0, RemoveCounts
<1>4. AcquisitionQueueTypeOK'
  BY <1>0, <1>1, <1>2, <1>3 DEF AcquisitionQueueTypeOK
<1>5. ASSUME NEW p \in PlanIds PROVE calls'[p] = Waiting(p)' + HandedOut(p)' + cancelled'[p]
  <2> DEFINE P == {f \in Entries : f.plan = p}
  <2>1. /\ Waiting(p) = Count(queue, DOMAIN queue, P) /\ HandedOut(p) = Count(scheduled, DOMAIN scheduled, {p})
        /\ Waiting(p) \in Nat /\ HandedOut(p) \in Nat
    BY <1>0, WaitingIsACount
  <2>2. Waiting(p)' = Count(queue', DOMAIN queue', P) /\ HandedOut(p)' = Count(scheduled', DOMAIN scheduled', {p})
    <3>1. queue' \in Seq(Entries) /\ scheduled' \in Seq(PlanIds)
      BY <1>4 DEF AcquisitionQueueTypeOK
    <3> QED BY <3>1, CountsOfAPlan DEF Waiting, HandedOut
  <2>3. e \in P <=> p = e.plan
    BY <1>2
  <2> HIDE DEF P
  <2>4. Waiting(p)' = Waiting(p) - (IF p = e.plan THEN 1 ELSE 0)
    <3>1. Count(queue', DOMAIN queue', P) = Count(queue, DOMAIN queue, P) - (IF e \in P THEN 1 ELSE 0)
      BY <1>0, <1>1, RemoveCounts
    <3> QED BY <2>1, <2>2, <2>3, <3>1
  <2>5. HandedOut(p)' = HandedOut(p) + (IF p = e.plan THEN 1 ELSE 0)
    <3>1. Count(scheduled', DOMAIN scheduled', {p}) = Count(scheduled, DOMAIN scheduled, {p}) + (IF e.plan \in {p} THEN 1 ELSE 0)
      <4> DEFINE x == e.plan
      <4>1. scheduled \in Seq(PlanIds) /\ x \in PlanIds /\ scheduled' = Append(scheduled, x)
        BY <1>0, <1>1, <1>2
      <4> HIDE DEF x
      <4>2. Count(scheduled', DOMAIN scheduled', {p}) = Count(scheduled, DOMAIN scheduled, {p}) + (IF x \in {p} THEN 1 ELSE 0)
        BY <4>1, AppendCounts
      <4> QED BY <4>2 DEF x
    <3> QED BY <2>1, <2>2, <3>1
  <2>6. calls[p] = Waiting(p) + HandedOut(p) + cancelled[p] /\ cancelled[p] \in Nat
    BY <1>0 DEF QueueIInv, EveryRequestIsAccountedFor, AcquisitionQueueTypeOK
  <2>7. calls'[p] = calls[p] /\ cancelled'[p] = cancelled[p]
    BY <1>1
  <2> HIDE DEF e
  <2> QED BY <2>1, <2>4, <2>5, <2>6, <2>7
<1> QED BY <1>4, <1>5 DEF QueueIInv, EveryRequestIsAccountedFor

LEMMA CancelKeeps ==
  ASSUME QueueIInv, NEW plan \in PlanIds, CancelAcquisition(plan)
  PROVE  QueueIInv'
<1>0. AcquisitionQueueTypeOK /\ queue \in Seq(Entries)
  BY DEF QueueIInv, AcquisitionQueueTypeOK
<1> DEFINE T == {e \in Entries : e.plan # plan}
<1>1. /\ queue' = Keep(queue, T) /\ cancelled' = [cancelled EXCEPT ![plan] = calls[plan] - HandedOut(plan)]
      /\ UNCHANGED <<scheduled, in_progress, wall, calls>>
  BY DEF CancelAcquisition, CancelsAll
<1>2. Keep(queue, T) \in Seq(Entries)
  BY <1>0, FilterCounts
<1>3. \A p \in PlanIds : /\ calls[p] = Waiting(p) + HandedOut(p) + cancelled[p] /\ calls[p] \in Nat /\ cancelled[p] \in Nat
                         /\ Waiting(p) \in Nat /\ HandedOut(p) \in Nat
  BY <1>0, WaitingIsACount DEF QueueIInv, EveryRequestIsAccountedFor, AcquisitionQueueTypeOK
<1>4. calls[plan] - HandedOut(plan) \in Nat
  BY <1>3
<1>5. AcquisitionQueueTypeOK'
  BY <1>0, <1>1, <1>2, <1>4 DEF AcquisitionQueueTypeOK
<1>6. ASSUME NEW p \in PlanIds PROVE calls'[p] = Waiting(p)' + HandedOut(p)' + cancelled'[p]
  <2> DEFINE P == {f \in Entries : f.plan = p}
  <2>1. Waiting(p)' = Count(queue', DOMAIN queue', P)
    <3>1. queue' \in Seq(Entries) /\ scheduled' \in Seq(PlanIds)
      BY <1>5 DEF AcquisitionQueueTypeOK
    <3> QED BY <3>1, CountsOfAPlan DEF Waiting
  <2>2. Count(queue', DOMAIN queue', P) = Cardinality({i \in DOMAIN queue : queue[i] \in T /\ queue[i] \in P})
    <3> HIDE DEF T, P
    <3> QED BY <1>0, <1>1, FilterCounts
  <2>3. \A i \in DOMAIN queue : queue[i] \in Entries
    BY <1>0
  <2>4. {i \in DOMAIN queue : queue[i] \in T /\ queue[i] \in P}
          = IF p = plan THEN {} ELSE {i \in DOMAIN queue : queue[i].plan = p}
    BY <2>3
  <2>5. Waiting(p)' = IF p = plan THEN 0 ELSE Waiting(p)
    <3> HIDE DEF T, P
    <3> QED BY <2>1, <2>2, <2>4, FS_EmptySet DEF Waiting
  <2>6. HandedOut(p)' = HandedOut(p) /\ calls' = calls
    BY <1>1 DEF HandedOut
  <2>7. cancelled \in [PlanIds -> Nat]
    BY <1>0 DEF AcquisitionQueueTypeOK
  <2>8. CASE p = plan
    <3>1. cancelled'[p] = calls[p] - HandedOut(p)
      BY <1>1, <2>7, <2>8
    <3> QED BY <1>3, <2>5, <2>6, <2>8, <3>1
  <2>9. CASE p # plan
    <3>1. cancelled'[p] = cancelled[p]
      BY <1>1, <2>7, <2>9
    <3> QED BY <1>3, <2>5, <2>6, <2>9, <3>1
  <2> QED BY <2>8, <2>9
<1> QED BY <1>5, <1>6 DEF QueueIInv, EveryRequestIsAccountedFor

LEMMA QueuePreserves == ASSUME QueueIInv, [AcquisitionQueueNext]_schedulerQueueVars PROVE QueueIInv'
<1>1. ASSUME NEW plan \in PlanIds, CompleteAcquisition(plan) PROVE QueueIInv'
  BY <1>1 DEF CompleteAcquisition, QueueIInv, AcquisitionQueueTypeOK, EveryRequestIsAccountedFor, Waiting, HandedOut
<1>2. CASE UNCHANGED schedulerQueueVars
  BY <1>2 DEF schedulerQueueVars, QueueIInv, AcquisitionQueueTypeOK, EveryRequestIsAccountedFor, Waiting, HandedOut
<1> QED BY <1>1, <1>2, QueueKeeps, ScheduleNextKeeps, CancelKeeps DEF AcquisitionQueueNext

----------------------------------------------------------------------------
(* Pointing *)

\* The sums of the first elements.
PartialSums(h, s, n) ==
  h \in [0..n -> Int] /\ h[0] = 0 /\ \A k \in 1..n : h[k] = h[k - 1] + s[k]

\* A total, summand by summand.
LEMMA TotalIsSum ==
  ASSUME NEW n \in Nat, NEW s \in [1..n -> Int]
  PROVE  \E h : PartialSums(h, s, n) /\ Total(s) = h[n]
<1> DEFINE Solves(g) == g = [t \in SUBSET (1..n) |-> IF t = {} THEN 0 ELSE g[t \ {Max(t)}] + s[Max(t)]]
           f == CHOOSE g : Solves(g)
           step == [k \in 1..n |-> [v \in Int |-> v + s[k]]]
<1>1. DOMAIN s = 1..n /\ \A k \in 1..n : s[k] \in Int
  OBVIOUS
<1>2. Total(s) = f[1..n]
  BY <1>1 DEF Total, FoldLeft, MapThenFoldSet
<1>3. step \in FoldSteps(n, Int)
  BY <1>1 DEF FoldSteps
<1>4. PICK e : Folds(e, n, Int, 0, step)
  <2> HIDE DEF step
  <2>1. 0 \in Int
    OBVIOUS
  <2> QED BY <1>1, <1>3, <2>1, FoldExists, Zenon
<1>5. Solves(e)
  BY <1>1, <1>4, TopIsThere DEF Folds
<1> HIDE DEF step
<1>6. Solves(f)
  <2> HIDE DEF Solves
  <2> QED BY <1>5, Zenon
<1> DEFINE h == [k \in 0..n |-> f[1..k]]
<1> HIDE DEF f
<1>7. h[0] = 0
  BY <1>1, <1>6
<1>8. ASSUME NEW k \in 1..n PROVE h[k] = h[k - 1] + s[k]
  <2>1. /\ Max(1..k) = k /\ (1..k) \ {k} = 1..(k - 1)
        /\ 1..k \in SUBSET (1..n) /\ 1..k # {} /\ k \in 0..n /\ k - 1 \in 0..n
    BY <1>1, IntervalTop
  <2>2. f[1..k] = f[(1..k) \ {Max(1..k)}] + s[Max(1..k)]
    BY <1>6, <2>1
  <2> QED BY <2>1, <2>2
<1> DEFINE S == {k \in 0..n : h[k] \in Int}
<1>9. 0 \in S
  BY <1>1, <1>7
<1>10. ASSUME NEW k \in 1..n, k - 1 \in S PROVE k \in S
  <2> HIDE DEF h
  <2>1. h[k - 1] \in Int /\ s[k] \in Int /\ k \in 0..n
    BY <1>1, <1>10
  <2> QED BY <1>8, <2>1
<1> HIDE DEF S
<1>11. \A k \in 0..n : k \in S
  BY <1>1, <1>9, <1>10, UpTo
<1>12. h \in [0..n -> Int]
  BY <1>11 DEF S
<1>13. h[n] = f[1..n]
  BY <1>1
<1> HIDE DEF h
<1>14. PartialSums(h, s, n)
  BY <1>7, <1>8, <1>12 DEF PartialSums
<1> QED BY <1>2, <1>13, <1>14

\* Larger elements have the larger sum.
LEMMA TotalsKeepOrder ==
  ASSUME NEW n \in Nat, NEW s \in [1..n -> Int], NEW t \in [1..n -> Int], \A i \in 1..n : s[i] <= t[i]
  PROVE  Total(s) \in Int /\ Total(t) \in Int /\ Total(s) <= Total(t)
<1>1. PICK g : PartialSums(g, s, n) /\ Total(s) = g[n]
  BY TotalIsSum
<1>2. PICK h : PartialSums(h, t, n) /\ Total(t) = h[n]
  BY TotalIsSum
<1> DEFINE S == {k \in 0..n : g[k] <= h[k]}
<1>3. 0 \in S
  BY <1>1, <1>2 DEF PartialSums
<1>4. ASSUME NEW k \in 1..n, k - 1 \in S PROVE k \in S
  <2>1. /\ g[k] = g[k - 1] + s[k] /\ h[k] = h[k - 1] + t[k] /\ g[k - 1] <= h[k - 1]
        /\ k \in 0..n /\ k - 1 \in 0..n /\ s[k] <= t[k]
    BY <1>1, <1>2, <1>4 DEF PartialSums
  <2>2. g[k - 1] \in Int /\ h[k - 1] \in Int /\ s[k] \in Int /\ t[k] \in Int
    BY <1>1, <1>2, <2>1 DEF PartialSums
  <2> QED BY <2>1, <2>2
<1> HIDE DEF S
<1>5. \A k \in 0..n : k \in S
  BY <1>3, <1>4, UpTo
<1>6. g[n] <= h[n] /\ g[n] \in Int /\ h[n] \in Int
  BY <1>1, <1>2, <1>5 DEF S, PartialSums
<1> QED BY <1>1, <1>2, <1>6

\* The mean of equal measurements is the measurement.
LEMMA TotalOfEquals ==
  ASSUME NEW n \in Nat, NEW c \in Int
  PROVE  Total([i \in 1..n |-> c]) = n * c
<1> DEFINE s == [i \in 1..n |-> c]
<1>1. s \in [1..n -> Int] /\ \A k \in 1..n : s[k] = c
  OBVIOUS
<1> HIDE DEF s
<1>2. PICK h : PartialSums(h, s, n) /\ Total(s) = h[n]
  BY <1>1, TotalIsSum
<1> DEFINE S == {k \in 0..n : h[k] = k * c}
<1>3. 0 \in S
  BY <1>2 DEF PartialSums
<1>4. ASSUME NEW k \in 1..n, k - 1 \in S PROVE k \in S
  <2>1. h[k] = h[k - 1] + c /\ h[k - 1] = (k - 1) * c
    BY <1>1, <1>2, <1>4 DEF PartialSums
  <2>2. (k - 1) * c + c = k * c /\ k \in 0..n
    OBVIOUS
  <2> QED BY <2>1, <2>2
<1> HIDE DEF S
<1>5. \A k \in 0..n : k \in S
  BY <1>3, <1>4, UpTo
<1>6. h[n] = n * c
  BY <1>5 DEF S
<1> QED BY <1>2, <1>6 DEF s

\* What is more than three deviations above the mean is more than thirty above
\* some element: the deviation counts as ten at least.
LEMMA OutlierIsFar ==
  ASSUME NEW h \in Seq(Observations), NEW r \in Residuals, IsOutlier(h, r)
  PROVE  \E i \in DOMAIN h : r - h[i].residual > 30
<1> DEFINE n == Len(h)
           res == [i \in DOMAIN h |-> h[i].residual]
           sqs == [i \in DOMAIN h |-> h[i].residual * h[i].residual]
           sum == Total(res)
           squares == Total(sqs)
           low == [i \in 1..n |-> r - 30]
           a == n * squares - sum * sum
           b == 100 * n * n
<1> SUFFICES ASSUME \A i \in DOMAIN h : ~ (r - h[i].residual > 30) PROVE FALSE
  OBVIOUS
<1>1. n \in Nat /\ DOMAIN h = 1..n /\ r \in Nat
  BY PointingAssumption
<1>2. \A i \in 1..n : h[i].residual \in Nat
  <2>1. \A i \in 1..n : h[i] \in Observations
    BY <1>1
  <2>2. \A i \in 1..n : h[i].residual \in Residuals
    BY <2>1 DEF Observations
  <2> QED BY <2>2, PointingAssumption
<1>3. r * n > sum /\ (r * n - sum) * (r * n - sum) > 9 * Max({a, b})
  BY DEF IsOutlier
<1>4. res \in [1..n -> Int] /\ sqs \in [1..n -> Int] /\ low \in [1..n -> Int] /\ \A i \in 1..n : low[i] <= res[i]
  <2> HIDE DEF n
  <2>1. \A i \in 1..n : h[i].residual * h[i].residual \in Int
    BY <1>2
  <2>2. ASSUME NEW i \in 1..n PROVE r - 30 <= h[i].residual /\ r - 30 \in Int
    <3> DEFINE x == h[i].residual
    <3>1. x \in Nat /\ ~ (r - x > 30)
      BY <1>1, <1>2
    <3> HIDE DEF x
    <3>2. r - 30 <= x /\ r - 30 \in Int
      BY <1>1, <3>1
    <3> QED BY <3>2 DEF x
  <2> QED BY <1>1, <1>2, <2>1, <2>2
<1> HIDE DEF n, res, sqs
<1>5. sum \in Int /\ squares \in Int /\ Total(low) <= sum /\ Total(low) \in Int
  <2>1. \A i \in 1..n : sqs[i] <= sqs[i]
    BY <1>4
  <2> HIDE DEF low
  <2> QED BY <1>1, <1>4, <2>1, TotalsKeepOrder
<1>6. Total(low) = n * (r - 30)
  <2> DEFINE c == r - 30
  <2>1. c \in Int
    BY <1>1
  <2> HIDE DEF c
  <2>2. Total([i \in 1..n |-> c]) = n * c
    BY <1>1, <2>1, TotalOfEquals
  <2> QED BY <2>2 DEF c
<1> HIDE DEF sum, squares, low
<1>7. a \in Int /\ b \in Int
  BY <1>1, <1>5
<1> HIDE DEF a
<1>8. Max({a, b}) >= b /\ Max({a, b}) \in Int
  <2> HIDE DEF b
  <2>1. CASE a <= b
    <3>1. b \in {a, b} /\ \A y \in {a, b} : b >= y
      BY <1>7, <2>1
    <3> QED BY <1>7, <3>1, MaxIsOne
  <2>2. CASE ~ (a <= b)
    <3>1. a \in {a, b} /\ \A y \in {a, b} : a >= y
      BY <1>7, <2>2
    <3> QED BY <1>7, <3>1, MaxIsOne
  <2> QED BY <2>1, <2>2
<1> DEFINE d == r * n - sum
<1>9. d \in Nat /\ d <= 30 * n
  <2>1. n * (r - 30) = r * n - 30 * n /\ r * n \in Int /\ 30 * n \in Int
    BY <1>1
  <2> DEFINE u == r * n
             v == 30 * n
             w == Total(low)
  <2>2. w = u - v /\ w <= sum /\ u > sum /\ u \in Int /\ v \in Int /\ sum \in Int
    BY <1>3, <1>5, <1>6, <2>1
  <2> HIDE DEF u, v, w
  <2>3. u - sum \in Nat /\ u - sum <= v
    BY <2>2
  <2> QED BY <2>3 DEF u, v
<1>10. d * d > 9 * Max({a, b})
  BY <1>3
<1> HIDE DEF d
<1>11. d * d <= (30 * n) * d /\ d * (30 * n) <= (30 * n) * (30 * n)
  <2>1. 30 * n \in Nat
    BY <1>1
  <2> DEFINE v == 30 * n
  <2>2. v \in Nat /\ d <= v
    BY <1>9, <2>1
  <2> HIDE DEF v
  <2>3. d * d <= v * d /\ d * v <= v * v
    BY <1>9, <2>2, ProductsKeepOrder
  <2> QED BY <2>3 DEF v
<1>12. d * (30 * n) = (30 * n) * d /\ d * d \in Int /\ d * (30 * n) \in Int /\ (30 * n) * (30 * n) = 9 * b
  BY <1>1, <1>9
<1>13. 9 * b \in Int /\ 9 * b <= 9 * Max({a, b})
  BY <1>7, <1>8
<1> DEFINE dd == d * d
           x == d * (30 * n)
           m == Max({a, b})
<1> HIDE DEF b
<1>14. dd <= x /\ x <= 9 * b /\ 9 * b <= 9 * m /\ dd > 9 * m /\ dd \in Int /\ x \in Int /\ m \in Int /\ b \in Int
  BY <1>7, <1>8, <1>10, <1>11, <1>12, <1>13
<1> HIDE DEF dd, x, m
<1> QED BY <1>14
\* A correction in use is no older than what it was computed from allows.
PointingIInv ==
  /\ PointingTypeOK
  /\ correction.age < MaxAge => correction.basis <= Window + correction.age
  /\ SmallDriftIsAccepted

AgeLimit == Max(Delays \cup {TargetInterval})

\* No observation is older than the limit when it is recorded.
LEMMA AgeLimitBounds == AgeLimit \in Nat /\ \A d \in Delays : d <= AgeLimit
<1> DEFINE S == Delays \cup {TargetInterval}
           b == Window + 1 + TargetInterval
<1>1. b \in Nat /\ S \in SUBSET (0..b) /\ S # {}
  BY PointingAssumption
<1> HIDE DEF S, b
<1>2. Max(S) \in S /\ \A x \in S : x <= Max(S)
  BY <1>1, MaxIsGreatest
<1>3. AgeLimit = Max(S) /\ Delays \subseteq S
  BY DEF AgeLimit, S
<1>4. Max(S) \in 0..b
  BY <1>1, <1>2
<1>5. AgeLimit \in Nat
  BY <1>1, <1>3, <1>4
<1> QED BY <1>2, <1>3, <1>5

Corrections == [confidence : 0..5, age : 0..MaxAge, basis : 0..(OldAge + MaxAge)]

\* recompute_correction() uses what is in the window, or keeps the correction it had.
LEMMA RecomputedIsRecent ==
  ASSUME NEW h \in Seq(Observations), correction \in Corrections,
         correction.age < MaxAge => correction.basis <= Window + correction.age
  PROVE  /\ Recomputed(h) \in Corrections
         /\ Recomputed(h).age < MaxAge => Recomputed(h).basis <= Window + Recomputed(h).age
<1> DEFINE recent == InWindow(h)
           ages == {h[i].age : i \in recent}
           n == Len(h)
<1>1. n \in Nat /\ DOMAIN h = 1..n
  OBVIOUS
<1>2. \A i \in recent : i \in 1..n /\ h[i].age \in 0..Window
  <2>1. \A i \in 1..n : h[i] \in Observations
    BY <1>1
  <2>2. \A i \in 1..n : h[i].age \in 0..OldAge
    BY <2>1 DEF Observations
  <2> QED BY <1>1, <2>2, PointingAssumption DEF InWindow, OldAge
<1>3. recent \in SUBSET (1..n)
  BY <1>2
<1>4. CASE recent = {}
  <2>1. Recomputed(h) = [correction EXCEPT !.confidence = 0]
    BY <1>4 DEF Recomputed
  <2> QED BY <2>1 DEF Corrections
<1>5. CASE recent # {} /\ \E i \in recent : h[i].quality > 0
  <2> DEFINE c == Cardinality(recent)
             m == Min({c, 5})
             x == Max(ages)
  <2>1. Recomputed(h) = [confidence |-> m, age |-> 0, basis |-> x]
    BY <1>5 DEF Recomputed
  <2>2. ages \in SUBSET (0..Window) /\ ages # {}
    BY <1>2, <1>5
  <2>3. c \in Nat
    <3> HIDE DEF recent, n
    <3>1. IsFiniteSet(1..n)
      BY <1>1, FS_Interval
    <3> QED BY <1>3, <3>1, FS_Subset, FS_CardinalityType
  <2> HIDE DEF c, ages
  <2>4. m \in 0..5
    <3>1. {c, 5} \in SUBSET Nat /\ {c, 5} # {} /\ 5 \in {c, 5}
      BY <2>3
    <3>2. m \in {c, 5} /\ m <= 5
      BY <3>1, MinIsLeast
    <3> QED BY <2>3, <3>2
  <2>5. x \in 0..Window
    <3>1. Window \in Nat
      BY PointingAssumption
    <3>2. x \in ages
      BY <2>2, <3>1, MaxIsGreatest
    <3> QED BY <2>2, <3>2
  <2> HIDE DEF m, x
  <2>6. x \in 0..(OldAge + MaxAge) /\ 0 \in 0..MaxAge /\ x <= Window + 0
    BY <2>5, PointingAssumption DEF OldAge
  <2> QED BY <2>1, <2>4, <2>6 DEF Corrections
<1>6. CASE recent # {} /\ ~ \E i \in recent : h[i].quality > 0
  BY <1>6 DEF Recomputed
<1> QED BY <1>4, <1>5, <1>6

LEMMA PointingInitially == PointingInit => PointingIInv
<1> SUFFICES ASSUME PointingInit PROVE PointingIInv
  OBVIOUS
<1>1. PointingTypeOK
  BY PointingAssumption DEF PointingInit, PointingTypeOK, OldAge
<1> QED BY <1>1, PointingAssumption DEF PointingInit, PointingIInv, SmallDriftIsAccepted

LEMMA TickKeepsPointing == ASSUME PointingIInv, PointingTick PROVE PointingIInv'
<1>1. /\ history \in Seq(Observations) /\ Len(history) <= max_history /\ correction \in Corrections
      /\ last_age \in {Never} \cup 0..AgeLimit /\ rejected \in {Never} \cup Residuals
      /\ SmallDriftIsAccepted /\ (correction.age < MaxAge => correction.basis <= Window + correction.age)
  BY DEF PointingIInv, PointingTypeOK, Corrections, AgeLimit
<1> DEFINE n == Len(history)
           Aged(o) == [o EXCEPT !.age = Older(@, OldAge)]
<1>2. n \in Nat /\ DOMAIN history = 1..n /\ \A i \in 1..n : history[i] \in Observations
  BY <1>1
<1>3. \A o \in Observations : Aged(o) \in Observations /\ Aged(o).residual = o.residual
  BY PointingAssumption DEF Observations, Older, OldAge
<1>4. history' = [i \in 1..n |-> Aged(history[i])]
  BY <1>2 DEF PointingTick
<1> HIDE DEF n, Aged
<1>5. history' \in Seq(Observations) /\ Len(history') = n /\ DOMAIN history' = 1..n
  BY <1>2, <1>3, <1>4
<1>6. correction' = [correction EXCEPT !.age = Older(@, MaxAge), !.basis = Older(@, OldAge + MaxAge)]
  BY DEF PointingTick
<1>7. correction' \in Corrections /\ (correction'.age < MaxAge => correction'.basis <= Window + correction'.age)
  <2> DEFINE a == correction.age
             b == correction.basis
             c == correction.confidence
  <2>1. a \in 0..MaxAge /\ b \in 0..(OldAge + MaxAge) /\ c \in 0..5
    BY <1>1 DEF Corrections
  <2>2. correction' = [confidence |-> c, age |-> Older(a, MaxAge), basis |-> Older(b, OldAge + MaxAge)]
    BY <1>1, <1>6 DEF Corrections
  <2>3. a < MaxAge => b <= Window + a
    BY <1>1
  <2> HIDE DEF a, b, c
  <2>4. Older(a, MaxAge) \in 0..MaxAge /\ Older(b, OldAge + MaxAge) \in 0..(OldAge + MaxAge)
    BY <2>1, PointingAssumption DEF Older, OldAge
  <2>5. Older(a, MaxAge) < MaxAge => Older(b, OldAge + MaxAge) <= Window + Older(a, MaxAge)
    BY <2>1, <2>3, PointingAssumption DEF Older, OldAge
  <2> QED BY <2>2, <2>4, <2>5, <2>1 DEF Corrections
<1>8. last_age' \in {Never} \cup 0..AgeLimit
  <2>1. last_age' = IF last_age = Never THEN Never ELSE Older(last_age, AgeLimit)
    BY DEF PointingTick, AgeLimit
  <2>2. AgeLimit \in Nat
    BY AgeLimitBounds
  <2> QED BY <1>1, <2>1, <2>2 DEF Older, Never
<1>9. rejected' = rejected
  BY DEF PointingTick
<1>10. SmallDriftIsAccepted'
  <2> SUFFICES ASSUME rejected # Never PROVE \E i \in DOMAIN history' : rejected - history'[i].residual > 30
    BY <1>9 DEF SmallDriftIsAccepted
  <2>1. PICK i \in 1..n : rejected - history[i].residual > 30
    BY <1>1, <1>2 DEF SmallDriftIsAccepted
  <2>2. history'[i].residual = history[i].residual
    BY <1>2, <1>3, <1>4
  <2> QED BY <1>5, <2>1, <2>2
<1> QED BY <1>1, <1>5, <1>7, <1>8, <1>9, <1>10 DEF PointingIInv, PointingTypeOK, Corrections, AgeLimit, n

LEMMA RecordKeepsPointing ==
  ASSUME PointingIInv, NEW r \in Residuals, NEW q \in Qualities, NEW age \in Delays,
         RecordObservation([age |-> age, residual |-> r, quality |-> q])
  PROVE  PointingIInv'
<1> DEFINE obs == [age |-> age, residual |-> r, quality |-> q]
<1>1. /\ history \in Seq(Observations) /\ Len(history) <= max_history /\ correction \in Corrections
      /\ last_age \in {Never} \cup 0..AgeLimit /\ rejected \in {Never} \cup Residuals
      /\ SmallDriftIsAccepted /\ (correction.age < MaxAge => correction.basis <= Window + correction.age)
  BY DEF PointingIInv, PointingTypeOK, Corrections, AgeLimit
<1>2. obs \in Observations /\ obs.age = age /\ obs.residual = r
  BY PointingAssumption DEF Observations, OldAge
<1>3. last_age' \in {Never} \cup 0..AgeLimit
  <2>1. last_age' = age
    BY <1>2 DEF RecordObservation
  <2>2. age \in Nat /\ age <= AgeLimit /\ AgeLimit \in Nat
    BY AgeLimitBounds, PointingAssumption
  <2> QED BY <2>1, <2>2
<1>4. Update(obs)
  BY DEF RecordObservation
<1> HIDE DEF obs
<1>5. CASE Len(history) >= 3 /\ IsOutlier(history, obs.residual)
  <2>1. rejected' = r /\ history' = history /\ correction' = correction
    BY <1>2, <1>4, <1>5 DEF Update
  <2>2. \E i \in DOMAIN history : r - history[i].residual > 30
    BY <1>1, <1>2, <1>5, OutlierIsFar
  <2>3. SmallDriftIsAccepted'
    BY <2>1, <2>2 DEF SmallDriftIsAccepted
  <2> QED BY <1>1, <1>3, <2>1, <2>3 DEF PointingIInv, PointingTypeOK, Corrections, AgeLimit
<1>6. CASE ~ (Len(history) >= 3 /\ IsOutlier(history, obs.residual))
  <2> DEFINE kept == IF Len(history) >= max_history THEN Tail(history) ELSE history
  <2>1. history' = Append(kept, obs) /\ correction' = Recomputed(history') /\ rejected' = Never
    BY <1>4, <1>6 DEF Update
  <2>2. kept \in Seq(Observations) /\ Len(kept) + 1 <= max_history
    <3>1. max_history \in Nat /\ max_history >= 1
      BY PointingAssumption
    <3>2. CASE Len(history) >= max_history
      <4>1. history # <<>> /\ Tail(history) \in Seq(Observations) /\ Len(Tail(history)) = Len(history) - 1
        BY <1>1, <3>1, <3>2
      <4> QED BY <1>1, <3>1, <3>2, <4>1
    <3>3. CASE ~ (Len(history) >= max_history)
      BY <1>1, <3>1, <3>3
    <3> QED BY <3>2, <3>3
  <2> HIDE DEF kept
  <2>3. history' \in Seq(Observations) /\ Len(history') <= max_history
    BY <1>2, <2>1, <2>2
  <2>4. correction' \in Corrections /\ (correction'.age < MaxAge => correction'.basis <= Window + correction'.age)
    BY <1>1, <2>1, <2>3, RecomputedIsRecent
  <2>5. SmallDriftIsAccepted'
    BY <2>1 DEF SmallDriftIsAccepted
  <2> QED BY <1>3, <2>1, <2>3, <2>4, <2>5 DEF PointingIInv, PointingTypeOK, Corrections, AgeLimit
<1> QED BY <1>5, <1>6

LEMMA PointingPreserves == ASSUME PointingIInv, [PointingNext]_pointingVars PROVE PointingIInv'
<1>1. CASE UNCHANGED pointingVars
  BY <1>1 DEF pointingVars, PointingIInv, PointingTypeOK, SmallDriftIsAccepted
<1> QED BY <1>1, TickKeepsPointing, RecordKeepsPointing DEF PointingNext

LEMMA PointingIsSound == ASSUME PointingIInv PROVE CorrectionIsSound
<1>1. correction \in Corrections
  BY DEF PointingIInv, PointingTypeOK, Corrections
<1>2. AppliedCorrectionIsRecent
  <2> DEFINE a == correction.age
             b == correction.basis
  <2>1. a \in Nat /\ b \in Nat /\ (a < MaxAge => b <= Window + a)
    BY <1>1, PointingAssumption DEF PointingIInv, Corrections, OldAge
  <2> HIDE DEF a, b
  <2>2. a < MaxAge => b < Window + MaxAge
    BY <2>1, PointingAssumption
  <2> QED BY <2>2 DEF AppliedCorrectionIsRecent, IsOperationallyCurrent, a, b
<1> QED BY <1>2 DEF PointingIInv, CorrectionIsSound

----------------------------------------------------------------------------
(* The optical link: its phases *)

LinkReports == UNION {detect_degradation(q, <<>>) : q \in LinkQualities}

LinkPhases ==
  [is : {"Scheduled"}, acquisition_plan : LinkPlans] \cup [is : {"Acquiring"}, since : Nat]
  \cup [is : {"Established"}, since : Nat, quality : LinkQualities]
  \cup [is : {"Degrading"}, report : LinkReports]
  \cup [is : {"Failed"}, cause : LinkCauses \cup {"AcquisitionTimeout"}]

\* The last time it was established is the latest of all, and the phase agrees.
PhaseIInv ==
  /\ link_now \in 0..MaxLinkTime
  /\ link \in [phase : LinkPhases, established_at : SUBSET Nat, snapshots : SUBSET Seq(LinkPhases)]
  /\ \A s \in link.snapshots : Len(s) <= link_snapshots
  /\ established \subseteq 0..link_now
  /\ link.established_at = IF established = {} THEN {} ELSE {Max(established)}
  /\ link.phase.is = "Established" => link.established_at = {link.phase.since}

LEMMA PhaseInitially == OpticalLinkInit => PhaseIInv
<1> SUFFICES ASSUME OpticalLinkInit PROVE PhaseIInv
  OBVIOUS
<1> DEFINE p == [is |-> "Failed", cause |-> "AcquisitionTimeout"]
<1>1. p \in LinkPhases /\ p.is = "Failed"
  BY DEF LinkPhases
<1>2. link = [phase |-> p, established_at |-> {}, snapshots |-> {<<>>}] /\ established = {} /\ link_now = 0
  BY DEF OpticalLinkInit
<1> HIDE DEF p
<1>3. {} \in SUBSET Nat /\ {<<>>} \in SUBSET Seq(LinkPhases) /\ Len(<<>>) = 0
  OBVIOUS
<1>4. MaxLinkTime \in Nat /\ link_snapshots \in Nat
  BY OpticalLinkAssumption
<1> QED BY <1>1, <1>2, <1>3, <1>4 DEF PhaseIInv

\* A phase other than that of an established link leaves the times alone.
LEMMA OtherPhase ==
  ASSUME PhaseIInv, NEW p \in LinkPhases, p.is # "Established",
         link' = [link EXCEPT !.phase = p], established' = established, link_now' = link_now
  PROVE  PhaseIInv'
<1> DEFINE a == link.established_at
           s == link.snapshots
<1>1. a \in SUBSET Nat /\ s \in SUBSET Seq(LinkPhases) /\ link' = [phase |-> p, established_at |-> a, snapshots |-> s]
  BY DEF PhaseIInv
<1>2. /\ \A x \in s : Len(x) <= link_snapshots
      /\ a = IF established = {} THEN {} ELSE {Max(established)}
      /\ link_now \in 0..MaxLinkTime /\ established \subseteq 0..link_now
  BY DEF PhaseIInv
<1> HIDE DEF a, s
<1>3. link'.phase = p /\ link'.established_at = a /\ link'.snapshots = s
  BY <1>1
<1> QED BY <1>1, <1>2, <1>3 DEF PhaseIInv

LEMMA PhasePreserves ==
  ASSUME PhaseIInv, PhaseNext
  PROVE  PhaseIInv'
<1>1. link_now \in Nat /\ MaxLinkTime \in Nat /\ link_snapshots \in Nat \ {0}
  BY OpticalLinkAssumption DEF PhaseIInv
<1>2. ASSUME NEW plan \in LinkPlans, ScheduleLink(plan) PROVE PhaseIInv'
  <2>1. [is |-> "Scheduled", acquisition_plan |-> plan] \in LinkPhases
    BY DEF LinkPhases
  <2> QED BY <1>2, <2>1, OtherPhase DEF ScheduleLink, LinkCall
<1>3. CASE TransitionToAcquiring
  <2>1. [is |-> "Acquiring", since |-> link_now] \in LinkPhases
    BY <1>1 DEF LinkPhases
  <2> QED BY <1>3, <2>1, OtherPhase DEF TransitionToAcquiring, LinkCall
<1>4. ASSUME NEW q \in LinkQualities, NEW d \in detect_degradation(q, <<>>), TransitionToDegrading(d)
      PROVE  PhaseIInv'
  <2>1. d \in LinkReports
    BY DEF LinkReports
  <2>2. [is |-> "Degrading", report |-> d] \in LinkPhases
    BY <2>1 DEF LinkPhases
  <2> QED BY <1>4, <2>2, OtherPhase DEF TransitionToDegrading, LinkCall
<1>5. ASSUME NEW cause \in LinkCauses, TransitionToFailed(cause) PROVE PhaseIInv'
  <2>1. [is |-> "Failed", cause |-> cause] \in LinkPhases
    BY DEF LinkPhases
  <2> QED BY <1>5, <2>1, OtherPhase DEF TransitionToFailed, LinkCall
<1>6. ASSUME NEW q \in LinkQualities, TransitionToEstablished(q) PROVE PhaseIInv'
  <2> DEFINE p == [is |-> "Established", since |-> link_now, quality |-> q]
             s == link.snapshots
  <2>1. p \in LinkPhases /\ p.since = link_now
    BY <1>1 DEF LinkPhases
  <2>2. /\ link' = [link EXCEPT !.phase = p, !.established_at = {link_now}]
        /\ established' = established \cup {link_now} /\ link_now' = link_now
    BY <1>6 DEF TransitionToEstablished, LinkCall
  <2> HIDE DEF p
  <2>3. link' = [phase |-> p, established_at |-> {link_now}, snapshots |-> s] /\ s \in SUBSET Seq(LinkPhases)
    BY <2>2 DEF PhaseIInv
  <2>4. established' \in SUBSET (0..link_now) /\ established' # {} /\ link_now \in established'
    BY <1>1, <2>2 DEF PhaseIInv
  <2>5. Max(established') = link_now
    <3>1. Max(established') \in established' /\ \A x \in established' : x <= Max(established')
      BY <1>1, <2>4, MaxIsGreatest
    <3> DEFINE m == Max(established')
    <3>2. m \in 0..link_now /\ link_now <= m
      BY <2>4, <3>1
    <3> HIDE DEF m
    <3>3. m = link_now
      BY <1>1, <3>2
    <3> QED BY <3>3 DEF m
  <2>6. \A x \in s : Len(x) <= link_snapshots
    BY DEF PhaseIInv
  <2> HIDE DEF s
  <2>7. link'.phase = p /\ link'.established_at = {link_now} /\ link'.snapshots = s /\ {link_now} \in SUBSET Nat
    BY <1>1, <2>3
  <2> QED BY <1>1, <2>1, <2>2, <2>3, <2>4, <2>5, <2>6, <2>7 DEF PhaseIInv
<1>7. ASSUME NEW S \in SUBSET Seq(LinkPhases), \A x \in S : Len(x) <= link_snapshots,
             link' = [link EXCEPT !.snapshots = S], established' = established, link_now' = link_now
      PROVE  PhaseIInv'
  <2> DEFINE a == link.established_at
             p == link.phase
  <2>1. link' = [phase |-> p, established_at |-> a, snapshots |-> S] /\ p \in LinkPhases /\ a \in SUBSET Nat
    BY <1>7 DEF PhaseIInv
  <2>2. link'.phase = p /\ link'.established_at = a /\ link'.snapshots = S
    BY <2>1
  <2>3. /\ a = IF established = {} THEN {} ELSE {Max(established)}
        /\ link_now \in 0..MaxLinkTime /\ established \subseteq 0..link_now
        /\ p.is = "Established" => a = {p.since}
    BY DEF PhaseIInv
  <2> HIDE DEF a, p
  <2> QED BY <1>7, <2>1, <2>2, <2>3 DEF PhaseIInv
<1>8. CASE SnapshotLink
  <2> DEFINE p == link.phase
             More(s) == IF Len(s) < link_snapshots THEN Append(s, p) ELSE Append(Tail(s), p)
             S == {More(s) : s \in link.snapshots}
  <2>1. link' = [link EXCEPT !.snapshots = S] /\ established' = established /\ link_now' = link_now
    BY <1>8 DEF SnapshotLink, LinkCall
  <2>2. p \in LinkPhases /\ \A s \in link.snapshots : s \in Seq(LinkPhases) /\ Len(s) <= link_snapshots
    BY DEF PhaseIInv
  <2> HIDE DEF p
  <2>3. ASSUME NEW s \in link.snapshots PROVE More(s) \in Seq(LinkPhases) /\ Len(More(s)) <= link_snapshots
    <3>1. CASE Len(s) < link_snapshots
      <4>1. More(s) = Append(s, p) /\ Append(s, p) \in Seq(LinkPhases) /\ Len(Append(s, p)) = Len(s) + 1 /\ Len(s) \in Nat
        BY <2>2, <3>1
      <4> QED BY <1>1, <3>1, <4>1
    <3>2. CASE ~ (Len(s) < link_snapshots)
      <4>1. s # <<>>
        BY <1>1, <3>2
      <4>2. Tail(s) \in Seq(LinkPhases) /\ Len(Tail(s)) = Len(s) - 1 /\ Len(s) \in Nat
        BY <2>2, <4>1
      <4>3. More(s) = Append(Tail(s), p) /\ Append(Tail(s), p) \in Seq(LinkPhases) /\ Len(Append(Tail(s), p)) = Len(s)
        BY <2>2, <3>2, <4>2
      <4> HIDE DEF More
      <4> QED BY <2>2, <4>3
    <3> QED BY <3>1, <3>2
  <2> HIDE DEF More
  <2>4. S \in SUBSET Seq(LinkPhases) /\ \A x \in S : Len(x) <= link_snapshots
    BY <2>3
  <2> HIDE DEF S
  <2> QED BY <1>7, <2>1, <2>4
<1>9. CASE SaveAndLoadLink
  <2>1. link' = [link EXCEPT !.snapshots = {}] /\ established' = established /\ link_now' = link_now
    BY <1>9 DEF SaveAndLoadLink, LinkCall
  <2> DEFINE S == {}
  <2>2. S \in SUBSET Seq(LinkPhases) /\ \A x \in S : Len(x) <= link_snapshots
    OBVIOUS
  <2>3. link' = [link EXCEPT !.snapshots = S]
    BY <2>1
  <2> HIDE DEF S
  <2> QED BY <1>7, <2>1, <2>2, <2>3
<1>10. CASE LinkTimePasses /\ UNCHANGED phaseVars
  <2>1. link' = link /\ established' = established /\ link_now' = link_now + 1 /\ link_now < MaxLinkTime
    BY <1>10 DEF LinkTimePasses, phaseVars
  <2>2. link_now' \in 0..MaxLinkTime /\ 0..link_now \subseteq 0..link_now'
    BY <1>1, <2>1
  <2> QED BY <2>1, <2>2 DEF PhaseIInv
<1> QED BY <1>2, <1>3, <1>4, <1>5, <1>6, <1>8, <1>9, <1>10 DEF PhaseNext

LEMMA PhaseIsKnown == ASSUME PhaseIInv PROVE LinkKnowsWhenItWasUp
<1>1. ASSUME is_healthy
      PROVE  established # {} /\ ~\E r \in detect_degradation(link.phase.quality, <<>>) : r.reason # "PointingDrift"
  <2> DEFINE q == link.phase.quality
  <2>1. link.phase.is = "Established" /\ q.ber < healthy_ber /\ q.snr > healthy_snr
    BY <1>1 DEF is_healthy, QualityIsHealthy
  <2>2. established # {}
    BY <2>1 DEF PhaseIInv
  <2>3. q \in LinkQualities
    <3> DEFINE p == link.phase
    <3>1. p \in LinkPhases /\ p.is = "Established"
      BY <2>1 DEF PhaseIInv
    <3> HIDE DEF p
    <3>2. p.quality \in LinkQualities
      BY <3>1 DEF LinkPhases
    <3> QED BY <3>2 DEF p
  <2>4. q.ber \in Int /\ q.snr \in Int
    BY <2>3, OpticalLinkAssumption
  <2> HIDE DEF q
  <2>5. ~ (q.ber > threshold_ber) /\ ~ (q.snr < threshold_snr)
    BY <2>1, <2>4, OpticalLinkAssumption
  <2>6. detect_degradation(q, <<>>) = IF q.pointing > threshold_pointing
                                      THEN Found("PointingDrift", "InitiateHandoff", estimate_drift_rate(<<>>)) ELSE {}
    BY <2>5 DEF detect_degradation
  <2>7. \A r \in detect_degradation(q, <<>>) : r.reason = "PointingDrift"
    BY <2>6 DEF Found
  <2> QED BY <2>2, <2>7 DEF q
<1> QED BY <1>1 DEF PhaseIInv, LinkKnowsWhenItWasUp
----------------------------------------------------------------------------
(* The readings of the link *)

Items == [at : Nat, snr : Int, pointing : Int]

Room == Max({1, max_size})

\* What is kept is the end of what was measured.
MetricIInv ==
  /\ metric_history \in Seq(Items) /\ measured \in Seq(Items) /\ max_size \in Nat
  /\ Len(metric_history) = IF Len(measured) <= Room THEN Len(measured) ELSE Room
  /\ \A i \in 1..Len(metric_history) :
       metric_history[i] = measured[Len(measured) - Len(metric_history) + i]

LEMMA PairIsOrdered ==
  ASSUME NEW a \in Int, NEW b \in Int
  PROVE  /\ Max({a, b}) = IF a <= b THEN b ELSE a
         /\ Min({a, b}) = IF a <= b THEN a ELSE b
<1> DEFINE M == Max({a, b})
           m == Min({a, b})
<1>1. \E x \in {a, b} : \A y \in {a, b} : x >= y
  <2>1. CASE a <= b
    BY <2>1
  <2>2. CASE ~ (a <= b)
    BY <2>2
  <2> QED BY <2>1, <2>2
<1>2. \E x \in {a, b} : \A y \in {a, b} : x <= y
  <2>1. CASE a <= b
    BY <2>1
  <2>2. CASE ~ (a <= b)
    BY <2>2
  <2> QED BY <2>1, <2>2
<1>3. M \in {a, b} /\ \A y \in {a, b} : M >= y
  BY <1>1 DEF Max
<1>4. m \in {a, b} /\ \A y \in {a, b} : m <= y
  BY <1>2 DEF Min
<1> HIDE DEF M, m
<1>5. M = (IF a <= b THEN b ELSE a) /\ m = (IF a <= b THEN a ELSE b)
  BY <1>3, <1>4
<1> QED BY <1>5 DEF M, m

LEMMA RoomIsPositive ==
  ASSUME max_size \in Nat
  PROVE  Room \in Nat /\ Room >= 1 /\ Room = IF max_size = 0 THEN 1 ELSE max_size
<1>1. Room = IF 1 <= max_size THEN max_size ELSE 1
  BY PairIsOrdered DEF Room
<1> QED BY <1>1

LEMMA MetricInitially == OpticalLinkInit => MetricIInv
<1> SUFFICES ASSUME OpticalLinkInit PROVE MetricIInv
  OBVIOUS
<1>1. metric_history = <<>> /\ measured = <<>> /\ max_size \in Nat
  BY OpticalLinkAssumption DEF OpticalLinkInit
<1>2. Room \in Nat
  BY <1>1, RoomIsPositive
<1>3. Len(<<>>) = 0 /\ <<>> \in Seq(Items)
  OBVIOUS
<1> QED BY <1>1, <1>2, <1>3 DEF MetricIInv

LEMMA MetricPreserves ==
  ASSUME MetricIInv, MetricNext
  PROVE  MetricIInv'
<1>1. PICK latest \in Readings : Push(latest)
  BY DEF MetricNext
<1> DEFINE at == latest.gap + (IF measured = <<>> THEN 0 ELSE Last(measured).at)
           item == [at |-> at, snr |-> latest.snr, pointing |-> latest.pointing]
           h == metric_history
           n == Len(measured)
           k == Len(h)
           kept == IF k >= max_size /\ h # <<>> THEN Tail(h) ELSE h
<1>2. h' = Append(kept, item) /\ measured' = Append(measured, item) /\ max_size' = max_size
  BY <1>1 DEF Push
<1>3. /\ h \in Seq(Items) /\ measured \in Seq(Items) /\ max_size \in Nat /\ n \in Nat /\ k \in Nat
      /\ k = IF n <= Room THEN n ELSE Room
      /\ \A i \in 1..k : h[i] = measured[n - k + i]
  <2>1. /\ h \in Seq(Items) /\ measured \in Seq(Items) /\ max_size \in Nat
        /\ k = IF n <= Room THEN n ELSE Room
        /\ \A i \in 1..k : h[i] = measured[n - k + i]
    BY Zenon DEF MetricIInv
  <2>2. n \in Nat /\ k \in Nat
    BY <2>1
  <2> QED BY <2>1, <2>2, Zenon
<1>4. item \in Items
  <2>1. latest.snr \in Int /\ latest.pointing \in Int /\ latest.gap \in Nat
    BY OpticalLinkAssumption
  <2>2. measured # <<>> => Last(measured).at \in Nat
    <3> SUFFICES ASSUME measured # <<>> PROVE Last(measured).at \in Nat
      OBVIOUS
    <3>1. measured[n] \in Items
      BY <1>3
    <3> QED BY <3>1 DEF Items, Last
  <2>3. at \in Nat
    BY <2>1, <2>2
  <2> HIDE DEF at
  <2> QED BY <2>1, <2>3 DEF Items
<1> HIDE DEF item
<1>5. Room \in Nat /\ Room >= 1 /\ Room = (IF max_size = 0 THEN 1 ELSE max_size) /\ Room' = Room
  BY <1>2, <1>3, RoomIsPositive DEF Room
<1>6. measured' \in Seq(Items) /\ Len(measured') = n + 1 /\ measured'[n + 1] = item /\ \A i \in 1..n : measured'[i] = measured[i]
  BY <1>2, <1>3, <1>4
<1>7. CASE k >= max_size /\ h # <<>>
  <2>1. k >= 1 /\ kept = Tail(h) /\ Tail(h) \in Seq(Items) /\ Len(Tail(h)) = k - 1 /\ \A i \in 1..(k - 1) : Tail(h)[i] = h[i + 1]
    BY <1>3, <1>7
  <2>2. h' \in Seq(Items) /\ Len(h') = k /\ h'[k] = item /\ \A i \in 1..(k - 1) : h'[i] = h[i + 1]
    BY <1>2, <1>3, <1>4, <2>1
  <2> HIDE DEF n, k, h, kept
  <2>0. k \in Nat /\ n \in Nat
    BY <1>3
  <2>3. k = IF n + 1 <= Room THEN n + 1 ELSE Room
    BY <1>3, <1>5, <1>7, <2>1
  <2>4. ASSUME NEW i \in 1..k PROVE h'[i] = measured'[(n + 1) - k + i]
    <3>1. CASE i = k
      <4>1. (n + 1) - k + i = n + 1
        BY <2>0, <3>1
      <4> QED BY <1>6, <2>2, <3>1, <4>1
    <3>2. CASE i # k
      <4>0. k <= n
        BY <1>3, <1>5, <2>0
      <4>1. i \in 1..(k - 1) /\ i + 1 \in 1..k /\ (n + 1) - k + i = n - k + (i + 1) /\ n - k + (i + 1) \in 1..n
        BY <2>0, <3>2, <4>0
      <4>2. h'[i] = h[i + 1] /\ h[i + 1] = measured[n - k + (i + 1)]
        BY <1>3, <2>2, <4>1
      <4> QED BY <1>6, <4>1, <4>2
    <3> QED BY <3>1, <3>2
  <2> QED BY <1>2, <1>3, <1>5, <1>6, <2>2, <2>3, <2>4 DEF MetricIInv, h
<1>8. CASE ~ (k >= max_size /\ h # <<>>)
  <2>1. kept = h /\ (h = <<>> => k = 0)
    BY <1>8
  <2>2. h' \in Seq(Items) /\ Len(h') = k + 1 /\ h'[k + 1] = item /\ \A i \in 1..k : h'[i] = h[i]
    BY <1>2, <1>3, <1>4, <2>1
  <2>3. k < max_size \/ k = 0
    BY <1>3, <1>8, <2>1
  <2> HIDE DEF n, k, h, kept
  <2>0. k \in Nat /\ n \in Nat
    BY <1>3
  <2>4. k + 1 = (IF n + 1 <= Room THEN n + 1 ELSE Room) /\ k = n
    BY <1>3, <1>5, <2>3
  <2>5. ASSUME NEW i \in 1..(k + 1) PROVE h'[i] = measured'[(n + 1) - (k + 1) + i]
    <3>0. (n + 1) - (k + 1) + i = i
      BY <2>0, <2>4
    <3>1. CASE i = k + 1
      BY <1>6, <2>2, <2>4, <3>0, <3>1
    <3>2. CASE i # k + 1
      <4>1. i \in 1..k /\ i \in 1..n /\ n - k + i = i
        BY <2>0, <2>4, <3>2
      <4>2. h'[i] = h[i] /\ h[i] = measured[n - k + i] /\ measured'[i] = measured[i]
        BY <1>3, <1>6, <2>2, <4>1
      <4> QED BY <3>0, <4>1, <4>2
    <3> QED BY <3>1, <3>2
  <2> QED BY <1>2, <1>3, <1>5, <1>6, <2>2, <2>4, <2>5 DEF MetricIInv, h
<1> QED BY <1>7, <1>8

\* Neighbours in order are all in order.
LEMMA NeighboursInOrder ==
  ASSUME NEW n \in Nat, NEW v \in [1..n -> Int], \A i \in 1..(n - 1) : v[i] <= v[i + 1],
         NEW i \in 1..n, NEW j \in i..n
  PROVE  v[i] <= v[j]
<1> DEFINE S == {k \in Nat : i + k \in 1..n => v[i] <= v[i + k]}
<1>1. 0 \in S
  OBVIOUS
<1>2. ASSUME NEW k \in Nat, k \in S PROVE k + 1 \in S
  <2> SUFFICES ASSUME i + (k + 1) \in 1..n PROVE v[i] <= v[i + (k + 1)]
    OBVIOUS
  <2>1. i + k \in 1..n /\ i + k \in 1..(n - 1) /\ (i + k) + 1 = i + (k + 1)
    OBVIOUS
  <2>2. v[i] <= v[i + k] /\ v[i + k] <= v[i + (k + 1)]
    BY <1>2, <2>1
  <2>3. v[i] \in Int /\ v[i + k] \in Int /\ v[i + (k + 1)] \in Int
    BY <2>1
  <2> QED BY <2>2, <2>3
<1> HIDE DEF S
<1>3. \A k \in Nat : k \in S
  BY <1>1, <1>2, ForAll
<1>4. j - i \in Nat /\ i + (j - i) = j /\ j \in 1..n
  OBVIOUS
<1> QED BY <1>3, <1>4 DEF S

LEMMA TrendOfSign ==
  ASSUME NEW delta \in Int, NEW unit \in Nat
  PROVE  /\ delta >= 0 => TrendOf(delta, unit) # "Degrading"
         /\ delta <= 0 => TrendOf(delta, unit) # "Improving"
         /\ unit = 1 => (TrendOf(delta, unit) = "Degrading" <=> delta < -1)
  BY DEF TrendOf

\* What the two trends subtract.
Few(k) == IF 5 <= k THEN 5 ELSE k

FirstSnr(h, n) == [i \in 1..n |-> h[i].snr]

LastSnr(h, k, n) == [i \in 1..n |-> h[k - n + i].snr]

LEMMA EndsOfTheEnd ==
  ASSUME NEW S, NEW h \in Seq(S), NEW f \in 1..Len(h)
  PROVE  Last(SubSeq(h, f, Len(h))) = h[Len(h)] /\ Head(SubSeq(h, f, Len(h))) = h[f]
<1> DEFINE r == SubSeq(h, f, Len(h))
           m == Len(h) - f + 1
<1>1. m \in Nat /\ m >= 1 /\ f + 1 - 1 = f /\ f + m - 1 = Len(h)
  OBVIOUS
<1>2. r \in Seq(S) /\ Len(r) = m /\ \A i \in 1..m : r[i] = h[f + i - 1]
  OBVIOUS
<1> HIDE DEF r, m
<1>3. r[1] = h[f] /\ r[m] = h[Len(h)]
  BY <1>1, <1>2
<1>4. Head(r) = r[1] /\ Last(r) = r[m]
  BY <1>1, <1>2 DEF Last
<1> QED BY <1>3, <1>4 DEF r

\* The two trends in terms of the readings: first against last, and sum against sum.
LEMMA TrendDeltas ==
  ASSUME NEW h \in Seq(Items), NEW k, k = Len(h), k >= 2, NEW n, n = Few(k)
  PROVE  /\ calculate_trend(h) = TrendOf(h[k].snr - h[k - (n - 1)].snr, 1)
         /\ trend(h) = TrendOf(Total(LastSnr(h, k, n)) - Total(FirstSnr(h, n)), n)
         /\ n \in 2..k /\ k \in Nat
<1>0. k \in Nat
  OBVIOUS
<1>1. k \in Nat /\ k >= 2 /\ n \in Nat /\ n >= 2 /\ n <= k /\ ~ (Len(h) < 2)
  BY <1>0 DEF Few
<1>2. Min({5, k}) = n
  <2>1. 5 \in Int /\ k \in Int
    BY <1>0
  <2>2. Min({5, k}) = IF 5 <= k THEN 5 ELSE k
    BY <2>1, PairIsOrdered, Zenon
  <2> QED BY <2>2 DEF Few
<1>3. calculate_trend(h) = TrendOf(h[k].snr - h[k - (n - 1)].snr, 1)
  <2> DEFINE f == Max({1, k - 4})
             recent == SubSeq(h, f, k)
  <2>1. f = k - (n - 1) /\ f \in 1..k
    <3>1. f = IF 1 <= k - 4 THEN k - 4 ELSE 1
      BY <1>1, PairIsOrdered
    <3> HIDE DEF f
    <3> QED BY <1>1, <3>1 DEF Few
  <2>2. calculate_trend(h) = TrendOf(Last(recent).snr - Head(recent).snr, 1)
    BY <1>1, Zenon DEF calculate_trend
  <2> HIDE DEF f
  <2>4. Last(recent) = h[k] /\ Head(recent) = h[f]
    BY <2>1, EndsOfTheEnd
  <2> HIDE DEF recent
  <2> QED BY <2>1, <2>2, <2>4
<1>4. trend(h) = TrendOf(Total(LastSnr(h, k, n)) - Total(FirstSnr(h, n)), n)
  <2> DEFINE SnrTotal(from) == Total([i \in 1..n |-> h[from + i - 1].snr])
  <2>1. trend(h) = TrendOf(SnrTotal(k - n + 1) - SnrTotal(1), n)
    BY <1>1, <1>2, Zenon DEF trend
  <2>2. \A i \in 1..n : k - n + 1 + i - 1 = k - n + i /\ 1 + i - 1 = i
    BY <1>1
  <2>3. [i \in 1..n |-> h[k - n + 1 + i - 1].snr] = LastSnr(h, k, n) /\ [i \in 1..n |-> h[1 + i - 1].snr] = FirstSnr(h, n)
    BY <2>2 DEF LastSnr, FirstSnr
  <2> QED BY <2>1, <2>3
<1> QED BY <1>1, <1>3, <1>4

\* Readings that do not fall, or do not rise, from each to the next.
Rises(v, n) == \A i \in 1..(n - 1) : v[i] <= v[i + 1]

Falls(v, n) == \A i \in 1..(n - 1) : v[i] >= v[i + 1]

Snr(h) == [i \in 1..Len(h) |-> h[i].snr]

Offsets(h) == [i \in 1..Len(h) |-> h[i].pointing]

\* In a falling sequence a later value is no greater.
LEMMA FallingInOrder ==
  ASSUME NEW n \in Nat, NEW v \in [1..n -> Int], Falls(v, n), NEW i \in 1..n, NEW j \in i..n
  PROVE  v[j] <= v[i]
<1> DEFINE w == [a \in 1..n |-> -v[a]]
<1>1. w \in [1..n -> Int] /\ j \in 1..n
  OBVIOUS
<1>2. ASSUME NEW a \in 1..(n - 1) PROVE w[a] <= w[a + 1]
  <2>1. a \in 1..n /\ a + 1 \in 1..n /\ v[a] >= v[a + 1] /\ w[a] = -v[a] /\ w[a + 1] = -v[a + 1]
    BY DEF Falls
  <2>2. v[a] \in Int /\ v[a + 1] \in Int
    BY <2>1
  <2> QED BY <2>1, <2>2
<1>3. w[i] = -v[i] /\ w[j] = -v[j] /\ v[i] \in Int /\ v[j] \in Int
  BY <1>1
<1> HIDE DEF w
<1>4. w[i] <= w[j]
  BY <1>1, <1>2, NeighboursInOrder
<1> QED BY <1>3, <1>4

\* On readings that only rise or only fall no trend says the opposite.
LEMMA TrendsAgree ==
  ASSUME NEW h \in Seq(Items)
  PROVE  /\ Rises(Snr(h), Len(h)) => calculate_trend(h) # "Degrading" /\ trend(h) # "Degrading"
         /\ Falls(Snr(h), Len(h)) => calculate_trend(h) # "Improving" /\ trend(h) # "Improving"
<1> DEFINE k == Len(h)
           n == Few(k)
           v == Snr(h)
           a == LastSnr(h, k, n)
           b == FirstSnr(h, n)
<1>1. k \in Nat /\ \A i \in 1..k : h[i].snr \in Int
  <2>1. k \in Nat /\ \A i \in 1..k : h[i] \in Items
    OBVIOUS
  <2> QED BY <2>1 DEF Items
<1>2. v \in [1..k -> Int] /\ \A i \in 1..k : v[i] = h[i].snr
  BY <1>1 DEF Snr
<1>3. CASE k < 2
  <2>1. calculate_trend(h) = "Stable" /\ trend(h) = "Stable"
    BY <1>3 DEF calculate_trend, trend
  <2> QED BY <2>1
<1>4. CASE k >= 2
  <2>1. /\ calculate_trend(h) = TrendOf(h[k].snr - h[k - (n - 1)].snr, 1)
        /\ trend(h) = TrendOf(Total(a) - Total(b), n)
        /\ n \in 2..k
    BY <1>4, TrendDeltas
  <2> HIDE DEF n, v, k
  <2>2. k \in 1..k /\ k - (n - 1) \in 1..k /\ k \in (k - (n - 1))..k /\ n \in Nat
    BY <1>1, <1>4, <2>1
  <2>3. \A i \in 1..n : i \in 1..k /\ k - n + i \in 1..k /\ k - n + i \in i..k
    BY <1>1, <2>1
  <2>4. \A i \in 1..n : a[i] = v[k - n + i] /\ b[i] = v[i]
    BY <1>2, <2>3 DEF LastSnr, FirstSnr
  <2>5. a \in [1..n -> Int] /\ b \in [1..n -> Int]
    BY <1>1, <2>3 DEF LastSnr, FirstSnr
  <2>6. h[k].snr = v[k] /\ h[k - (n - 1)].snr = v[k - (n - 1)] /\ v[k] \in Int /\ v[k - (n - 1)] \in Int
    BY <1>2, <2>2
  <2> HIDE DEF a, b
  <2> DEFINE x == v[k] - v[k - (n - 1)]
             y == Total(a) - Total(b)
  <2>7. Total(a) \in Int /\ Total(b) \in Int
    <3>1. \A i \in 1..n : a[i] <= a[i] /\ b[i] <= b[i]
      BY <2>5
    <3> QED BY <2>2, <2>5, <3>1, TotalsKeepOrder
  <2>8. /\ x \in Int /\ y \in Int /\ 1 \in Nat /\ n \in Nat
        /\ calculate_trend(h) = TrendOf(x, 1) /\ trend(h) = TrendOf(y, n)
    <3>1. x \in Int /\ y \in Int
      BY <2>6, <2>7
    <3>2. x = h[k].snr - h[k - (n - 1)].snr
      BY <2>6
    <3> QED BY <2>1, <2>2, <3>1, <3>2
  <2>9. ASSUME Rises(v, k) PROVE x >= 0 /\ y >= 0
    <3>1. \A i \in 1..(k - 1) : v[i] <= v[i + 1]
      BY <2>9 DEF Rises
    <3>2. v[k - (n - 1)] <= v[k]
      BY <1>1, <1>2, <2>2, <3>1, NeighboursInOrder
    <3>3. ASSUME NEW i \in 1..n PROVE b[i] <= a[i]
      <4>1. v[i] <= v[k - n + i]
        BY <1>1, <1>2, <2>3, <3>1, NeighboursInOrder
      <4> QED BY <2>4, <4>1
    <3>4. Total(b) <= Total(a)
      BY <2>2, <2>5, <3>3, TotalsKeepOrder
    <3> QED BY <2>6, <2>7, <3>2, <3>4
  <2>10. ASSUME Falls(v, k) PROVE x <= 0 /\ y <= 0
    <3>2. v[k] <= v[k - (n - 1)]
      BY <1>1, <1>2, <2>2, <2>10, FallingInOrder
    <3>3. ASSUME NEW i \in 1..n PROVE a[i] <= b[i]
      <4>1. v[k - n + i] <= v[i]
        BY <1>1, <1>2, <2>3, <2>10, FallingInOrder
      <4> QED BY <2>4, <4>1
    <3>4. Total(a) <= Total(b)
      BY <2>2, <2>5, <3>3, TotalsKeepOrder
    <3> QED BY <2>6, <2>7, <3>2, <3>4
  <2> HIDE DEF x, y
  <2> QED BY <2>8, <2>9, <2>10, TrendOfSign DEF k, v
<1> QED BY <1>1, <1>3, <1>4 DEF k

LEMMA DriftKeepsSign ==
  ASSUME NEW h \in Seq(Items), Rises(Offsets(h), Len(h))
  PROVE  estimate_drift_rate(h)[1] >= 0
<1> DEFINE k == Len(h)
           v == Offsets(h)
<1>1. k \in Nat /\ \A i \in 1..k : h[i].pointing \in Int
  <2>1. k \in Nat /\ \A i \in 1..k : h[i] \in Items
    OBVIOUS
  <2> QED BY <2>1 DEF Items
<1>2. v \in [1..k -> Int] /\ \A i \in 1..k : v[i] = h[i].pointing
  BY <1>1 DEF Offsets
<1>3. CASE k < 2
  <2>1. estimate_drift_rate(h) = <<0, 1>>
    BY <1>3 DEF estimate_drift_rate
  <2> QED BY <2>1
<1>4. CASE ~ (k < 2)
  <2>1. estimate_drift_rate(h)[1] = Last(h).pointing - Head(h).pointing
    BY <1>4 DEF estimate_drift_rate
  <2>2. Last(h) = h[k] /\ Head(h) = h[1]
    BY <1>1, <1>4 DEF Last
  <2>3. 1 \in 1..k /\ k \in 1..k
    BY <1>1, <1>4
  <2>4. v[1] <= v[k]
    <3> HIDE DEF v, k
    <3>1. \A i \in 1..(k - 1) : v[i] <= v[i + 1]
      BY DEF Rises, v, k
    <3> QED BY <1>1, <1>2, <2>3, <3>1, NeighboursInOrder
  <2>5. v[1] = h[1].pointing /\ v[k] = h[k].pointing /\ v[1] \in Int /\ v[k] \in Int
    BY <1>2, <2>3
  <2> HIDE DEF v, k
  <2> QED BY <2>1, <2>2, <2>4, <2>5
<1> QED BY <1>3, <1>4

\* What detect_degradation() reports of a quality: each threshold crossed, and no other.
LEMMA DetectorReports ==
  ASSUME NEW h \in Seq(Items), NEW q \in LinkQualities
  PROVE  LET weak == q.snr < threshold_snr
             far == q.pointing > threshold_pointing
             reports == detect_degradation(q, h)
         IN  /\ reports = {} <=> q.ber <= threshold_ber /\ ~weak /\ ~far
             /\ \A r \in reports :
                  /\ r.action = "InitiateHandoff" <=>
                       q.ber > threshold_ber \/ (far /\ (weak => calculate_trend(h) = "Degrading"))
                  /\ r.reason = "PointingDrift" => r.by = estimate_drift_rate(h)
<1> DEFINE over == q.ber > threshold_ber
           weak == q.snr < threshold_snr
           far == q.pointing > threshold_pointing
           down == calculate_trend(h) = "Degrading"
           drift == Found("PointingDrift", "InitiateHandoff", estimate_drift_rate(h))
           d == detect_degradation(q, h)
<1>1. q.ber \in Int /\ threshold_ber \in Int
  BY OpticalLinkAssumption
<1>2. q.ber <= threshold_ber <=> ~ over
  BY <1>1
<1>3. /\ over => d = Found("FecOverwhelmed", "InitiateHandoff", <<0, 1>>)
      /\ ~ over /\ weak /\ down /\ far => d = drift
      /\ ~ over /\ weak /\ down /\ ~ far => d = Found("AtmosphericTurbulence", "Monitor", <<0, 1>>)
      /\ ~ over /\ weak /\ ~ down => d = Found("UnexplainedSnrDrop", "Monitor", <<threshold_snr - q.snr, 1>>)
      /\ ~ over /\ ~ weak /\ far => d = drift
      /\ ~ over /\ ~ weak /\ ~ far => d = {}
  BY <1>2 DEF detect_degradation
<1>4. \A s, t, u : Found(s, t, u) # {} /\ \A r \in Found(s, t, u) : r.reason = s /\ r.action = t /\ r.by = u
  BY DEF Found
<1> HIDE DEF over, weak, far, down, drift, d
<1>5. d = {} <=> ~ over /\ ~ weak /\ ~ far
  BY <1>3, <1>4 DEF drift
<1>6. \A r \in d : /\ r.action = "InitiateHandoff" <=> over \/ (far /\ (weak => down))
                   /\ r.reason = "PointingDrift" => r.by = estimate_drift_rate(h)
  BY <1>3, <1>4 DEF drift
<1> QED BY <1>2, <1>5, <1>6 DEF over, weak, far, down, d

\* As what is kept is the end of what was measured, the detector judges the latest
\* readings.
LEMMA MetricsAreExact == ASSUME MetricIInv PROVE DetectionIsExact
<1> DEFINE h == metric_history
           kept == Len(h)
           n == Len(measured)
           back == Min({5, kept}) - 1
           fell == kept > 1 /\ measured[n].snr < measured[n - back].snr - 1
           rising == \A i \in 1..(kept - 1) : h[i].snr <= h[i + 1].snr
           falling == \A i \in 1..(kept - 1) : h[i].snr >= h[i + 1].snr
           drifting == \A i \in 1..(kept - 1) : h[i].pointing <= h[i + 1].pointing
<1>1. /\ h \in Seq(Items) /\ measured \in Seq(Items) /\ max_size \in Nat /\ kept \in Nat /\ n \in Nat
      /\ kept = IF n <= Room THEN n ELSE Room
      /\ \A i \in 1..kept : h[i] = measured[n - kept + i]
  BY DEF MetricIInv
<1>2. Room \in Nat
  BY <1>1, RoomIsPositive
<1>3. kept = Min({n, Room}) /\ kept <= n
  <2>1. Min({n, Room}) = IF n <= Room THEN n ELSE Room
    <3>1. n \in Int /\ Room \in Int
      BY <1>1, <1>2
    <3> HIDE DEF n
    <3> QED BY <3>1, PairIsOrdered, Zenon
  <2> HIDE DEF n, kept
  <2> QED BY <1>1, <1>2, <2>1
<1>4. \A i \in 1..(kept - 1) : i \in 1..kept /\ i + 1 \in 1..kept
  BY <1>1
<1>5. rising => Rises(Snr(h), kept)
  BY <1>4 DEF Rises, Snr
<1>6. falling => Falls(Snr(h), kept)
  BY <1>4 DEF Falls, Snr
<1>7. drifting => Rises(Offsets(h), kept)
  BY <1>4 DEF Rises, Offsets
<1>8. rising => "Degrading" \notin {calculate_trend(h), trend(h)}
  BY <1>1, <1>5, TrendsAgree
<1>9. falling => "Improving" \notin {calculate_trend(h), trend(h)}
  BY <1>1, <1>6, TrendsAgree
<1>10. calculate_trend(h) = "Degrading" <=> fell
  <2>1. CASE kept < 2
    <3>1. calculate_trend(h) = "Stable"
      BY <2>1 DEF calculate_trend
    <3>2. ~ (kept > 1)
      BY <1>1, <2>1
    <3> QED BY <3>1, <3>2
  <2>2. CASE ~ (kept < 2)
    <3> DEFINE few == Few(kept)
               x == h[kept].snr
               y == h[kept - (few - 1)].snr
    <3>1. kept >= 2
      BY <1>1, <2>2
    <3>2. calculate_trend(h) = TrendOf(x - y, 1) /\ few \in 2..kept
      BY <1>1, <3>1, TrendDeltas
    <3>3. back = few - 1
      <4>1. 5 \in Int /\ kept \in Int
        BY <1>1
      <4>2. Min({5, kept}) = IF 5 <= kept THEN 5 ELSE kept
        <5> HIDE DEF kept
        <5> QED BY <4>1, PairIsOrdered, Zenon
      <4> QED BY <4>2 DEF Few
    <3> HIDE DEF few, kept, n, back
    <3>4. kept \in 1..kept /\ kept - back \in 1..kept /\ n - kept + kept = n /\ n - kept + (kept - back) = n - back
      <4>1. kept \in Nat /\ n \in Nat /\ few \in 2..kept
        BY <1>1, <3>2
      <4> QED BY <3>1, <3>3, <4>1
    <3>5. h[kept] = measured[n] /\ h[kept - back] = measured[n - back]
      BY <1>1, <3>4
    <3>6. \A i \in 1..kept : h[i].snr \in Int
      <4>1. \A i \in 1..kept : h[i] \in Items
        BY <1>1 DEF kept
      <4> QED BY <4>1 DEF Items
    <3>7. x \in Int /\ y \in Int /\ x = measured[n].snr /\ y = measured[n - back].snr
      BY <3>3, <3>4, <3>5, <3>6
    <3> HIDE DEF x, y
    <3>8. x - y \in Int /\ (x - y < -1 <=> x < y - 1)
      BY <3>7
    <3>9. calculate_trend(h) = "Degrading" <=> x - y < -1
      <4> DEFINE z == x - y
      <4>1. z \in Int /\ calculate_trend(h) = TrendOf(z, 1)
        BY <3>2, <3>8
      <4> HIDE DEF z
      <4>2. TrendOf(z, 1) = "Degrading" <=> z < -1
        BY <4>1, TrendOfSign
      <4> QED BY <4>1, <4>2 DEF z
    <3>10. kept > 1
      BY <1>1, <3>1
    <3> QED BY <3>7, <3>8, <3>9, <3>10
  <2> QED BY <2>1, <2>2
<1> HIDE DEF fell
<1>11. ASSUME NEW q \in LinkQualities
       PROVE  LET weak == q.snr < threshold_snr
                  far == q.pointing > threshold_pointing
                  reports == detect_degradation(q, h)
              IN  /\ reports = {} <=> q.ber <= threshold_ber /\ ~weak /\ ~far
                  /\ \A r \in reports :
                       /\ r.action = "InitiateHandoff" => q.ber > threshold_ber \/ far
                       /\ q.ber > threshold_ber \/ (far /\ (weak => fell)) => r.action = "InitiateHandoff"
                       /\ r.reason = "PointingDrift" /\ drifting => r.by[1] >= 0
  <2> DEFINE weak == q.snr < threshold_snr
             far == q.pointing > threshold_pointing
             reports == detect_degradation(q, h)
  <2>1. /\ reports = {} <=> q.ber <= threshold_ber /\ ~weak /\ ~far
        /\ \A r \in reports :
             /\ r.action = "InitiateHandoff" <=>
                  q.ber > threshold_ber \/ (far /\ (weak => calculate_trend(h) = "Degrading"))
             /\ r.reason = "PointingDrift" => r.by = estimate_drift_rate(h)
    BY <1>1, DetectorReports
  <2>2. drifting => estimate_drift_rate(h)[1] >= 0
    <3> HIDE DEF drifting
    <3> QED BY <1>1, <1>7, DriftKeepsSign
  <2> HIDE DEF drifting, weak, far, reports
  <2>3. \A r \in reports :
             /\ r.action = "InitiateHandoff" => q.ber > threshold_ber \/ far
             /\ q.ber > threshold_ber \/ (far /\ (weak => fell)) => r.action = "InitiateHandoff"
             /\ r.reason = "PointingDrift" /\ drifting => r.by[1] >= 0
    BY <1>10, <2>1, <2>2
  <2> QED BY <2>1, <2>3 DEF weak, far, reports
<1>12. \A i \in 1..kept : h[i] = measured[n - kept + i]
  BY <1>1
<1> QED BY <1>3, <1>8, <1>9, <1>11, <1>12 DEF DetectionIsExact, fell, Room

----------------------------------------------------------------------------
(* The hand-offs of the link *)

LinkHandoffs ==
  [handoff_id : Nat, strategy : Strategies, initiated_at : Nat, completed_at : SUBSET Nat, success : BOOLEAN]

\* The numbers given are 1 to the last, and no two that are tracked share one.
FailoverIInv ==
  /\ link_now \in Nat
  /\ active_handoffs \in Seq(LinkHandoffs)
  /\ \E k \in Nat : initiated = 1..k
  /\ completed \subseteq initiated
  /\ \A i, j \in DOMAIN active_handoffs :
       active_handoffs[i].handoff_id = active_handoffs[j].handoff_id => i = j
  /\ \A id \in initiated \ completed : \E i \in DOMAIN active_handoffs : active_handoffs[i].handoff_id = id
  /\ \A i \in DOMAIN active_handoffs :
       LET h == active_handoffs[i]
       IN  /\ h.handoff_id \in initiated
           /\ h.initiated_at <= link_now
           /\ h.completed_at # {} <=> h.handoff_id \in completed
           /\ h.success => h.completed_at # {}
           /\ \A t \in h.completed_at : t >= h.initiated_at

LEMMA FailoverInitially == OpticalLinkInit => FailoverIInv
<1> SUFFICES ASSUME OpticalLinkInit PROVE FailoverIInv
  OBVIOUS
<1>1. active_handoffs = <<>> /\ initiated = {} /\ completed = {} /\ link_now = 0
  BY DEF OpticalLinkInit
<1>2. {} = 1..0 /\ 0 \in Nat /\ DOMAIN <<>> = {} /\ <<>> \in Seq(LinkHandoffs)
  OBVIOUS
<1>3. \E k \in Nat : initiated = 1..k
  BY <1>1, <1>2
<1> QED BY <1>1, <1>2, <1>3 DEF FailoverIInv

LEMMA InitiateKeeps ==
  ASSUME FailoverIInv, NEW strategy \in Strategies, InitiateLinkHandoff(strategy)
  PROVE  FailoverIInv'
<1> DEFINE s == active_handoffs
           n == Len(s)
           id == Cardinality(initiated) + 1
           x == [handoff_id |-> id, strategy |-> strategy, initiated_at |-> link_now,
                 completed_at |-> {}, success |-> FALSE]
<1>1. PICK k \in Nat : initiated = 1..k
  BY DEF FailoverIInv
<1>2. id = k + 1
  <2>1. Cardinality(1..k) = IF 1 > k THEN 0 ELSE k - 1 + 1
    BY FS_Interval
  <2>2. Cardinality(1..k) = k
    BY <2>1
  <2> QED BY <1>1, <2>2
<1>3. /\ s' = Append(s, x) /\ initiated' = initiated \cup {id} /\ completed' = completed /\ link_now' = link_now
  BY DEF InitiateLinkHandoff
<1>4. s \in Seq(LinkHandoffs) /\ n \in Nat /\ DOMAIN s = 1..n /\ link_now \in Nat
  BY DEF FailoverIInv
<1> HIDE DEF id
<1>5. x \in LinkHandoffs /\ x.handoff_id = id /\ x.initiated_at = link_now /\ x.completed_at = {} /\ x.success = FALSE
  BY <1>1, <1>2, <1>4 DEF LinkHandoffs
<1> HIDE DEF x
<1>6. /\ s' \in Seq(LinkHandoffs) /\ DOMAIN s' = 1..(n + 1) /\ s'[n + 1] = x
      /\ \A i \in 1..n : s'[i] = s[i]
  BY <1>3, <1>4, <1>5
<1> HIDE DEF n
<1>7. initiated' = 1..(k + 1) /\ id \notin initiated /\ id \in initiated'
  BY <1>1, <1>2, <1>3
<1>8. \A i \in 1..(n + 1) : i = n + 1 \/ i \in 1..n
  BY <1>4
<1>9. n + 1 \in 1..(n + 1) /\ \A i \in 1..n : i \in 1..(n + 1)
  BY <1>4
<1>10. \A i \in 1..n : s[i].handoff_id \in initiated
  BY <1>4 DEF FailoverIInv
<1>11. completed \subseteq initiated
  BY DEF FailoverIInv
<1>12. \E j \in Nat : initiated' = 1..j
  BY <1>7
<1>13. \A i, j \in DOMAIN s' : s'[i].handoff_id = s'[j].handoff_id => i = j
  <2> SUFFICES ASSUME NEW i \in 1..(n + 1), NEW j \in 1..(n + 1), s'[i].handoff_id = s'[j].handoff_id PROVE i = j
    BY <1>6
  <2>1. CASE i = n + 1
    BY <1>5, <1>6, <1>7, <1>8, <1>10, <2>1
  <2>2. CASE i \in 1..n /\ j = n + 1
    BY <1>5, <1>6, <1>7, <1>8, <1>10, <2>2
  <2>3. CASE i \in 1..n /\ j \in 1..n
    BY <1>4, <1>6, <2>3 DEF FailoverIInv
  <2> QED BY <1>8, <2>1, <2>2, <2>3
<1>14. ASSUME NEW a \in initiated' \ completed' PROVE \E i \in DOMAIN s' : s'[i].handoff_id = a
  <2>1. CASE a = id
    BY <1>5, <1>6, <1>9, <2>1
  <2>2. CASE a \in initiated \ completed
    <3>1. PICK i \in 1..n : s[i].handoff_id = a
      BY <1>4, <2>2 DEF FailoverIInv
    <3> QED BY <1>6, <1>9, <3>1
  <2> QED BY <1>3, <1>14, <2>1, <2>2
<1>15. ASSUME NEW i \in DOMAIN s'
       PROVE  LET h == s'[i]
              IN  /\ h.handoff_id \in initiated'
                  /\ h.initiated_at <= link_now'
                  /\ h.completed_at # {} <=> h.handoff_id \in completed'
                  /\ h.success => h.completed_at # {}
                  /\ \A t \in h.completed_at : t >= h.initiated_at
  <2>1. CASE i = n + 1
    BY <1>3, <1>4, <1>5, <1>6, <1>7, <1>11, <2>1
  <2>2. CASE i \in 1..n
    BY <1>3, <1>4, <1>6, <2>2 DEF FailoverIInv
  <2> QED BY <1>6, <1>8, <2>1, <2>2
<1>16. completed' \subseteq initiated' /\ link_now' \in Nat
  BY <1>3, <1>4, <1>11
<1> QED BY <1>6, <1>12, <1>13, <1>14, <1>15, <1>16 DEF FailoverIInv

LEMMA CompleteKeeps ==
  ASSUME FailoverIInv, NEW id \in initiated, NEW success \in BOOLEAN, CompleteLinkHandoff(id, success)
  PROVE  FailoverIInv'
<1> DEFINE s == active_handoffs
<1>1. PICK i \in DOMAIN s :
        /\ s[i].handoff_id = id
        /\ s' = [s EXCEPT ![i].completed_at = {link_now}, ![i].success = success]
  BY Zenon DEF CompleteLinkHandoff
<1>2. completed' = completed \cup {id} /\ initiated' = initiated /\ link_now' = link_now
  BY DEF CompleteLinkHandoff
<1>3. s \in Seq(LinkHandoffs) /\ link_now \in Nat /\ \A j \in DOMAIN s : s[j] \in LinkHandoffs
  BY DEF FailoverIInv
<1> DEFINE x == [s[i] EXCEPT !.completed_at = {link_now}, !.success = success]
<1>4. s' = [s EXCEPT ![i] = x]
  BY <1>1, <1>3
<1>5. /\ x \in LinkHandoffs /\ x.handoff_id = id /\ x.initiated_at = s[i].initiated_at
      /\ x.completed_at = {link_now} /\ x.success = success
  <2> DEFINE y == s[i]
  <2>1. y \in LinkHandoffs /\ y.handoff_id = id
    BY <1>1, <1>3
  <2> HIDE DEF y
  <2>2. LET z == [y EXCEPT !.completed_at = {link_now}, !.success = success]
        IN  /\ z \in LinkHandoffs /\ z.handoff_id = id /\ z.initiated_at = y.initiated_at
            /\ z.completed_at = {link_now} /\ z.success = success
    BY <1>3, <2>1 DEF LinkHandoffs
  <2> QED BY <2>2 DEF y
<1> HIDE DEF x
<1>6. /\ s' \in Seq(LinkHandoffs) /\ DOMAIN s' = DOMAIN s /\ s'[i] = x
      /\ \A j \in DOMAIN s : j # i => s'[j] = s[j]
  <2> HIDE DEF s
  <2> QED BY <1>3, <1>4, <1>5
<1>7. \A j \in DOMAIN s : s'[j].handoff_id = s[j].handoff_id /\ s'[j].initiated_at = s[j].initiated_at
  BY <1>1, <1>5, <1>6
<1>8. \A j \in DOMAIN s : s[j].handoff_id = id => j = i
  BY <1>1 DEF FailoverIInv
<1>9. ASSUME NEW j \in DOMAIN s
      PROVE  LET h == s'[j]
             IN  /\ h.handoff_id \in initiated'
                 /\ h.initiated_at <= link_now'
                 /\ h.completed_at # {} <=> h.handoff_id \in completed'
                 /\ h.success => h.completed_at # {}
                 /\ \A t \in h.completed_at : t >= h.initiated_at
  <2>1. CASE j = i
    <3>1. s[i].initiated_at <= link_now /\ s[i].initiated_at \in Nat
      BY <1>1, <1>3 DEF FailoverIInv, LinkHandoffs
    <3> QED BY <1>2, <1>3, <1>5, <1>6, <2>1, <3>1
  <2>2. CASE j # i
    <3>1. s'[j] = s[j] /\ s[j].handoff_id # id
      BY <1>6, <1>8, <2>2
    <3> QED BY <1>2, <3>1 DEF FailoverIInv
  <2> QED BY <2>1, <2>2
<1>10. \A a \in initiated' \ completed' : \E j \in DOMAIN s' : s'[j].handoff_id = a
  BY <1>2, <1>6, <1>7 DEF FailoverIInv
<1>11. \A j, l \in DOMAIN s' : s'[j].handoff_id = s'[l].handoff_id => j = l
  BY <1>6, <1>7 DEF FailoverIInv
<1>12. completed' \subseteq initiated' /\ link_now' \in Nat /\ \E k \in Nat : initiated' = 1..k
  BY <1>2, <1>3 DEF FailoverIInv
<1> QED BY <1>6, <1>9, <1>10, <1>11, <1>12 DEF FailoverIInv

LEMMA CleanupKeeps == ASSUME FailoverIInv, CleanupCompleted PROVE FailoverIInv'
<1> DEFINE s == active_handoffs
           n == Len(s)
           T == {h \in ToSet(s) : h.completed_at = {}}
           r == Keep(s, T)
           R == {i \in DOMAIN s : s[i] \in T}
           m == Len(r)
<1>1. s' = r /\ initiated' = initiated /\ completed' = completed /\ link_now' = link_now
  BY DEF CleanupCompleted
<1>2. s \in Seq(LinkHandoffs) /\ n \in Nat /\ DOMAIN s = 1..n
  BY DEF FailoverIInv
<1>3. \A i \in 1..n : i \in R <=> s[i].completed_at = {}
  BY <1>2 DEF ToSet
<1> HIDE DEF T
<1>4. r = Filter(s, T)
  BY DEF Keep, Filter, FoldLeft, MapThenFoldSet
<1> HIDE DEF r
<1>5. r \in Seq(LinkHandoffs) /\ \E pos : Places(pos, r, m, s, n, R)
  BY <1>2, <1>4, FilterPlaces
<1>6. PICK pos : Places(pos, r, m, s, n, R)
  BY <1>5
<1>7. m \in Nat /\ DOMAIN r = 1..m
  BY <1>5
<1> HIDE DEF s, n, R, m
<1>8. /\ pos \in [1..m -> 1..n] /\ \A i, j \in 1..m : i < j => pos[i] < pos[j]
      /\ \A j \in 1..m : r[j] = s[pos[j]] /\ pos[j] \in R
      /\ \A i \in R : \E j \in 1..m : pos[j] = i
  BY <1>6 DEF Places
<1>9. \A i, j \in 1..m : pos[i] = pos[j] => i = j
  <2> SUFFICES ASSUME NEW i \in 1..m, NEW j \in 1..m, pos[i] = pos[j], i # j PROVE FALSE
    OBVIOUS
  <2>1. i < j \/ j < i
    OBVIOUS
  <2>2. pos[i] \in Int /\ pos[j] \in Int
    BY <1>8
  <2> QED BY <1>8, <2>1, <2>2
<1>10. \A i, j \in 1..n : s[i].handoff_id = s[j].handoff_id => i = j
  BY <1>2 DEF FailoverIInv, s
<1>11. \A i, j \in 1..m : r[i].handoff_id = r[j].handoff_id => i = j
  BY <1>8, <1>9, <1>10
<1>12. ASSUME NEW a \in initiated \ completed PROVE \E j \in 1..m : r[j].handoff_id = a
  <2>1. PICK i \in 1..n : s[i].handoff_id = a
    BY <1>2 DEF FailoverIInv, s
  <2>2. s[i].completed_at # {} <=> s[i].handoff_id \in completed
    BY <1>2 DEF FailoverIInv, s
  <2>3. i \in R
    BY <1>3, <2>1, <2>2
  <2> QED BY <1>8, <2>1, <2>3
<1>13. ASSUME NEW j \in 1..m
       PROVE  LET h == r[j]
              IN  /\ h.handoff_id \in initiated
                  /\ h.initiated_at <= link_now
                  /\ h.completed_at # {} <=> h.handoff_id \in completed
                  /\ h.success => h.completed_at # {}
                  /\ \A t \in h.completed_at : t >= h.initiated_at
  <2>1. r[j] = s[pos[j]] /\ pos[j] \in DOMAIN s
    BY <1>2, <1>8
  <2> QED BY <2>1 DEF FailoverIInv, s
<1> QED BY <1>1, <1>5, <1>7, <1>11, <1>12, <1>13 DEF FailoverIInv, s

LEMMA FailoverPreserves == ASSUME FailoverIInv, FailoverNext PROVE FailoverIInv'
<1>1. CASE LinkTimePasses /\ UNCHANGED failoverVars
  <2>1. /\ active_handoffs' = active_handoffs /\ initiated' = initiated /\ completed' = completed
        /\ link_now' = link_now + 1 /\ link_now \in Nat /\ active_handoffs \in Seq(LinkHandoffs)
    BY <1>1 DEF LinkTimePasses, failoverVars, FailoverIInv
  <2>2. \A i \in DOMAIN active_handoffs : active_handoffs[i].initiated_at <= link_now'
    <3> SUFFICES ASSUME NEW i \in DOMAIN active_handoffs PROVE active_handoffs[i].initiated_at <= link_now + 1
      BY <2>1
    <3> DEFINE h == active_handoffs[i]
    <3>1. h \in LinkHandoffs /\ h.initiated_at <= link_now
      BY <2>1 DEF FailoverIInv
    <3> HIDE DEF h
    <3>2. h.initiated_at \in Nat
      BY <3>1 DEF LinkHandoffs
    <3>3. h.initiated_at <= link_now + 1
      BY <2>1, <3>1, <3>2
    <3> QED BY <3>3 DEF h
  <2>3. link_now' \in Nat
    BY <2>1
  <2> QED BY <2>1, <2>2, <2>3 DEF FailoverIInv
<1> QED BY <1>1, InitiateKeeps, CompleteKeeps, CleanupKeeps DEF FailoverNext

LEMMA FailoverIsTracked == ASSUME FailoverIInv PROVE HandoffsAreTracked
<1> DEFINE s == active_handoffs
           n == Len(s)
           tracked == {s[i].handoff_id : i \in DOMAIN s}
           f == [i \in 1..n |-> s[i].handoff_id]
<1>1. n \in Nat /\ DOMAIN s = 1..n
  BY DEF FailoverIInv
<1>2. f \in Bijection(1..n, tracked)
  <2>1. f \in [1..n -> tracked] /\ \A t \in tracked : \E i \in 1..n : f[i] = t
    BY <1>1
  <2>2. \A i, j \in 1..n : f[i] = f[j] => i = j
    BY <1>1 DEF FailoverIInv
  <2> HIDE DEF f, tracked, n
  <2> QED BY <2>1, <2>2 DEF Bijection, Injection, Surjection, IsInjective
<1>3. Cardinality(tracked) = n
  <2> HIDE DEF f, tracked, n
  <2> QED BY <1>1, <1>2, FS_CountingElements DEF ExistsBijection
<1>4. initiated \ completed \subseteq tracked /\ tracked \subseteq initiated
  BY DEF FailoverIInv
<1> QED BY <1>3, <1>4 DEF FailoverIInv, HandoffsAreTracked

----------------------------------------------------------------------------
LinkIInv == PhaseIInv /\ MetricIInv /\ FailoverIInv

LEMMA LinkInitially == OpticalLinkInit => LinkIInv
  BY PhaseInitially, MetricInitially, FailoverInitially DEF LinkIInv

LEMMA LinkPreserves == ASSUME LinkIInv, [OpticalLinkNext]_opticalLinkVars PROVE LinkIInv'
<1>1. CASE PhaseNext /\ UNCHANGED <<metricVars, failoverVars>>
  <2>1. PhaseIInv'
    BY <1>1, PhasePreserves DEF LinkIInv
  <2>2. MetricIInv'
    BY <1>1 DEF LinkIInv, MetricIInv, metricVars, Room
  <2>3. UNCHANGED failoverVars /\ (link_now' = link_now \/ LinkTimePasses)
    <3>1. LinkCall => link_now' = link_now
      BY DEF LinkCall
    <3>2. \A x : ScheduleLink(x) \/ TransitionToEstablished(x) \/ TransitionToDegrading(x) \/ TransitionToFailed(x)
                 => LinkCall
      BY Zenon DEF ScheduleLink, TransitionToEstablished, TransitionToDegrading, TransitionToFailed
    <3>3. TransitionToAcquiring \/ SnapshotLink \/ SaveAndLoadLink => LinkCall
      BY Zenon DEF TransitionToAcquiring, SnapshotLink, SaveAndLoadLink
    <3> QED BY <1>1, <3>1, <3>2, <3>3 DEF PhaseNext
  <2>4. FailoverIInv'
    <3>1. CASE link_now' = link_now
      BY <2>3, <3>1 DEF LinkIInv, FailoverIInv, failoverVars
    <3>2. CASE LinkTimePasses
      BY <2>3, <3>2, FailoverPreserves DEF LinkIInv, FailoverNext
    <3> QED BY <2>3, <3>1, <3>2
  <2> QED BY <2>1, <2>2, <2>4 DEF LinkIInv
<1>2. CASE MetricNext /\ UNCHANGED <<phaseVars, failoverVars>>
  <2>1. MetricIInv'
    BY <1>2, MetricPreserves DEF LinkIInv
  <2>2. link_now' = link_now
    BY <1>2 DEF MetricNext, Push
  <2>3. PhaseIInv' /\ FailoverIInv'
    BY <1>2, <2>2 DEF LinkIInv, PhaseIInv, FailoverIInv, phaseVars, failoverVars
  <2> QED BY <2>1, <2>3 DEF LinkIInv
<1>3. CASE FailoverNext /\ UNCHANGED <<phaseVars, metricVars>>
  <2>1. FailoverIInv'
    BY <1>3, FailoverPreserves DEF LinkIInv
  <2>2. MetricIInv'
    BY <1>3 DEF LinkIInv, MetricIInv, metricVars, Room
  <2>3. UNCHANGED phaseVars /\ (link_now' = link_now \/ LinkTimePasses)
    <3>1. \A x : InitiateLinkHandoff(x) => link_now' = link_now
      BY DEF InitiateLinkHandoff
    <3>2. \A x, y : CompleteLinkHandoff(x, y) => link_now' = link_now
      BY DEF CompleteLinkHandoff
    <3>3. CleanupCompleted => link_now' = link_now
      BY DEF CleanupCompleted
    <3> QED BY <1>3, <3>1, <3>2, <3>3 DEF FailoverNext
  <2>4. PhaseIInv'
    <3>1. CASE link_now' = link_now
      BY <2>3, <3>1 DEF LinkIInv, PhaseIInv, phaseVars
    <3>2. CASE LinkTimePasses
      BY <2>3, <3>2, PhasePreserves DEF LinkIInv, PhaseNext
    <3> QED BY <2>3, <3>1, <3>2
  <2> QED BY <2>1, <2>2, <2>4 DEF LinkIInv
<1>4. CASE UNCHANGED opticalLinkVars
  <2>1. UNCHANGED <<link, established, link_calls, metric_history, max_size, measured, active_handoffs, initiated, completed, link_now>>
    BY <1>4 DEF opticalLinkVars, phaseVars, metricVars, failoverVars
  <2>2. PhaseIInv'
    BY <2>1 DEF LinkIInv, PhaseIInv
  <2>3. MetricIInv'
    BY <2>1 DEF LinkIInv, MetricIInv, Room
  <2>4. FailoverIInv'
    BY <2>1 DEF LinkIInv, FailoverIInv
  <2> QED BY <2>2, <2>3, <2>4 DEF LinkIInv
<1> QED BY <1>1, <1>2, <1>3, <1>4 DEF OpticalLinkNext

LEMMA LinkIsSound == ASSUME LinkIInv PROVE OpticalLinkIsSound
  BY PhaseIsKnown, MetricsAreExact, FailoverIsTracked DEF LinkIInv, OpticalLinkIsSound

----------------------------------------------------------------------------
(* Routes *)

\* What the recursive definitions stand for, for any edges and parents.
Hop(E, S) == {e.to : e \in {f \in E : f.visible /\ f.from \in S}}

HopEquation(f, E) == f = [k \in Nat |-> IF k = 0 THEN {Source} ELSE f[k - 1] \cup Hop(E, f[k - 1])]

Hops(E) == CHOOSE f : HopEquation(f, E)

PathEquation(f, pm) ==
  f = [n \in Nodes |-> IF n = Source \/ pm[n] = NoParent THEN <<>>
                       ELSE Append(f[pm[n]], <<pm[n], n>>)]

RoutesBy(pm) == CHOOSE f : PathEquation(f, pm)

\* Within, as a function of the links that meet the constraints.
LEMMA WithinIsHops == Within = Hops(Meeting) /\ Within' = Hops(Meeting')
  BY DEF Within, Hops, HopEquation, Hop

\* PathTo, as a function of the parents.
LEMMA PathToIsPaths == PathTo = RoutesBy(parent_map) /\ PathTo' = RoutesBy(parent_map')
  BY DEF PathTo, RoutesBy, PathEquation

\* Every number of hops has its nodes.
LEMMA HopsGrow ==
  ASSUME NEW E \in SUBSET Edges
  PROVE  /\ Hops(E) \in [Nat -> SUBSET Nodes]
         /\ Hops(E)[0] = {Source}
         /\ \A k \in Nat : Hops(E)[k + 1] = Hops(E)[k] \cup Hop(E, Hops(E)[k])
<1> DEFINE V == SUBSET Nodes
           step == [k \in Nat |-> [S \in V |-> S \cup Hop(E, S)]]
           W == Hops(E)
<1>1. {Source} \in V
  BY RoutingAssumption
<1>2. \A S : Hop(E, S) \in V
  BY DEF Hop, Edges
<1>3. step \in IterationSteps(V)
  BY <1>2 DEF IterationSteps
<1>4. PICK F : Iterates(F, V, {Source}, step)
  <2> HIDE DEF step, V
  <2> QED BY <1>1, <1>3, Iteration
<1>5. F \in [Nat -> V] /\ F[0] = {Source} /\ \A n \in Nat : F[n + 1] = step[n][F[n]]
  BY <1>4 DEF Iterates
<1>6. \A n \in Nat : F[n + 1] = F[n] \cup Hop(E, F[n])
  BY <1>5
<1>7. \A k \in Nat : k # 0 => k - 1 \in Nat /\ (k - 1) + 1 = k
  OBVIOUS
<1>8. HopEquation(F, E)
  <2> HIDE DEF V, step
  <2>1. \A k \in Nat : F[k] = IF k = 0 THEN {Source} ELSE F[k - 1] \cup Hop(E, F[k - 1])
    BY <1>5, <1>6, <1>7
  <2> QED BY <1>5, <2>1 DEF HopEquation
<1>9. HopEquation(W, E)
  BY <1>8, Zenon DEF Hops
<1> HIDE DEF W
<1>10. /\ W = [k \in Nat |-> W[k]] /\ W[0] = {Source}
       /\ \A k \in Nat : k # 0 => W[k] = W[k - 1] \cup Hop(E, W[k - 1])
  BY <1>9 DEF HopEquation
<1>11. \A k \in Nat : W[k + 1] = W[k] \cup Hop(E, W[k])
  <2> SUFFICES ASSUME NEW k \in Nat PROVE W[k + 1] = W[k] \cup Hop(E, W[k])
    OBVIOUS
  <2>1. k + 1 \in Nat /\ k + 1 # 0 /\ (k + 1) - 1 = k
    OBVIOUS
  <2> QED BY <1>10, <2>1
<1> DEFINE S == {k \in Nat : W[k] \in V}
<1>12. 0 \in S
  BY <1>1, <1>10
<1>13. \A k \in Nat : k \in S => k + 1 \in S
  BY <1>2, <1>11
<1> HIDE DEF S
<1>14. \A k \in Nat : k \in S
  BY <1>12, <1>13, ForAll
<1>15. W \in [Nat -> V]
  BY <1>10, <1>14 DEF S
<1> QED BY <1>10, <1>11, <1>15 DEF W
\* The hops a node is away.
Dist(W, n) == Min({k \in Nat : n \in W[k]})

Leads(E, a, b) == \E e \in E : e.visible /\ e.from = a /\ e.to = b

Reached(W, n) == \E k \in Nat : n \in W[k]

Layered(W, E) ==
  /\ W \in [Nat -> SUBSET Nodes] /\ W[0] = {Source}
  /\ \A k \in Nat : W[k + 1] = W[k] \cup Hop(E, W[k])

\* The distance of a node that is reached: the least number of hops.
LEMMA DistIsLeast ==
  ASSUME NEW W, NEW E, Layered(W, E), NEW n, Reached(W, n)
  PROVE  /\ Dist(W, n) \in Nat /\ n \in W[Dist(W, n)]
         /\ \A k \in Nat : n \in W[k] <=> Dist(W, n) <= k
         /\ Dist(W, n) = 0 <=> n = Source
<1> DEFINE S == {k \in Nat : n \in W[k]}
           d == Dist(W, n)
<1>1. S \in SUBSET Nat /\ S # {}
  BY DEF Reached
<1>2. d \in S /\ \A k \in S : d <= k
  <2>1. d = Min(S)
    BY DEF Dist
  <2> HIDE DEF S, d
  <2> QED BY <1>1, <2>1, MinIsLeast
<1>3. d \in Nat /\ n \in W[d] /\ \A k \in Nat : n \in W[k] => d <= k
  BY <1>2
<1> HIDE DEF d
<1> DEFINE A == {k \in Nat : n \in W[d + k]}
<1>4. 0 \in A
  BY <1>3
<1>5. ASSUME NEW k \in Nat, k \in A PROVE k + 1 \in A
  <2>1. n \in W[d + k] /\ d + k \in Nat /\ (d + k) + 1 = d + (k + 1) /\ k + 1 \in Nat
    BY <1>3, <1>5
  <2>2. W[d + k] \subseteq W[d + (k + 1)]
    BY <2>1 DEF Layered
  <2> QED BY <2>1, <2>2
<1> HIDE DEF A
<1>6. \A k \in Nat : k \in A
  BY <1>4, <1>5, ForAll
<1>7. ASSUME NEW k \in Nat, d <= k PROVE n \in W[k]
  <2>1. k - d \in Nat /\ d + (k - d) = k
    BY <1>3, <1>7
  <2>2. n \in W[d + (k - d)]
    BY <1>6, <2>1 DEF A
  <2> QED BY <2>1, <2>2
<1>8. d = 0 <=> n = Source
  <2>1. d = 0 => n = Source
    BY <1>3 DEF Layered
  <2>2. n = Source => n \in W[0]
    BY DEF Layered
  <2> QED BY <1>3, <2>1, <2>2
<1> QED BY <1>3, <1>7, <1>8 DEF d

\* A hop leads at most one further.
LEMMA HopIsOneMore ==
  ASSUME NEW W, NEW E, Layered(W, E), NEW a, Reached(W, a), NEW b, Leads(E, a, b)
  PROVE  Reached(W, b) /\ b \in W[Dist(W, a) + 1] /\ Dist(W, b) <= Dist(W, a) + 1
<1> DEFINE d == Dist(W, a)
<1>1. d \in Nat /\ a \in W[d]
  BY DistIsLeast
<1> HIDE DEF d
<1>2. b \in Hop(E, W[d])
  BY <1>1 DEF Leads, Hop
<1>3. b \in W[d + 1] /\ d + 1 \in Nat
  BY <1>1, <1>2 DEF Layered
<1>4. Reached(W, b)
  BY <1>3 DEF Reached
<1>5. Dist(W, b) <= d + 1
  BY <1>3, <1>4, DistIsLeast
<1> QED BY <1>3, <1>4, <1>5 DEF d

\* What was visited hangs on the source by visible links, each one hop longer.
Tree(pm, E, V, W) ==
  /\ pm \in [Nodes -> Nodes \cup {NoParent}]
  /\ V \in SUBSET Nodes /\ Source \in V
  /\ \A n \in V : Reached(W, n)
  /\ \A n \in V \ {Source} : pm[n] \in V /\ Leads(E, pm[n], n) /\ Dist(W, n) = Dist(W, pm[n]) + 1
  /\ \A n \in Nodes : n \notin V \ {Source} => pm[n] = NoParent

\* The parents form a tree, so following them ends: the recursion of PathTo has a
\* solution.
LEMMA PathsSolve ==
  ASSUME NEW pm, NEW E, NEW V, NEW W, Layered(W, E), Tree(pm, E, V, W)
  PROVE  PathEquation(RoutesBy(pm), pm)
<1> DEFINE P == Seq(Nodes \X Nodes)
           G == [Nodes -> P]
           Leaf(n) == n = Source \/ pm[n] = NoParent
           Onward(f) == [n \in Nodes |-> IF Leaf(n) THEN <<>> ELSE Append(f[pm[n]], <<pm[n], n>>)]
           step == [k \in Nat |-> [f \in G |-> Onward(f)]]
           first == [n \in Nodes |-> <<>>]
<1>1. first \in G
  OBVIOUS
<1>2. \A n \in Nodes : ~ Leaf(n) => n \in V \ {Source} /\ pm[n] \in V /\ pm[n] \in Nodes
  BY DEF Tree
<1>3. ASSUME NEW f \in G PROVE Onward(f) \in G
  <2> SUFFICES ASSUME NEW n \in Nodes PROVE (IF Leaf(n) THEN <<>> ELSE Append(f[pm[n]], <<pm[n], n>>)) \in P
    OBVIOUS
  <2>1. CASE Leaf(n)
    BY <2>1
  <2>2. CASE ~ Leaf(n)
    <3> HIDE DEF Leaf
    <3>1. f[pm[n]] \in P /\ <<pm[n], n>> \in Nodes \X Nodes
      BY <1>2, <2>2
    <3> QED BY <2>2, <3>1
  <2> QED BY <2>1, <2>2
<1> HIDE DEF G, Onward
<1>4. step \in IterationSteps(G)
  BY <1>3 DEF IterationSteps
<1>5. PICK F : Iterates(F, G, first, step)
  <2> HIDE DEF step, first
  <2> QED BY <1>1, <1>4, Iteration
<1>6. F \in [Nat -> G] /\ \A k \in Nat : F[k + 1] = Onward(F[k])
  BY <1>5 DEF Iterates
<1> DEFINE rank == [n \in Nodes |-> IF n \in V THEN Dist(W, n) ELSE 0]
           g == [n \in Nodes |-> F[rank[n] + 1][n]]
<1>7. \A n \in Nodes : rank[n] \in Nat
  BY DistIsLeast DEF Tree
<1>8. \A n \in Nodes : ~ Leaf(n) => rank[n] = rank[pm[n]] + 1
  BY <1>2 DEF Tree
<1> HIDE DEF rank, Leaf
<1>9. \A n \in Nodes : g[n] = IF Leaf(n) THEN <<>> ELSE Append(g[pm[n]], <<pm[n], n>>)
  <2> SUFFICES ASSUME NEW n \in Nodes PROVE F[rank[n] + 1][n] = IF Leaf(n) THEN <<>> ELSE Append(g[pm[n]], <<pm[n], n>>)
    OBVIOUS
  <2>1. F[rank[n] + 1][n] = IF Leaf(n) THEN <<>> ELSE Append(F[rank[n]][pm[n]], <<pm[n], n>>)
    BY <1>6, <1>7 DEF Onward
  <2>2. ~ Leaf(n) => g[pm[n]] = F[rank[n]][pm[n]]
    BY <1>2, <1>8
  <2> HIDE DEF g
  <2> QED BY <2>1, <2>2
<1>10. g = [n \in Nodes |-> g[n]]
  OBVIOUS
<1> HIDE DEF g
<1>11. PathEquation(g, pm)
  BY <1>9, <1>10 DEF PathEquation, Leaf
<1> QED BY <1>11, Zenon DEF RoutesBy

\* A path of the tree from the source: its k-th hop ends k hops away.
IsPath(p, E, W, n) ==
  /\ p \in Seq(Nodes \X Nodes) /\ Len(p) = Dist(W, n)
  /\ \A i \in 1..Len(p) : Leads(E, p[i][1], p[i][2]) /\ Dist(W, p[i][2]) = i
  /\ \A i \in 1..(Len(p) - 1) : p[i][2] = p[i + 1][1]
  /\ p # <<>> => p[1][1] = Source /\ p[Len(p)][2] = n

\* A path to a node and a link from it make a path one longer.
LEMMA PathGrows ==
  ASSUME NEW p, NEW E, NEW W, Layered(W, E), NEW a \in Nodes, Reached(W, a), IsPath(p, E, W, a),
         NEW n \in Nodes, Leads(E, a, n), Dist(W, n) = Dist(W, a) + 1
  PROVE  IsPath(Append(p, <<a, n>>), E, W, n)
<1> DEFINE q == Append(p, <<a, n>>)
           m == Len(p)
           x == <<a, n>>
<1>1. p \in Seq(Nodes \X Nodes) /\ m \in Nat /\ m = Dist(W, a) /\ x \in Nodes \X Nodes /\ x[1] = a /\ x[2] = n
  BY DEF IsPath
<1>2. q \in Seq(Nodes \X Nodes) /\ Len(q) = m + 1 /\ q[m + 1] = x /\ \A i \in 1..m : q[i] = p[i]
  BY <1>1
<1>3. /\ \A i \in 1..m : Leads(E, p[i][1], p[i][2]) /\ Dist(W, p[i][2]) = i
      /\ \A i \in 1..(m - 1) : p[i][2] = p[i + 1][1]
      /\ p # <<>> => p[1][1] = Source /\ p[m][2] = a
  BY DEF IsPath
<1>4. m = 0 => a = Source
  <2>1. Dist(W, a) = 0 <=> a = Source
    BY DistIsLeast
  <2> QED BY <1>1, <2>1
<1>5. m # 0 => p # <<>>
  OBVIOUS
<1> HIDE DEF m, q, x
<1>6. ASSUME NEW i \in 1..(m + 1) PROVE Leads(E, q[i][1], q[i][2]) /\ Dist(W, q[i][2]) = i
  <2>1. CASE i = m + 1
    BY <1>1, <1>2, <2>1
  <2>2. CASE i # m + 1
    <3>1. i \in 1..m
      BY <1>1, <2>2
    <3> QED BY <1>2, <1>3, <3>1
  <2> QED BY <2>1, <2>2
<1>7. ASSUME NEW i \in 1..m PROVE q[i][2] = q[i + 1][1]
  <2>1. CASE i = m
    <3>1. p[m][2] = a /\ q[i] = p[m] /\ q[i + 1] = x
      BY <1>1, <1>2, <1>3, <1>5, <2>1
    <3> QED BY <1>1, <3>1
  <2>2. CASE i # m
    <3>1. i \in 1..(m - 1) /\ i + 1 \in 1..m
      BY <1>1, <2>2
    <3> QED BY <1>2, <1>3, <3>1
  <2> QED BY <2>1, <2>2
<1>8. q[1][1] = Source
  <2>1. CASE m = 0
    BY <1>1, <1>2, <1>4, <2>1
  <2>2. CASE m # 0
    <3>1. 1 \in 1..m
      BY <1>1, <2>2
    <3> QED BY <1>2, <1>3, <1>5, <2>2, <3>1
  <2> QED BY <2>1, <2>2
<1>9. q[m + 1][2] = n /\ (m + 1) - 1 = m
  BY <1>1, <1>2
<1>10. IsPath(q, E, W, n)
  BY <1>1, <1>2, <1>6, <1>7, <1>8, <1>9 DEF IsPath
<1> QED BY <1>10 DEF q

\* The path the parents give is one of as many hops as the distance.
LEMMA PathsArePaths ==
  ASSUME NEW pm, NEW E, NEW V, NEW W, Layered(W, E), Tree(pm, E, V, W), NEW v \in V
  PROVE  IsPath(RoutesBy(pm)[v], E, W, v)
<1> DEFINE f == RoutesBy(pm)
           S == {k \in Nat : \A n \in V : Dist(W, n) = k => IsPath(f[n], E, W, n)}
<1>1. \A n \in Nodes : f[n] = IF n = Source \/ pm[n] = NoParent THEN <<>> ELSE Append(f[pm[n]], <<pm[n], n>>)
  <2>1. PathEquation(f, pm)
    BY PathsSolve
  <2> HIDE DEF f
  <2> QED BY <2>1 DEF PathEquation
<1> HIDE DEF f
<1>2. \A n \in V : n \in Nodes /\ Reached(W, n) /\ Dist(W, n) \in Nat /\ (Dist(W, n) = 0 <=> n = Source)
  BY DistIsLeast DEF Tree
<1>3. 0 \in S
  <2> SUFFICES ASSUME NEW n \in V, Dist(W, n) = 0 PROVE IsPath(f[n], E, W, n)
    OBVIOUS
  <2>1. f[n] = <<>>
    BY <1>1, <1>2
  <2>2. Len(<<>>) = 0 /\ <<>> \in Seq(Nodes \X Nodes) /\ 1..0 = {} /\ 1..(0 - 1) = {}
    OBVIOUS
  <2> QED BY <2>1, <2>2 DEF IsPath
<1>4. ASSUME NEW k \in Nat, k \in S PROVE k + 1 \in S
  <2> SUFFICES ASSUME NEW n \in V, Dist(W, n) = k + 1 PROVE IsPath(f[n], E, W, n)
    OBVIOUS
  <2>1. n # Source /\ n \in Nodes
    BY <1>2
  <2> DEFINE a == pm[n]
  <2>2. a \in V /\ Leads(E, a, n) /\ Dist(W, n) = Dist(W, a) + 1
    BY <2>1 DEF Tree
  <2>3. a \in Nodes /\ a # NoParent /\ Reached(W, a) /\ Dist(W, a) \in Nat
    BY <1>2, <2>2, RoutingAssumption
  <2>4. f[n] = Append(f[a], <<a, n>>)
    BY <1>1, <2>1, <2>3
  <2> HIDE DEF a
  <2>5. Dist(W, a) = k
    BY <2>2, <2>3
  <2>6. IsPath(f[a], E, W, a)
    BY <1>4, <2>2, <2>5
  <2> QED BY <2>1, <2>2, <2>3, <2>4, <2>6, PathGrows
<1> HIDE DEF S
<1>5. \A k \in Nat : k \in S
  BY <1>3, <1>4, ForAll
<1> QED BY <1>2, <1>5 DEF S, f

\* Whatever the order of the neighbours, each is met.
LEMMA OrderHoldsAll ==
  ASSUME NEW S, IsFiniteSet(S), NEW order \in Orders(S)
  PROVE  /\ order \in Seq(S) /\ \A i \in 1..Len(order) : order[i] \in S
         /\ \A x \in S : \E i \in 1..Len(order) : order[i] = x
<1> DEFINE c == Cardinality(S)
<1>1. c \in Nat
  BY FS_CardinalityType
<1>2. order \in [1..c -> S] /\ \A i, j \in DOMAIN order : order[i] = order[j] => i = j
  BY DEF Orders
<1> HIDE DEF c
<1>3. order \in Seq(S) /\ Len(order) = c
  BY <1>1, <1>2
<1>4. order \in Injection(1..c, S)
  BY <1>2 DEF Injection, IsInjective
<1>5. Cardinality(1..c) = Cardinality(S)
  <2>1. Cardinality(1..c) = IF 1 > c THEN 0 ELSE c - 1 + 1
    BY <1>1, FS_Interval
  <2>2. Cardinality(1..c) = c
    BY <1>1, <2>1
  <2> QED BY <2>2 DEF c
<1>6. order \in Surjection(1..c, S)
  BY <1>4, <1>5, FS_Injection
<1>7. \A x \in S : \E i \in 1..c : order[i] = x
  BY <1>6 DEF Surjection
<1> QED BY <1>2, <1>3, <1>7

\* The search: the queue is ordered by the hops, all nodes no further than its head
\* are visited, and what left the queue has all its neighbours visited.
SearchInv(Q, V, pm, E, W) ==
  /\ Tree(pm, E, V, W)
  /\ Q \in Seq(V)
  /\ \A i, j \in 1..Len(Q) : i <= j => Dist(W, Q[i]) <= Dist(W, Q[j]) /\ Dist(W, Q[j]) <= Dist(W, Q[i]) + 1
  /\ \A v \in V : (\A i \in 1..Len(Q) : Q[i] # v) => v # Destination /\ \A b : Leads(E, v, b) => b \in V
  /\ Q # <<>> => W[Dist(W, Q[1])] \subseteq V

\* The search starts with the source in the frontier.
LEMMA SearchBegins ==
  ASSUME NEW E, NEW W, Layered(W, E), NEW pm, pm = [n \in Nodes |-> NoParent]
  PROVE  SearchInv(<<Source>>, {Source}, pm, E, W)
<1> DEFINE Q == <<Source>>
<1>1. Reached(W, Source)
  BY DEF Layered, Reached
<1>2. Dist(W, Source) = 0
  BY <1>1, DistIsLeast
<1>3. Tree(pm, E, {Source}, W)
  BY <1>1, RoutingAssumption DEF Tree
<1>4. Q \in Seq({Source}) /\ Len(Q) = 1 /\ Q[1] = Source /\ 1..1 = {1}
  OBVIOUS
<1> HIDE DEF Q
<1>5. \A i, j \in 1..Len(Q) : i <= j => Dist(W, Q[i]) <= Dist(W, Q[j]) /\ Dist(W, Q[j]) <= Dist(W, Q[i]) + 1
  BY <1>2, <1>4
<1>6. W[Dist(W, Q[1])] \subseteq {Source}
  BY <1>2, <1>4 DEF Layered
<1>7. SearchInv(Q, {Source}, pm, E, W)
  BY <1>3, <1>4, <1>5, <1>6 DEF SearchInv
<1> QED BY <1>7 DEF Q

\* A turn of the loop.
LEMMA SearchGoesOn ==
  ASSUME NEW E \in SUBSET Edges, NEW W, Layered(W, E), NEW Q, NEW V, NEW pm, SearchInv(Q, V, pm, E, W),
         Q # <<>>, Q[1] # Destination,
         NEW new, new = {b \in Nodes : Leads(E, Q[1], b)} \ V,
         NEW order \in Orders(new)
  PROVE  SearchInv(Tail(Q) \o order, V \cup new, [n \in Nodes |-> IF n \in new THEN Q[1] ELSE pm[n]], E, W)
<1> DEFINE h == Q[1]
           d == Dist(W, h)
           T == Tail(Q)
           R == T \o order
           U == V \cup new
           qm == [n \in Nodes |-> IF n \in new THEN h ELSE pm[n]]
           m == Len(T)
           o == Len(order)
<1>1. /\ Tree(pm, E, V, W) /\ Q \in Seq(V)
      /\ \A i, j \in 1..Len(Q) : i <= j => Dist(W, Q[i]) <= Dist(W, Q[j]) /\ Dist(W, Q[j]) <= Dist(W, Q[i]) + 1
      /\ \A v \in V : (\A i \in 1..Len(Q) : Q[i] # v) => v # Destination /\ \A b : Leads(E, v, b) => b \in V
      /\ W[d] \subseteq V
  BY DEF SearchInv
<1>2. /\ V \in SUBSET Nodes /\ Source \in V /\ pm \in [Nodes -> Nodes \cup {NoParent}]
      /\ \A n \in V : Reached(W, n)
      /\ \A n \in V \ {Source} : pm[n] \in V /\ Leads(E, pm[n], n) /\ Dist(W, n) = Dist(W, pm[n]) + 1
      /\ \A n \in Nodes : n \notin V \ {Source} => pm[n] = NoParent
  BY <1>1 DEF Tree
<1>3. new \in SUBSET Nodes /\ new \cap V = {} /\ IsFiniteSet(new)
  <2>1. new \in SUBSET Nodes /\ new \cap V = {}
    OBVIOUS
  <2> QED BY <2>1, RoutingAssumption, FS_Subset
<1>4. /\ order \in Seq(new) /\ \A i \in 1..o : order[i] \in new
      /\ \A x \in new : \E i \in 1..o : order[i] = x
  BY <1>3, OrderHoldsAll
<1>5. h \in V /\ Reached(W, h) /\ d \in Nat /\ h \in Nodes
  <2>1. h \in V
    BY <1>1
  <2> HIDE DEF h
  <2> QED BY <1>2, <2>1, DistIsLeast
<1>6. /\ T \in Seq(V) /\ m = Len(Q) - 1 /\ m \in Nat /\ o \in Nat
      /\ \A i \in 1..m : T[i] = Q[i + 1] /\ i + 1 \in 1..Len(Q)
      /\ \A i \in 1..Len(Q) : i = 1 \/ i - 1 \in 1..m
      /\ 1 \in 1..Len(Q)
  <2>1. T \in Seq(V) /\ m = Len(Q) - 1 /\ m \in Nat /\ \A i \in 1..m : T[i] = Q[i + 1]
    BY <1>1
  <2>2. o \in Nat
    BY <1>4
  <2> HIDE DEF m, T
  <2>3. Len(Q) \in Nat
    BY <1>1
  <2> QED BY <2>1, <2>2, <2>3
<1>7. ASSUME NEW b \in new PROVE Leads(E, h, b) /\ Reached(W, b) /\ Dist(W, b) = d + 1
  <2>1. Leads(E, h, b) /\ b \notin V
    BY <1>7
  <2> HIDE DEF h
  <2>2. Reached(W, b) /\ b \in W[d + 1] /\ Dist(W, b) <= d + 1
    BY <1>5, <2>1, HopIsOneMore
  <2>3. Dist(W, b) \in Nat /\ ~ (Dist(W, b) <= d)
    BY <1>1, <1>5, <2>1, <2>2, DistIsLeast
  <2> HIDE DEF d
  <2> QED BY <1>5, <2>1, <2>2, <2>3
<1>8. /\ R \in Seq(U) /\ Len(R) = m + o
      /\ \A i \in 1..m : R[i] = T[i]
      /\ \A i \in 1..o : R[m + i] = order[i] /\ m + i \in 1..(m + o)
      /\ \A i \in 1..(m + o) : i \in 1..m \/ (i - m \in 1..o /\ m + (i - m) = i)
  <2>1. T \in Seq(U) /\ order \in Seq(U)
    BY <1>4, <1>6
  <2> HIDE DEF T, U
  <2>2. R \in Seq(U) /\ Len(R) = m + o
    BY <2>1
  <2>3. \A i \in 1..m : R[i] = T[i]
    BY <2>1
  <2>4. \A i \in 1..o : R[m + i] = order[i]
    BY <2>1
  <2>5. /\ \A i \in 1..o : m + i \in 1..(m + o)
        /\ \A i \in 1..(m + o) : i \in 1..m \/ (i - m \in 1..o /\ m + (i - m) = i)
    <3> HIDE DEF m, o
    <3> QED BY <1>6
  <2> QED BY <2>2, <2>3, <2>4, <2>5
<1> HIDE DEF T, R, m, o
\* Those that were waiting are d or d + 1 hops away, the new ones d + 1.
<1>9. ASSUME NEW i \in 1..m
      PROVE  /\ R[i] = Q[i + 1] /\ R[i] \in V /\ Dist(W, R[i]) \in Nat
             /\ d <= Dist(W, R[i]) /\ Dist(W, R[i]) <= d + 1
  <2>1. R[i] = Q[i + 1] /\ i + 1 \in 1..Len(Q) /\ 1 <= i + 1
    BY <1>6, <1>8
  <2>2. R[i] \in V
    BY <1>1, <2>1
  <2> QED BY <1>1, <1>2, <1>6, <2>1, <2>2, DistIsLeast
<1>10. ASSUME NEW i \in 1..(m + o), i \notin 1..m PROVE R[i] \in new /\ Dist(W, R[i]) = d + 1
  BY <1>4, <1>7, <1>8, <1>10
<1> HIDE DEF d
<1>11. ASSUME NEW i \in 1..(m + o), NEW j \in 1..(m + o), i <= j
       PROVE  Dist(W, R[i]) <= Dist(W, R[j]) /\ Dist(W, R[j]) <= Dist(W, R[i]) + 1
  <2>1. CASE j \in 1..m
    <3>1. i \in 1..m /\ i + 1 <= j + 1
      BY <1>6, <1>11, <2>1
    <3>2. i + 1 \in 1..Len(Q) /\ j + 1 \in 1..Len(Q)
      BY <1>6, <2>1, <3>1
    <3>3. R[i] = Q[i + 1] /\ R[j] = Q[j + 1]
      BY <1>9, <2>1, <3>1
    <3> QED BY <1>1, <3>1, <3>2, <3>3
  <2>2. CASE j \notin 1..m
    <3>1. Dist(W, R[j]) = d + 1
      BY <1>10, <2>2
    <3>2. Dist(W, R[i]) \in Nat /\ d <= Dist(W, R[i]) /\ Dist(W, R[i]) <= d + 1
      <4>1. CASE i \in 1..m
        BY <1>9, <4>1
      <4>2. CASE i \notin 1..m
        BY <1>5, <1>10, <4>2
      <4> QED BY <4>1, <4>2
    <3> QED BY <1>5, <3>1, <3>2
  <2> QED BY <2>1, <2>2
<1>12. Tree(qm, E, U, W)
  <2>1. qm \in [Nodes -> Nodes \cup {NoParent}] /\ U \in SUBSET Nodes /\ Source \in U /\ \A n \in U : Reached(W, n)
    BY <1>2, <1>3, <1>5, <1>7
  <2>2. ASSUME NEW n \in U \ {Source}
        PROVE  qm[n] \in U /\ Leads(E, qm[n], n) /\ Dist(W, n) = Dist(W, qm[n]) + 1
    <3>1. CASE n \in new
      <4>1. qm[n] = h
        BY <1>3, <3>1
      <4> QED BY <1>5, <1>7, <3>1, <4>1 DEF d
    <3>2. CASE n \notin new
      <4>1. n \in V \ {Source} /\ qm[n] = pm[n]
        BY <1>2, <3>2
      <4> QED BY <1>2, <4>1
    <3> QED BY <3>1, <3>2
  <2>3. \A n \in Nodes : n \notin U \ {Source} => qm[n] = NoParent
    BY <1>2, <1>3
  <2> HIDE DEF qm, U
  <2> QED BY <2>1, <2>2, <2>3 DEF Tree
<1>13. ASSUME NEW v \in U, \A i \in 1..(m + o) : R[i] # v
       PROVE  v # Destination /\ \A b : Leads(E, v, b) => b \in U
  <2>1. v \notin new
    BY <1>4, <1>8, <1>13
  <2>2. v \in V
    BY <2>1
  <2>3. CASE v = h
    <3>1. ASSUME NEW b, Leads(E, h, b) PROVE b \in U
      <4>1. b \in Nodes
        BY <3>1 DEF Leads, Edges
      <4> QED BY <3>1, <4>1
    <3> QED BY <2>3, <3>1
  <2>4. CASE v # h
    <3>1. ASSUME NEW i \in 1..Len(Q) PROVE Q[i] # v
      <4>1. CASE i = 1
        BY <2>4, <4>1
      <4>2. CASE i - 1 \in 1..m
        <5>1. R[i - 1] = Q[(i - 1) + 1] /\ (i - 1) + 1 = i /\ i - 1 \in 1..(m + o)
          BY <1>6, <1>9, <4>2
        <5> QED BY <1>13, <5>1
      <4> QED BY <1>6, <4>1, <4>2
    <3> QED BY <1>1, <2>2, <3>1
  <2> QED BY <2>3, <2>4
<1>14. ASSUME R # <<>> PROVE W[Dist(W, R[1])] \subseteq U
  <2>1. 1 \in 1..(m + o)
    <3>1. Len(R) # 0
      BY <1>8, <1>14
    <3> QED BY <1>6, <1>8, <3>1
  <2>2. Dist(W, R[1]) = d \/ Dist(W, R[1]) = d + 1
    <3>1. CASE 1 \in 1..m
      BY <1>5, <1>9, <3>1
    <3>2. CASE 1 \notin 1..m
      BY <1>10, <2>1, <3>2
    <3> QED BY <3>1, <3>2
  <2>3. CASE Dist(W, R[1]) = d
    BY <1>1, <2>3 DEF d
  <2>4. CASE Dist(W, R[1]) = d + 1
    <3> SUFFICES ASSUME NEW x \in W[d + 1] PROVE x \in U
      BY <2>4
    <3>1. x \in W[d] \/ x \in Hop(E, W[d])
      BY <1>5 DEF Layered
    <3>2. W[d] \subseteq V
      BY <1>1 DEF d
    <3>3. CASE x \in Hop(E, W[d])
      <4>1. PICK y \in W[d] : Leads(E, y, x)
        BY <3>3 DEF Hop, Leads
      <4>2. y \in V /\ Reached(W, y)
        BY <1>2, <3>2
      <4>3. Dist(W, y) \in Nat /\ Dist(W, y) <= d
        BY <1>5, <4>1, <4>2, DistIsLeast
      <4>4. ASSUME NEW i \in 1..(m + o) PROVE R[i] # y
        <5>1. 1 <= i
          BY <1>6
        <5>2. Dist(W, R[1]) <= Dist(W, R[i])
          BY <1>11, <2>1, <5>1
        <5> QED BY <1>5, <2>4, <4>3, <5>2
      <4> QED BY <1>13, <4>1, <4>2, <4>4
    <3> QED BY <3>1, <3>2, <3>3
  <2> QED BY <2>2, <2>3, <2>4
<1> HIDE DEF U, qm
<1>15. SearchInv(R, U, qm, E, W)
  BY <1>8, <1>11, <1>12, <1>13, <1>14 DEF SearchInv
<1> QED BY <1>15 DEF R, T, U, qm

\* Fewer links reach no more nodes.
LEMMA FewerLinksReachLess ==
  ASSUME NEW E, NEW W, Layered(W, E), NEW E0 \in SUBSET E, NEW W0, Layered(W0, E0), NEW k \in Nat
  PROVE  W0[k] \subseteq W[k]
<1> DEFINE S == {j \in Nat : W0[j] \subseteq W[j]}
<1>1. 0 \in S
  BY DEF Layered
<1>2. ASSUME NEW j \in Nat, j \in S PROVE j + 1 \in S
  <2>1. /\ W0[j] \subseteq W[j] /\ j + 1 \in Nat
        /\ W0[j + 1] = W0[j] \cup Hop(E0, W0[j]) /\ W[j + 1] = W[j] \cup Hop(E, W[j])
    BY <1>2 DEF Layered
  <2>2. Hop(E0, W0[j]) \subseteq Hop(E, W[j])
    BY <2>1 DEF Hop
  <2> QED BY <2>1, <2>2
<1> HIDE DEF S
<1>3. \A j \in Nat : j \in S
  BY <1>1, <1>2, ForAll
<1> QED BY <1>3 DEF S

\* A path of the tree is as short as any path of some of its links.
LEMMA PathIsShortest ==
  ASSUME NEW E, NEW W, Layered(W, E), NEW n, Reached(W, n), NEW p, IsPath(p, E, W, n),
         NEW E0 \in SUBSET E, NEW W0, Layered(W0, E0)
  PROVE  /\ \A k \in 0..(Len(p) - 1) : n \notin W0[k]
         /\ p = <<>> => Source = n
<1> DEFINE D == Dist(W, n)
<1>1. D \in Nat /\ (\A k \in Nat : n \in W[k] <=> D <= k) /\ (D = 0 <=> n = Source)
  BY DistIsLeast
<1>2. Len(p) = D
  BY DEF IsPath
<1> HIDE DEF D
<1>3. ASSUME NEW k \in 0..(Len(p) - 1) PROVE n \notin W0[k]
  <2>1. k \in Nat /\ ~ (D <= k)
    BY <1>1, <1>2
  <2>2. W0[k] \subseteq W[k]
    BY <2>1, FewerLinksReachLess
  <2> QED BY <1>1, <2>1, <2>2
<1>4. p = <<>> => D = 0
  BY <1>2
<1> QED BY <1>1, <1>3, <1>4

\* A search that ran dry has visited all there is to reach.
LEMMA AllReachedWasVisited ==
  ASSUME NEW E \in SUBSET Edges, NEW W, Layered(W, E), NEW V, NEW pm, SearchInv(<<>>, V, pm, E, W), NEW k \in Nat
  PROVE  W[k] \subseteq V /\ Destination \notin W[k]
<1>1. Len(<<>>) = 0 /\ 1..0 = {}
  OBVIOUS
<1>2. \A v \in V : v # Destination /\ \A b : Leads(E, v, b) => b \in V
  BY <1>1 DEF SearchInv
<1>3. Source \in V
  BY DEF SearchInv, Tree
<1> DEFINE S == {j \in Nat : W[j] \subseteq V}
<1>4. 0 \in S
  BY <1>3 DEF Layered
<1>5. ASSUME NEW j \in Nat, j \in S PROVE j + 1 \in S
  <2>1. W[j] \subseteq V /\ W[j + 1] = W[j] \cup Hop(E, W[j]) /\ j + 1 \in Nat
    BY <1>5 DEF Layered
  <2>2. ASSUME NEW x \in Hop(E, W[j]) PROVE x \in V
    <3>1. PICK y \in W[j] : Leads(E, y, x)
      BY <2>2 DEF Hop, Leads
    <3> QED BY <1>2, <2>1, <3>1
  <2> QED BY <2>1, <2>2
<1> HIDE DEF S
<1>6. \A j \in Nat : j \in S
  BY <1>4, <1>5, ForAll
<1> QED BY <1>2, <1>6 DEF S

RouteIInv ==
  /\ RoutingTypeOK
  /\ search = "none" => visited = {} /\ frontier = <<>> /\ parent_map = [n \in Nodes |-> NoParent]
  /\ search = "running" => SearchInv(frontier, visited, parent_map, edges, Hops(edges))
  /\ RouteIsExact

LEMMA LayersOfEdges == ASSUME NEW E \in SUBSET Edges PROVE Layered(Hops(E), E)
  BY HopsGrow DEF Layered

\* The links that meet the constraints have their hops too.
LEMMA LayersOfMeeting ==
  ASSUME edges \in SUBSET Edges
  PROVE  Meeting \in SUBSET edges /\ Layered(Within, Meeting)
<1>1. Meeting \in SUBSET edges /\ Meeting \in SUBSET Edges
  BY DEF Meeting
<1>2. Layered(Hops(Meeting), Meeting)
  BY <1>1, LayersOfEdges
<1> QED BY <1>1, <1>2, WithinIsHops

LEMMA RoutingInitially == RoutingInit => RouteIInv
<1> SUFFICES ASSUME RoutingInit PROVE RouteIInv
  OBVIOUS
<1>1. RoutingTypeOK
  BY RoutingAssumption DEF RoutingInit, RoutingTypeOK
<1> QED BY <1>1 DEF RoutingInit, RouteIInv, RouteIsExact, RouteIsShortest, NoneMeansUnreachable

LEMMA RoutingPreserves == ASSUME RouteIInv, [RoutingNext]_routingVars PROVE RouteIInv'
<1> DEFINE W == Hops(edges)
<1>1. /\ edges \in SUBSET Edges /\ frontier \in Seq(Nodes) /\ visited \in SUBSET Nodes
      /\ parent_map \in [Nodes -> Nodes \cup {NoParent}] /\ route \in Seq(Nodes \X Nodes)
      /\ RoutingTypeOK
  BY DEF RouteIInv, RoutingTypeOK
<1>2. Layered(W, edges)
  BY <1>1, LayersOfEdges
<1>3. ASSUME NEW e \in Links, AddEdge(e) PROVE RouteIInv'
  <2>1. edges' \in SUBSET Edges /\ search = "none" /\ UNCHANGED <<search, frontier, visited, parent_map, route>>
    BY <1>1, <1>3, RoutingAssumption DEF AddEdge, Edges
  <2>2. RoutingTypeOK'
    BY <1>1, <2>1 DEF RoutingTypeOK
  <2> QED BY <2>1, <2>2 DEF RouteIInv, RouteIsExact, RouteIsShortest, NoneMeansUnreachable
<1>4. CASE FindRoute
  <2>1. /\ search = "none" /\ search' = "running" /\ frontier' = <<Source>> /\ visited' = {Source}
        /\ edges' = edges /\ parent_map' = parent_map /\ route' = route
        /\ parent_map = [n \in Nodes |-> NoParent]
    BY <1>4 DEF FindRoute, RouteIInv
  <2>2. SearchInv(frontier', visited', parent_map', edges', Hops(edges'))
    BY <1>2, <2>1, SearchBegins
  <2>3. RoutingTypeOK'
    BY <1>1, <2>1, RoutingAssumption DEF RoutingTypeOK
  <2> QED BY <2>1, <2>2, <2>3 DEF RouteIInv, RouteIsExact, RouteIsShortest, NoneMeansUnreachable
<1>5. CASE Explore
  <2> DEFINE h == frontier[1]
             new == {b \in Nodes : Leads(edges, h, b)} \ visited
  <2>1. /\ search = "running" /\ search' = "running" /\ frontier # <<>> /\ edges' = edges /\ route' = route
        /\ Head(frontier) = h /\ h # Destination
    BY <1>1, <1>5 DEF Explore
  <2>2. Neighbors(h) = new
    BY <1>1 DEF Neighbors, Leads, Edges
  <2>3. PICK order \in Orders(new) : frontier' = Tail(frontier) \o order
    BY <1>5, <2>1, <2>2 DEF Explore
  <2>4. visited' = visited \cup new /\ parent_map' = [n \in Nodes |-> IF n \in new THEN h ELSE parent_map[n]]
    BY <1>5, <2>1, <2>2 DEF Explore, Marked
  <2>5. SearchInv(frontier, visited, parent_map, edges, W)
    BY <2>1 DEF RouteIInv
  <2>6. SearchInv(frontier', visited', parent_map', edges', Hops(edges'))
    <3>0. new = {b \in Nodes : Leads(edges, frontier[1], b)} \ visited /\ h = frontier[1]
      OBVIOUS
    <3> HIDE DEF W, new, h
    <3>1. SearchInv(Tail(frontier) \o order, visited \cup new, [n \in Nodes |-> IF n \in new THEN frontier[1] ELSE parent_map[n]], edges, W)
      <4>1. edges \in SUBSET Edges /\ Layered(W, edges) /\ frontier # <<>> /\ frontier[1] # Destination
        BY <1>1, <1>2, <2>1, <3>0
      <4>2. order \in Orders(new)
        BY <2>3
      <4> QED BY ONLY <2>5, <3>0, <4>1, <4>2, SearchGoesOn
    <3> QED BY <2>1, <2>3, <2>4, <3>0, <3>1 DEF W
  <2> HIDE DEF new, h
  <2>7. /\ parent_map' \in [Nodes -> Nodes \cup {NoParent}] /\ visited' \in SUBSET Nodes
        /\ \A n \in Nodes : n \notin visited' \ {Source} => parent_map'[n] = NoParent
        /\ frontier' \in Seq(visited')
    BY <2>6 DEF SearchInv, Tree
  <2>8. frontier' \in Seq(Nodes)
    BY <2>7
  <2>9. RoutingTypeOK'
    BY <1>1, <2>1, <2>7, <2>8 DEF RoutingTypeOK
  <2> QED BY <2>1, <2>6, <2>9 DEF RouteIInv, RouteIsExact, RouteIsShortest, NoneMeansUnreachable
<1>6. CASE Return
  <2>1. /\ search = "running" /\ frontier # <<>> /\ frontier[1] = Destination /\ search' = "found"
        /\ route' = RoutesBy(parent_map)[Destination]
        /\ edges' = edges /\ frontier' = frontier /\ visited' = visited /\ parent_map' = parent_map
    BY <1>1, <1>6, PathToIsPaths DEF Return
  <2>2. SearchInv(frontier, visited, parent_map, edges, W)
    BY <2>1 DEF RouteIInv
  <2>3. Tree(parent_map, edges, visited, W) /\ Destination \in visited
    BY <2>1, <2>2 DEF SearchInv
  <2>4. Reached(W, Destination)
    BY <2>3 DEF Tree
  <2> DEFINE p == route'
  <2> HIDE DEF W
  <2>5. IsPath(p, edges, W, Destination)
    BY <1>2, <2>1, <2>3, PathsArePaths
  <2>6. /\ \A k \in 0..(Len(p) - 1) : Destination \notin Within[k]
        /\ p = <<>> => Source = Destination
    <3>1. Meeting \in SUBSET edges /\ Layered(Within, Meeting)
      BY <1>1, LayersOfMeeting
    <3> HIDE DEF p
    <3> QED BY <1>2, <2>4, <2>5, <3>1, PathIsShortest
  <2>7. p \in Seq(Nodes \X Nodes) /\ DOMAIN p = 1..Len(p)
    BY <2>5 DEF IsPath
  <2>8. \A i \in DOMAIN p : \E e \in edges : e.visible /\ <<e.from, e.to>> = p[i]
    <3> SUFFICES ASSUME NEW i \in DOMAIN p PROVE \E e \in edges : e.visible /\ <<e.from, e.to>> = p[i]
      OBVIOUS
    <3>1. Leads(edges, p[i][1], p[i][2])
      BY <2>5, <2>7 DEF IsPath
    <3>2. p[i] \in Nodes \X Nodes
      BY <2>7
    <3>3. p[i] = <<p[i][1], p[i][2]>>
      BY <3>2
    <3> QED BY <3>1, <3>3 DEF Leads
  <2>9. /\ \A i \in 1..(Len(p) - 1) : p[i][2] = p[i + 1][1]
        /\ p # <<>> => p[1][1] = Source /\ p[Len(p)][2] = Destination
    BY <2>5 DEF IsPath
  <2>10. Within' = Within
    BY <2>1, WithinIsHops DEF Meeting
  <2>11. RouteIsShortest'
    BY <2>1, <2>6, <2>8, <2>9, <2>10 DEF RouteIsShortest
  <2>12. RoutingTypeOK'
    BY <1>1, <2>1, <2>7 DEF RoutingTypeOK
  <2> QED BY <2>1, <2>11, <2>12 DEF RouteIInv, RouteIsExact, NoneMeansUnreachable
<1>7. CASE Exhaust
  <2>1. /\ search = "running" /\ frontier = <<>> /\ search' = "exhausted"
        /\ edges' = edges /\ frontier' = frontier /\ visited' = visited /\ parent_map' = parent_map /\ route' = route
    BY <1>7 DEF Exhaust
  <2>2. SearchInv(<<>>, visited, parent_map, edges, W)
    BY <2>1 DEF RouteIInv
  <2>3. max_hops \in Nat /\ Meeting \in SUBSET edges /\ Layered(Within, Meeting)
    BY <1>1, LayersOfMeeting, RoutingAssumption
  <2>4. Destination \notin Within[max_hops]
    <3> HIDE DEF W
    <3>1. Destination \notin W[max_hops]
      BY <1>1, <1>2, <2>2, <2>3, AllReachedWasVisited
    <3>2. Within[max_hops] \subseteq W[max_hops]
      BY <1>2, <2>3, FewerLinksReachLess
    <3> QED BY <3>1, <3>2
  <2>5. NoneMeansUnreachable'
    <3>1. Within' = Within
      BY <2>1, WithinIsHops DEF Meeting
    <3> QED BY <2>1, <2>4, <3>1 DEF NoneMeansUnreachable
  <2>6. RoutingTypeOK'
    BY <1>1, <2>1 DEF RoutingTypeOK
  <2> QED BY <2>1, <2>5, <2>6 DEF RouteIInv, RouteIsExact, RouteIsShortest
<1>8. CASE UNCHANGED routingVars
  <2>1. /\ edges' = edges /\ frontier' = frontier /\ visited' = visited /\ parent_map' = parent_map /\ route' = route
        /\ search' = search
    BY <1>8 DEF routingVars
  <2>2. Within' = Within
    BY <2>1, WithinIsHops DEF Meeting
  <2>3. RoutingTypeOK'
    BY <1>1, <2>1 DEF RoutingTypeOK
  <2> QED BY <2>1, <2>2, <2>3 DEF RouteIInv, RouteIsExact, RouteIsShortest, NoneMeansUnreachable
<1> QED BY <1>3, <1>4, <1>5, <1>6, <1>7, <1>8 DEF RoutingNext

----------------------------------------------------------------------------
(* The optical terminal *)

\* The optical terminal keeps its promises: an acquisition asked for waits in the queue
\* of scheduler.rs, was handed out or was cancelled, once; the pointing model applies
\* the mean of what is recent and rejects only outliers; of the paths that meet the
\* constraints of find_route() none is shorter than the one it returns, and there is none
\* when it returns None; the link of link/ knows since when it is up, reports a
\* degradation when a threshold is crossed and tracks its hand-offs; for any requests,
\* measurements, graph of nodes and qualities.
THEOREM OpticalTerminalStaysSound ==
  AcquisitionQueueSpec /\ PointingSpec /\ RoutingSpec /\ OpticalLinkSpec => []OpticalTerminalIsSound
<1>1. AcquisitionQueueSpec => []EveryRequestIsAccountedFor
  <2>1. AcquisitionQueueInit => QueueIInv
    BY QueueInitially
  <2>2. QueueIInv /\ [AcquisitionQueueNext]_schedulerQueueVars => QueueIInv'
    BY QueuePreserves
  <2>3. QueueIInv => EveryRequestIsAccountedFor
    BY DEF QueueIInv
  <2> QED BY <2>1, <2>2, <2>3, PTL DEF AcquisitionQueueSpec
<1>2. PointingSpec => []CorrectionIsSound
  <2>1. PointingInit => PointingIInv
    BY PointingInitially
  <2>2. PointingIInv /\ [PointingNext]_pointingVars => PointingIInv'
    BY PointingPreserves
  <2>3. PointingIInv => CorrectionIsSound
    BY PointingIsSound
  <2> QED BY <2>1, <2>2, <2>3, PTL DEF PointingSpec
<1>3. RoutingSpec => []RouteIsExact
  <2>1. RoutingInit => RouteIInv
    BY RoutingInitially
  <2>2. RouteIInv /\ [RoutingNext]_routingVars => RouteIInv'
    BY RoutingPreserves
  <2>3. RouteIInv => RouteIsExact
    BY DEF RouteIInv
  <2> QED BY <2>1, <2>2, <2>3, PTL DEF RoutingSpec
<1>4. OpticalLinkSpec => []OpticalLinkIsSound
  <2>1. OpticalLinkInit => LinkIInv
    BY LinkInitially
  <2>2. LinkIInv /\ [OpticalLinkNext]_opticalLinkVars => LinkIInv'
    BY LinkPreserves
  <2>3. LinkIInv => OpticalLinkIsSound
    BY LinkIsSound
  <2> QED BY <2>1, <2>2, <2>3, PTL DEF OpticalLinkSpec
<1>5. EveryRequestIsAccountedFor /\ CorrectionIsSound /\ RouteIsExact /\ OpticalLinkIsSound => OpticalTerminalIsSound
  BY DEF OpticalTerminalIsSound
<1> QED BY <1>1, <1>2, <1>3, <1>4, <1>5, PTL

----------------------------------------------------------------------------
(* The gain control, and the types of the whole station *)

GainIInv ==
  /\ agc_mode \in AgcMode /\ agc_enabled \in BOOLEAN
  /\ gain \in [Amplifiers -> AmplifierRange]
  /\ attenuation \in [Attenuators -> 0..MaxAttenuation]

\* Rounding to a step does not leave the range, because the steps divide it.
LEMMA RoundedStaysInRange ==
  ASSUME NEW M \in Nat, NEW s \in Nat \ {0}, M % s = 0, NEW db \in 0..M
  PROVE  ((2 * db + s) \div (2 * s)) * s \in 0..M
<1> DEFINE a == 2 * db + s
           d == 2 * s
           q == a \div d
           k == M \div s
<1>1. a \in Nat /\ d \in Nat \ {0} /\ k \in Nat /\ M = k * s
  OBVIOUS
<1>2. q \in Nat /\ q * d <= a
  <2> HIDE DEF a, d
  <2> QED BY <1>1
<1>3. q * d = 2 * (q * s) /\ q * s \in Nat
  <2> HIDE DEF q
  <2> QED BY <1>2
<1> HIDE DEF q, k
<1>4. 2 * (q * s) <= 2 * db + s
  BY <1>2, <1>3
<1>5. q <= k
  <2> SUFFICES ASSUME q >= k + 1 PROVE FALSE
    BY <1>1, <1>2
  <2>1. q * s >= (k + 1) * s
    BY <1>1, <1>2
  <2>2. (k + 1) * s = M + s
    BY <1>1
  <2> DEFINE p == q * s
  <2>3. p \in Nat /\ p >= M + s /\ 2 * p <= 2 * db + s
    BY <1>3, <1>4, <2>1, <2>2
  <2> HIDE DEF p
  <2> QED BY <2>3
<1>6. q * s <= k * s
  BY <1>1, <1>2, <1>5
<1> QED BY <1>1, <1>3, <1>6 DEF q

LEMMA AttenuationStaysInRange ==
  ASSUME GainIInv, NEW b \in Attenuators, NEW db
  PROVE  SetAttenuation(b, db) \in 0..MaxAttenuation
  BY GainAssumption, RoundedStaysInRange DEF SetAttenuation, GainIInv

LEMMA GainStaysInRange ==
  ASSUME GainIInv, NEW a \in Amplifiers, NEW db
  PROVE  SetGain(a, db) \in AmplifierRange
  BY DEF SetGain, GainIInv

LEMMA GainPreserves == ASSUME GainIInv, [GainNext]_gainVars PROVE GainIInv'
<1>1. agc_mode' \in AgcMode /\ agc_enabled' \in BOOLEAN
  <2>1. ASSUME NEW m \in AgcMode, SetMode(m) PROVE agc_mode' \in AgcMode /\ agc_enabled' \in BOOLEAN
    BY <2>1 DEF SetMode, GainIInv
  <2>2. ASSUME NEW on \in BOOLEAN, SetEnabled(on) PROVE agc_mode' \in AgcMode /\ agc_enabled' \in BOOLEAN
    BY <2>2 DEF SetEnabled, GainIInv
  <2>3. CASE UNCHANGED <<agc_mode, agc_enabled>>
    BY <2>3 DEF GainIInv
  <2>4. \A c \in Reporters : Proceed(c) => UNCHANGED <<agc_mode, agc_enabled>>
    BY DEF Proceed, ReadEnabled, ReadMode, ReadLevel, AdjustAmplifiers, AdjustAttenuators, configured
  <2> QED BY <2>1, <2>2, <2>3, <2>4
          DEF GainNext, ReportLevel, SetManualGain, ResetAttenuators, AddAmplifier, AddAttenuator, configured, gainVars
<1>2. gain' \in [Amplifiers -> AmplifierRange]
  <2>1. ASSUME NEW c \in Reporters, AdjustAmplifiers(c) PROVE gain' \in [Amplifiers -> AmplifierRange]
    BY <2>1, GainStaysInRange DEF AdjustAmplifiers, GainIInv
  <2>2. ASSUME NEW db \in ManualGains, SetManualGain(db) PROVE gain' \in [Amplifiers -> AmplifierRange]
    BY <2>2, GainStaysInRange DEF SetManualGain, GainIInv
  <2>3. CASE UNCHANGED gain
    BY <2>3 DEF GainIInv
  <2>4. \A c \in Reporters : Proceed(c) => AdjustAmplifiers(c) \/ UNCHANGED gain
    BY DEF Proceed, ReadEnabled, ReadMode, ReadLevel, AdjustAttenuators
  <2> QED BY <2>1, <2>2, <2>3, <2>4
          DEF GainNext, ReportLevel, ResetAttenuators, SetMode, SetEnabled, AddAmplifier, AddAttenuator, gainVars
<1>3. attenuation' \in [Attenuators -> 0..MaxAttenuation]
  <2>1. ASSUME NEW c \in Reporters, AdjustAttenuators(c) PROVE attenuation' \in [Attenuators -> 0..MaxAttenuation]
    BY <2>1, AttenuationStaysInRange DEF AdjustAttenuators, GainIInv
  <2>2. CASE ResetAttenuators
    BY <2>2, AttenuationStaysInRange DEF ResetAttenuators, GainIInv
  <2>3. CASE UNCHANGED attenuation
    BY <2>3 DEF GainIInv
  <2>4. \A c \in Reporters : Proceed(c) => AdjustAttenuators(c) \/ UNCHANGED attenuation
    BY DEF Proceed, ReadEnabled, ReadMode, ReadLevel, AdjustAmplifiers
  <2> QED BY <2>1, <2>2, <2>3, <2>4
          DEF GainNext, ReportLevel, SetManualGain, SetMode, SetEnabled, AddAmplifier, AddAttenuator, gainVars
<1> QED BY <1>1, <1>2, <1>3 DEF GainIInv

LEMMA GainIsTyped == GainSpec => []GainTypeOK
<1>1. GainInit => GainIInv
  <2>1. 0 \in AmplifierRange /\ 0 \in 0..MaxAttenuation
    BY GainAssumption
  <2>2. GainInit => gain \in [Amplifiers -> AmplifierRange] /\ attenuation \in [Attenuators -> 0..MaxAttenuation]
    BY <2>1 DEF GainInit
  <2> QED BY <2>2 DEF GainInit, GainIInv, AgcMode
<1>2. GainIInv => GainTypeOK
  BY DEF GainIInv, GainTypeOK
<1> QED BY <1>1, <1>2, GainPreserves, PTL DEF GainSpec

LEMMA LinkIsTyped == ASSUME LinkIInv PROVE OpticalLinkTypeOK
<1>1. PhaseIInv /\ MetricIInv /\ FailoverIInv
  BY DEF LinkIInv
<1>2. link.phase.is \in {"Scheduled", "Acquiring", "Established", "Degrading", "Failed"}
  <2>1. link.phase \in LinkPhases
    BY <1>1 DEF PhaseIInv
  <2> QED BY <2>1 DEF LinkPhases
<1>3. Len(metric_history) <= Max({1, max_size})
  <2>1. Room \in Nat /\ Len(measured) \in Nat
    BY <1>1, RoomIsPositive DEF MetricIInv
  <2>2. Len(metric_history) <= Room
    BY <1>1, <2>1 DEF MetricIInv
  <2> QED BY <2>2 DEF Room
<1> QED BY <1>1, <1>2, <1>3 DEF PhaseIInv, FailoverIInv, OpticalLinkTypeOK

\* Every component around the pass keeps the types of its state, whatever the others
\* do, for any tasks, passes, devices, plans and graphs: the calls of the interlock
\* hold only verdicts it can give, pids are never reused, a proposal that was
\* executed has its result, a gain and an attenuation are ones the devices accept even
\* after rounding, and no history, table or queue outgrows its bound.
THEOREM StationTypeCorrect ==
  /\ SafetySpec /\ AntennaSpec /\ SupervisorSpec /\ ProposalsSpec
  /\ AcquisitionQueueSpec /\ PatSpec /\ PointingSpec /\ RoutingSpec
  /\ GainSpec /\ TwinSpec /\ FrontEndSpec /\ OpticalLinkSpec
  => []StationTypeOK
<1>1. AcquisitionQueueSpec => []AcquisitionQueueTypeOK
  <2>1. QueueIInv => AcquisitionQueueTypeOK
    BY DEF QueueIInv
  <2> QED BY <2>1, QueueInitially, QueuePreserves, PTL DEF AcquisitionQueueSpec
<1>2. PointingSpec => []PointingTypeOK
  <2>1. PointingIInv => PointingTypeOK
    BY DEF PointingIInv
  <2> QED BY <2>1, PointingInitially, PointingPreserves, PTL DEF PointingSpec
<1>3. RoutingSpec => []RoutingTypeOK
  <2>1. RouteIInv => RoutingTypeOK
    BY DEF RouteIInv
  <2> QED BY <2>1, RoutingInitially, RoutingPreserves, PTL DEF RoutingSpec
<1>4. OpticalLinkSpec => []OpticalLinkTypeOK
  BY LinkInitially, LinkPreserves, LinkIsTyped, PTL DEF OpticalLinkSpec
<1>5. /\ SafetyTypeOK /\ AntennaTypeOK /\ SupervisorTypeOK /\ ProposalsTypeOK
      /\ AcquisitionQueueTypeOK /\ PatTypeOK /\ PointingTypeOK /\ RoutingTypeOK
      /\ GainTypeOK /\ TwinTypeOK /\ FrontEndTypeOK /\ OpticalLinkTypeOK
      => StationTypeOK
  BY DEF StationTypeOK
<1> QED BY <1>1, <1>2, <1>3, <1>4, <1>5, SafetyIsTyped, AntennaIsTyped, SupervisorIsTyped, ProposalsAreTyped,
           PatIsTyped, GainIsTyped, TwinIsTyped, FrontEndIsTyped, PTL

============================================================================
