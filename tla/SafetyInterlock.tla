-------------------------- MODULE SafetyInterlock --------------------------
(***************************************************************************)
(* The antenna's safety interlock and its emergency stop                   *)
(* (acs/src/safety.rs).  Both are shared: every method takes `&self`, the  *)
(* flags are atomics and the rest is behind tokio RwLocks, so a call is    *)
(* modelled as its steps between awaits and calls of several tasks         *)
(* interleave.                                                             *)
(***************************************************************************)
EXTENDS Integers, FiniteSets

CONSTANTS
  Tasks,       \* the tasks that call the interlock
  Stoppers,    \* the tasks that call the EmergencyStop
  MaxTriggers  \* bound: triggers of the EmergencyStop, numbered 1, 2, ...

NoTask == "no task"

ASSUME SafetyAssumption == MaxTriggers \in Nat /\ NoTask \notin Stoppers

VARIABLES
  interlock,        \* SafetyInterlock::state
  emergency_stop,   \* its atomic flag
  heartbeat_fresh,  \* check_watchdog(): the last heartbeat is recent enough
  zones,            \* a collision zone is configured
  call,             \* each task's call of the interlock
  early,            \* history: the calls in flight older than the current stop
  triggered, trigger_time, trigger_reason,  \* EmergencyStop's three fields
  time_lock,        \* who holds trigger_time's write lock
  stopper,          \* each stopper's call of the EmergencyStop
  triggers          \* triggers so far

interlockVars == <<interlock, emergency_stop, heartbeat_fresh, zones, call, early>>
stopVars == <<triggered, trigger_time, trigger_reason, time_lock, stopper, triggers>>
safetyVars == <<interlockVars, stopVars>>

InterlockState ==
  {"Normal", "PositionLimit", "Collision", "MotorFault", "EmergencyStop",
   "WatchdogTimeout", "CommunicationLost"}

\* Where a commanded position lies: outside the axis limits, inside a
\* configured collision zone, or neither.
Positions == {"Free", "InZone", "OutOfLimits"}

NoCall == [at |-> "idle"]
\* `position` is checked after the flag was seen clear.
Checking(position) == [at |-> "checks", position |-> position]
\* `verdict` is decided and waits for the state's write lock.
Writing(verdict) == [at |-> "write", verdict |-> verdict]

Calls ==
  {NoCall} \cup {Checking(p) : p \in Positions} \cup {Writing(v) : v \in InterlockState}

\* A numbered trigger's time and reason; 0 is None.
Stamps == 0..MaxTriggers
Idle == [at |-> "idle", stamp |-> 0]
StopCalls == [at : {"idle", "time", "reason"}, stamp : Stamps]

SafetyTypeOK ==
  /\ interlock \in InterlockState
  /\ emergency_stop \in BOOLEAN
  /\ heartbeat_fresh \in BOOLEAN
  /\ zones \in BOOLEAN
  /\ call \in [Tasks -> Calls]
  /\ early \subseteq Tasks
  /\ triggered \in BOOLEAN
  /\ trigger_time \in Stamps
  /\ trigger_reason \in Stamps
  /\ time_lock \in Stoppers \cup {NoTask}
  /\ stopper \in [Stoppers -> StopCalls]
  /\ \A s \in Stoppers : time_lock = s => stopper[s].at = "reason"
  /\ triggers \in Stamps

InterlockInit ==
  /\ interlock = "Normal"
  /\ emergency_stop = FALSE
  /\ heartbeat_fresh = TRUE
  /\ zones = FALSE
  /\ call = [t \in Tasks |-> NoCall]
  /\ early = {}

StopInit ==
  /\ triggered = FALSE
  /\ trigger_time = 0
  /\ trigger_reason = 0
  /\ time_lock = NoTask
  /\ stopper = [s \in Stoppers |-> Idle]
  /\ triggers = 0

SafetyInit == InterlockInit /\ StopInit

----------------------------------------------------------------------------
(* SafetyInterlock                                                         *)

trigger_emergency_stop(t) ==
  /\ call[t] = NoCall
  /\ call' = [call EXCEPT ![t] = Writing("EmergencyStop")]
  /\ emergency_stop' = TRUE
  /\ UNCHANGED <<interlock, heartbeat_fresh, zones>>

clear_emergency_stop(t) ==
  /\ call[t] = NoCall
  /\ call' = [call EXCEPT ![t] = Writing("Normal")]
  /\ emergency_stop' = FALSE
  /\ UNCHANGED <<interlock, heartbeat_fresh, zones>>

\* The flag is not consulted: what a dropped early return would do.
ValidateUnstopped(t, position) ==
  /\ call[t] = NoCall
  /\ call' = [call EXCEPT ![t] = Checking(position)]
  /\ UNCHANGED <<interlock, emergency_stop, heartbeat_fresh, zones>>

validate_position(t, position) ==
  /\ call[t] = NoCall
  /\ call' = [call EXCEPT ![t] = IF emergency_stop
                                 THEN Writing("EmergencyStop")
                                 ELSE Checking(position)]
  /\ UNCHANGED <<interlock, emergency_stop, heartbeat_fresh, zones>>

\* The verdict of the checks, in the order the code makes them.
Verdict(position) ==
  IF position = "OutOfLimits" THEN "PositionLimit"
  ELSE IF position = "InZone" /\ zones THEN "Collision"
  ELSE IF ~heartbeat_fresh THEN "WatchdogTimeout"
  ELSE "Normal"

CheckPosition(t) ==
  /\ call[t].at = "checks"
  /\ call' = [call EXCEPT ![t] = Writing(Verdict(call[t].position))]
  /\ UNCHANGED <<interlock, emergency_stop, heartbeat_fresh, zones>>

\* The write lock is granted: the verdict becomes the state, the call returns.
WriteState(t) ==
  /\ call[t].at = "write"
  /\ interlock' = call[t].verdict
  /\ call' = [call EXCEPT ![t] = NoCall]
  /\ UNCHANGED <<emergency_stop, heartbeat_fresh, zones>>

set_fault(fault) ==
  /\ interlock' = fault
  /\ UNCHANGED <<emergency_stop, heartbeat_fresh, zones, call>>

clear_fault(fault) ==
  /\ interlock = fault
  /\ interlock' = "Normal"
  /\ UNCHANGED <<emergency_stop, heartbeat_fresh, zones, call>>

update_watchdog ==
  /\ heartbeat_fresh' = TRUE
  /\ UNCHANGED <<interlock, emergency_stop, zones, call>>

\* The timeout passes without a heartbeat.
WatchdogExpires ==
  /\ heartbeat_fresh' = FALSE
  /\ UNCHANGED <<interlock, emergency_stop, zones, call>>

\* `&mut self`: no call is in flight.
add_collision_zone ==
  /\ \A t \in Tasks : call[t] = NoCall
  /\ zones' = TRUE
  /\ UNCHANGED <<interlock, emergency_stop, heartbeat_fresh, call>>

Faults == {"MotorFault", "CommunicationLost"}

InterlockStep ==
  \/ \E t \in Tasks :
       \/ trigger_emergency_stop(t)
       \/ clear_emergency_stop(t)
       \/ \E position \in Positions : validate_position(t, position)
       \/ CheckPosition(t)
       \/ WriteState(t)
  \/ \E fault \in Faults : set_fault(fault) \/ clear_fault(fault)
  \/ update_watchdog
  \/ WatchdogExpires
  \/ add_collision_zone

\* When the flag goes up, the calls in flight are older than this stop.
InterlockNext ==
  /\ InterlockStep
  /\ early' = IF emergency_stop' /\ ~emergency_stop
              THEN {t \in Tasks : call[t] # NoCall}
              ELSE {t \in early : call'[t] # NoCall}

----------------------------------------------------------------------------
(* EmergencyStop: the flag first, then the time under its lock, then the   *)
(* reason while the time's lock is still held.                             *)

trigger(s) ==
  /\ stopper[s] = Idle
  /\ triggers < MaxTriggers
  /\ triggers' = triggers + 1
  /\ triggered' = TRUE
  /\ stopper' = [stopper EXCEPT ![s] = [at |-> "time", stamp |-> triggers + 1]]
  /\ UNCHANGED <<trigger_time, trigger_reason, time_lock>>

clear(s) ==
  /\ stopper[s] = Idle
  /\ triggered' = FALSE
  /\ stopper' = [stopper EXCEPT ![s] = [at |-> "time", stamp |-> 0]]
  /\ UNCHANGED <<trigger_time, trigger_reason, time_lock, triggers>>

\* The time's write lock is granted and kept.
WriteTime(s) ==
  /\ stopper[s].at = "time"
  /\ time_lock = NoTask
  /\ time_lock' = s
  /\ trigger_time' = stopper[s].stamp
  /\ stopper' = [stopper EXCEPT ![s].at = "reason"]
  /\ UNCHANGED <<triggered, trigger_reason, triggers>>

WriteReason(s) ==
  /\ stopper[s].at = "reason"
  /\ trigger_reason' = stopper[s].stamp
  /\ time_lock' = NoTask
  /\ stopper' = [stopper EXCEPT ![s] = Idle]
  /\ UNCHANGED <<triggered, trigger_time, triggers>>

StopNext == \E s \in Stoppers : trigger(s) \/ clear(s) \/ WriteTime(s) \/ WriteReason(s)

SafetyNext ==
  \/ InterlockNext /\ UNCHANGED stopVars
  \/ StopNext /\ UNCHANGED interlockVars

SafetySpec == SafetyInit /\ [][SafetyNext]_safetyVars

----------------------------------------------------------------------------
(* Properties                                                              *)

\* While the stop stays triggered and no call is left that began before it,
\* the state that shows the stop is only ever replaced by a reported fault:
\* no validation that began under the stop, and no cleared fault, hides it.
StopSticks ==
  [][emergency_stop /\ emergency_stop' /\ interlock = "EmergencyStop" /\ early = {}
       => interlock' \in {"EmergencyStop"} \cup Faults]_safetyVars

\* The recorded time and reason of an emergency stop come from one trigger (or
\* are both None) whenever no call is between its two writes: trigger() and
\* clear() keep the time's guard until the reason is written.
TimeAndReasonAgree == time_lock = NoTask => trigger_time = trigger_reason

\* At rest a state of Normal means the stop is not triggered: "Interlock not
\* triggered", as InterlockState::Normal is described.
NormalMeansNotTriggered ==
  (\A t \in Tasks : call[t] = NoCall) /\ interlock = "Normal" => ~emergency_stop

\* An emergency stop that is shown goes on being shown, or a reported fault is, while
\* it lasts and no older call is left; and its record is of one trigger.
StopIsKept == []TimeAndReasonAgree /\ StopSticks

============================================================================
