---------------------------- MODULE UplinkProofs ----------------------------
(***************************************************************************)
(* The uplink, for every set of commands, passes and callers: the bounded  *)
(* retries of the confirmation tracker, what dequeue() of the command      *)
(* queue hands out and keeps, and the transmissions schedule() inserts;    *)
(* and the stores beside it, for all keys, limits and times: caches,       *)
(* fragments, snapshots, the RF pipeline and the refresh of the elements.  *)
(***************************************************************************)
EXTENDS MCUplink, ProofLemmas

-----------------------------------------------------------------------------
(* The confirmation tracker.  RetriesAreSound is inductive next to the      *)
(* types; the list of the checker task names tracked entries only because   *)
(* nobody removes one while that task has the tracker.                      *)

TrackerIInv ==
  /\ TrackerTypeOK
  /\ RetriesAreSound
  /\ ~ with_checker => timed_out = {}

\* A retry keeps the count within max_retries and gives up only when it is
\* reached.
LEMMA RetryIsBounded ==
  ASSUME TrackerIInv, NEW c \in Commands, Retry(c)
  PROVE  /\ ack_state' \in [Commands -> EntryState \cup {"Untracked"}]
         /\ retry_count' \in [Commands -> Nat]
         /\ overdue' \subseteq Commands
         /\ retry_count'[c] <= max_retries
         /\ ack_state'[c] = "Failed" => retry_count'[c] = max_retries
         /\ ack_state'[c] \in {"Failed", "Transmitting"}
         /\ \A d \in Commands \ {c} : ack_state'[d] = ack_state[d] /\ retry_count'[d] = retry_count[d]
<1> USE TrackerAssumption DEF TrackerIInv, TrackerTypeOK, RetriesAreSound, RetriesBounded, Exhausted
<1>1. CASE Exhausted(c)
  BY <1>1 DEF Retry, EntryState
<1>2. CASE ~ Exhausted(c)
  BY <1>2 DEF Retry, EntryState
<1> QED BY <1>1, <1>2

LEMMA InitTracker == TrackerInit => TrackerIInv
<1> SUFFICES ASSUME TrackerInit PROVE TrackerIInv
  OBVIOUS
<1>1. with_checker \in BOOLEAN /\ timed_out = {}
  BY DEF TrackerInit
<1>2. /\ ack_state \in [Commands -> EntryState \cup {"Untracked"}]
      /\ retry_count \in [Commands -> Nat]
      /\ overdue \subseteq Commands
      /\ nacked \subseteq Commands
      /\ RetriesAreSound
  BY TrackerAssumption DEF TrackerInit, RetriesAreSound, RetriesBounded, FailedForAReason
<1> QED BY <1>1, <1>2 DEF TrackerIInv, TrackerTypeOK

\* Every step of the callers, of time and of the checker task preserves it.
LEMMA NextTracker == TrackerIInv /\ [TrackerNext]_trackerVars => TrackerIInv'
<1> SUFFICES ASSUME TrackerIInv, [TrackerNext]_trackerVars PROVE TrackerIInv'
  OBVIOUS
<1> USE TrackerAssumption
    DEF TrackerIInv, TrackerTypeOK, RetriesAreSound, RetriesBounded, FailedForAReason,
        EntryState, Tracked
<1>1. CASE HandOver
  BY <1>1 DEF HandOver
<1>2. CASE CallerCheck
  BY <1>2 DEF CallerCheck, ByCaller, MarkTimeouts, TimesOut
<1>3. CASE CheckTimeouts
  BY <1>3 DEF CheckTimeouts, MarkTimeouts, TimingOut, TimesOut
<1>4. ASSUME NEW c \in Commands, Track(c) PROVE TrackerIInv'
  BY <1>4 DEF Track, ByCaller
<1>5. ASSUME NEW c \in Commands, HandleAck(c) PROVE TrackerIInv'
  BY <1>5 DEF HandleAck, ByCaller
<1>6. ASSUME NEW c \in Commands, HandleNack(c) PROVE TrackerIInv'
  BY <1>6 DEF HandleNack, ByCaller
<1>7. ASSUME NEW c \in Commands, CallerRetry(c) PROVE TrackerIInv'
  BY <1>7, RetryIsBounded DEF CallerRetry, ByCaller
<1>8. ASSUME NEW c \in Commands, RemoveTracked(c) PROVE TrackerIInv'
  BY <1>8 DEF RemoveTracked, ByCaller
<1>9. ASSUME NEW c \in Commands, TimePasses(c) PROVE TrackerIInv'
  BY <1>9 DEF TimePasses
<1>10. ASSUME NEW c \in Commands, CheckerRetry(c) PROVE TrackerIInv'
  BY <1>10, RetryIsBounded DEF CheckerRetry
<1>11. CASE UNCHANGED trackerVars
  BY <1>11 DEF trackerVars
<1> QED BY <1>1, <1>2, <1>3, <1>4, <1>5, <1>6, <1>7, <1>8, <1>9, <1>10, <1>11 DEF TrackerNext

\* The confirmation tracker retries an entry at most max_retries times and gives a
\* command up only then or when the satellite rejected it since it was tracked,
\* whatever the order of its callers' calls, and after the background task took it.
THEOREM RetriesStayBounded == TrackerSpec => []RetriesAreSound
<1>1. TrackerIInv => RetriesAreSound
  BY DEF TrackerIInv
<1> QED BY <1>1, InitTracker, NextTracker, PTL DEF TrackerSpec

-----------------------------------------------------------------------------
(* The command queue.  DequeueIsSound is inductive next to the type          *)
(* invariant, whose part on `popped` says that a command is in the hands of  *)
(* dequeue() exactly while it checks or marks one.                           *)

QueueIInv == QueueTypeOK /\ DequeueIsSound

LEMMA InitQueue == QueueInit => QueueIInv
BY DEF QueueInit, QueueIInv, QueueTypeOK, DequeueIsSound, PoppedIsReady, QueuedIsReachable,
       CommandState

\* Every call preserves it: what changes a state or a dependency waits until no
\* dequeue() is under way, and what dequeue() takes from the queue it holds.
LEMMA NextQueue == QueueIInv /\ [QueueNext]_queueVars => QueueIInv'
<1> SUFFICES ASSUME QueueIInv, [QueueNext]_queueVars PROVE QueueIInv'
  OBVIOUS
<1> USE CommandAssumption
    DEF QueueIInv, QueueTypeOK, DequeueIsSound, PoppedIsReady, QueuedIsReachable, CommandState
<1>1. ASSUME NEW c \in Commands, Enqueue(c) PROVE QueueIInv'
  BY <1>1 DEF Enqueue
<1>2. ASSUME NEW c \in Commands, Cancel(c) PROVE QueueIInv'
  BY <1>2 DEF Cancel
<1>3. ASSUME NEW c \in Commands, DequeuePop(c) PROVE QueueIInv'
  BY <1>3 DEF DequeuePop
<1>4. ASSUME NEW c \in Commands, NEW D \in Dependencies, EnqueueWithDependencies(c, D)
      PROVE  QueueIInv'
  BY <1>4, QueueAssumption DEF EnqueueWithDependencies
<1>5. ASSUME NEW c \in Commands, NEW s \in {"Transmitting", "Acknowledged", "Failed"},
             UpdateState(c, s)
      PROVE  QueueIInv'
  BY <1>5 DEF UpdateState
<1>6. CASE DequeueBegin
  BY <1>6 DEF DequeueBegin
<1>7. CASE DequeueNone
  BY <1>7 DEF DequeueNone
<1>8. CASE DequeueSkip
  BY <1>8 DEF DequeueSkip
<1>9. CASE DequeueReady
  BY <1>9 DEF DequeueReady, Satisfied
<1>10. CASE DequeueDropped
  BY <1>10 DEF DequeueDropped
<1>11. CASE UNCHANGED queueVars
  BY <1>11 DEF queueVars, Satisfied
<1> QED BY <1>1, <1>2, <1>3, <1>4, <1>5, <1>6, <1>7, <1>8, <1>9, <1>10, <1>11 DEF QueueNext

\* dequeue() hands out only a command whose dependencies are acknowledged, still
\* when it marks it, and no queued command is lost but one that a dropped
\* dequeue() had taken.
THEOREM DequeueStaysSound == QueueSpec => []DequeueIsSound
<1>1. QueueIInv => DequeueIsSound
  BY DEF QueueIInv
<1> QED BY <1>1, InitQueue, NextQueue, PTL DEF QueueSpec

-----------------------------------------------------------------------------
(* The transmission scheduler.                                               *)

\* A call that has planned has planned a transmission that starts in its window;
\* the windows may change afterwards, the plan keeps the one it was made in.
PlansStartInWindow ==
  \A t \in Tasks :
    call[t].step \in {"planned", "conflict", "clear"}
      => WindowContains(call[t].plan.window, call[t].plan.transmission_time)

\* Only callers call; and when there is one, under a strategy that refuses
\* conflicts, a call about to insert has seen every transmission there is.
LoneCallIsClear ==
  /\ \A t \in Tasks \ callers : call[t] = NoCall
  /\ Cardinality(callers) = 1 /\ conflict_strategy # "Priority" =>
       \A t \in Tasks :
         /\ call[t].step # "conflict"
         /\ call[t].step = "clear" =>
              \A c \in Commands : scheduled[c] # None => ~ Overlap(call[t].plan, scheduled[c])

\* The inductive invariant.  SchedulesAreSound alone says nothing of the calls
\* under way, which insert what they planned steps ago.
SchedulerIInv == SchedulerTypeOK /\ PlansStartInWindow /\ LoneCallIsClear /\ SchedulesAreSound

LEMMA InitScheduler == SchedulerInit => SchedulerIInv
BY SchedulerAssumption
   DEF SchedulerInit, SchedulerIInv, SchedulerTypeOK, PlansStartInWindow, LoneCallIsClear,
       SchedulesAreSound, StartsInItsWindow, SerialCallsDoNotOverlap, NoOverlapOf, Calls, NoCall

\* What a call carries at each of its steps.
LEMMA CallFields ==
  ASSUME NEW x \in Calls
  PROVE  /\ x.step = "sampled" => x.command \in Commands /\ x.now \in 0..MaxTime
         /\ x.step \in {"planned", "conflict", "clear"} =>
              x.command \in Commands /\ x.plan \in Transmissions
         /\ x.step \in {"none", "sampled", "planned", "conflict", "clear"}
<1>1. CASE x = NoCall
  BY <1>1 DEF NoCall
<1>2. CASE x \in [step : {"sampled"}, command : Commands, now : 0..MaxTime]
  BY <1>2
<1>3. CASE x \in [step : {"planned", "conflict", "clear"}, command : Commands, plan : Transmissions]
  BY <1>3
<1> QED BY <1>1, <1>2, <1>3 DEF Calls

\* A call moves on to another step with its command and its plan.
LEMMA CallMovesOn ==
  ASSUME NEW x \in Calls, x.step \in {"planned", "conflict", "clear"},
         NEW step \in {"planned", "conflict", "clear"}
  PROVE  /\ [x EXCEPT !.step = step] \in Calls
         /\ [x EXCEPT !.step = step].step = step
         /\ [x EXCEPT !.step = step].command = x.command
         /\ [x EXCEPT !.step = step].plan = x.plan
<1>1. x \in [step : {"planned", "conflict", "clear"}, command : Commands, plan : Transmissions]
  BY DEF Calls, NoCall
<1> QED BY <1>1 DEF Calls

\* A transmission has its window, its time and its duration.
LEMMA TransmissionFields ==
  ASSUME NEW x \in Transmissions
  PROVE  x.window \in PassWindows /\ x.transmission_time \in Nat /\ x.estimated_duration \in Nat
BY SchedulerAssumption DEF Transmissions

\* The one member of a group of callers.
LEMMA LoneCaller ==
  ASSUME SchedulerTypeOK, Cardinality(callers) = 1, NEW t \in callers, NEW u \in callers
  PROVE  t = u
<1>1. IsFiniteSet(callers)
  BY SchedulerAssumption DEF SchedulerTypeOK
<1>2. PICK x : callers = {x}
  BY <1>1, FS_Singleton
<1> QED BY <1>2

\* Two transmissions overlap or not whichever is named first.
LEMMA OverlapIsSymmetric ==
  ASSUME NEW x, NEW y
  PROVE  Overlap(x, y) <=> Overlap(y, x)
BY DEF Overlap

\* A step of a call that inserts nothing: the call goes on with its plan or ends.
LEMMA CallStepPreserves ==
  ASSUME SchedulerIInv, NEW t \in Tasks, NEW new \in Calls,
         call' = [call EXCEPT ![t] = new],
         UNCHANGED <<clock, windows, scheduled, configVars>>,
         t \in callers \/ new = NoCall,
         new.step \in {"planned", "conflict", "clear"} =>
           WindowContains(new.plan.window, new.plan.transmission_time),
         Cardinality(callers) = 1 /\ conflict_strategy # "Priority" =>
           /\ new.step # "conflict"
           /\ new.step = "clear" =>
                \A c \in Commands : scheduled[c] # None => ~ Overlap(new.plan, scheduled[c])
  PROVE  SchedulerIInv'
<1> USE DEF SchedulerIInv
<1>1. call \in [Tasks -> Calls] /\ \A u \in Tasks : call'[u] = IF u = t THEN new ELSE call[u]
  BY DEF SchedulerTypeOK
<1>2. SchedulerTypeOK'
  BY DEF SchedulerTypeOK, configVars
<1>3. PlansStartInWindow'
  BY <1>1 DEF PlansStartInWindow, WindowContains
<1>4. LoneCallIsClear'
  BY <1>1 DEF LoneCallIsClear, configVars, Overlap
<1>5. SchedulesAreSound'
  BY DEF SchedulesAreSound, StartsInItsWindow, SerialCallsDoNotOverlap, NoOverlapOf, WindowContains, Overlap,
         configVars
<1> QED BY <1>2, <1>3, <1>4, <1>5

\* The insert of a call that saw no conflict keeps transmissions apart: no other
\* call inserted anything since it looked.
LEMMA InsertPreserves ==
  ASSUME SchedulerIInv, NEW t \in Tasks, ScheduleInsert(t)
  PROVE  SchedulerIInv'
<1> USE DEF SchedulerIInv
<1> DEFINE c == call[t].command
           plan == call[t].plan
<1>1. call[t] \in Calls /\ call[t].step = "clear"
  BY DEF ScheduleInsert, SchedulerTypeOK
<1>2. c \in Commands /\ plan \in Transmissions /\ WindowContains(plan.window, plan.transmission_time)
  BY <1>1, CallFields DEF PlansStartInWindow
<1>3. /\ \A d \in Commands : scheduled'[d] = IF d = c THEN plan ELSE scheduled[d]
      /\ \A u \in Tasks : call'[u] = IF u = t THEN NoCall ELSE call[u]
  BY <1>2 DEF ScheduleInsert, SchedulerTypeOK
<1>4. SchedulerTypeOK'
  BY <1>2 DEF ScheduleInsert, SchedulerTypeOK, configVars, Calls
<1>5. PlansStartInWindow'
  BY <1>3 DEF PlansStartInWindow, NoCall, WindowContains
<1>6. NoCall.step = "none"
  BY DEF NoCall
<1>7. LoneCallIsClear'
  <2>1. callers' = callers /\ conflict_strategy' = conflict_strategy
    BY DEF ScheduleInsert, configVars
  <2>2. \A u \in Tasks \ callers : call'[u] = NoCall
    BY <1>3 DEF LoneCallIsClear
  <2>3. ASSUME Cardinality(callers) = 1, NEW u \in Tasks PROVE call'[u] = NoCall
    <3>1. t \in callers
      BY <1>1, <1>6 DEF LoneCallIsClear
    <3>2. CASE u \in callers
      BY <1>3, <2>3, <3>1, <3>2, LoneCaller
    <3>3. CASE u \notin callers
      BY <2>2, <3>3
    <3> QED BY <3>2, <3>3
  <2> QED BY <1>6, <2>1, <2>2, <2>3 DEF LoneCallIsClear
<1>8. StartsInItsWindow'
  BY <1>2, <1>3 DEF SchedulesAreSound, StartsInItsWindow, WindowContains
<1>9. SerialCallsDoNotOverlap'
  <2> SUFFICES ASSUME Cardinality(callers) = 1, conflict_strategy # "Priority",
                      NEW d \in Commands, NEW e \in Commands, d # e,
                      scheduled'[d] # None, scheduled'[e] # None
               PROVE  ~ Overlap(scheduled'[d], scheduled'[e])
    BY DEF SerialCallsDoNotOverlap, NoOverlapOf, ScheduleInsert, configVars, Overlap
  <2>1. \A x \in Commands : scheduled[x] # None => ~ Overlap(plan, scheduled[x])
    BY <1>1 DEF LoneCallIsClear
  <2>2. CASE d = c
    BY <1>3, <2>1, <2>2
  <2>3. CASE e = c
    BY <1>3, <2>1, <2>3, OverlapIsSymmetric
  <2>4. CASE d # c /\ e # c
    BY <1>3, <2>4 DEF SchedulesAreSound, SerialCallsDoNotOverlap, NoOverlapOf
  <2> QED BY <2>2, <2>3, <2>4
<1> QED BY <1>4, <1>5, <1>7, <1>8, <1>9 DEF SchedulesAreSound

\* Every step preserves the invariant.
LEMMA NextScheduler == SchedulerIInv /\ [SchedulerNext]_schedulerVars => SchedulerIInv'
<1> SUFFICES ASSUME SchedulerIInv, [SchedulerNext]_schedulerVars PROVE SchedulerIInv'
  OBVIOUS
<1>0. /\ call \in [Tasks -> Calls]
      /\ NoCall \in Calls /\ NoCall.step = "none"
      /\ \A t \in Tasks : call[t] # NoCall => t \in callers
  BY DEF SchedulerIInv, SchedulerTypeOK, LoneCallIsClear, Calls, NoCall
<1>1. CASE Tick
  BY <1>1, SchedulerAssumption
     DEF Tick, SchedulerIInv, SchedulerTypeOK, PlansStartInWindow, LoneCallIsClear, SchedulesAreSound,
         StartsInItsWindow, SerialCallsDoNotOverlap, NoOverlapOf, WindowContains, Overlap, configVars
<1>2. ASSUME NEW p \in Passes, NEW w \in PassWindows \cup {None},
             windows' = [windows EXCEPT ![p] = w],
             UNCHANGED <<clock, scheduled, call, configVars>>
      PROVE  SchedulerIInv'
  BY <1>2
     DEF SchedulerIInv, SchedulerTypeOK, PlansStartInWindow, LoneCallIsClear, SchedulesAreSound,
         StartsInItsWindow, SerialCallsDoNotOverlap, NoOverlapOf, WindowContains, Overlap, configVars
<1>3. ASSUME NEW t \in Tasks, NEW c \in Commands, ScheduleBegin(t, c) PROVE SchedulerIInv'
  <2> DEFINE new == [step |-> "sampled", command |-> c, now |-> clock]
  <2>1. new \in Calls /\ new.step = "sampled"
    BY DEF SchedulerIInv, SchedulerTypeOK, Calls
  <2> QED BY <1>3, <2>1, CallStepPreserves DEF ScheduleBegin
<1>4. ASSUME NEW t \in Tasks, SchedulePlan(t) PROVE SchedulerIInv'
  <2>1. PICK p \in Passes :
          /\ Suitable(p, call[t].now)
          /\ call' = [call EXCEPT ![t] =
               [step |-> "planned", command |-> @.command,
                plan |-> [window |-> windows[p],
                          transmission_time |-> TransmissionTime(windows[p], @.now),
                          estimated_duration |-> Estimate[@.command, p]]]]
    BY <1>4 DEF SchedulePlan
  <2> DEFINE plan == [window |-> windows[p],
                      transmission_time |-> TransmissionTime(windows[p], call[t].now),
                      estimated_duration |-> Estimate[call[t].command, p]]
             new == [step |-> "planned", command |-> call[t].command, plan |-> plan]
  <2>2. call[t].step = "sampled" /\ call[t].command \in Commands /\ call[t].now \in 0..MaxTime
    BY <1>0, <1>4, CallFields DEF SchedulePlan
  <2>3. windows[p] \in PassWindows
    BY <2>1 DEF SchedulerIInv, SchedulerTypeOK, Suitable
  <2>4. /\ windows[p].start \in 0..MaxTime /\ windows[p].end \in 0..MaxTime
        /\ windows[p].start <= windows[p].end
    BY <2>3, SchedulerAssumption
  <2>5. /\ TransmissionTime(windows[p], call[t].now) \in 0..MaxTime
        /\ WindowContains(windows[p], TransmissionTime(windows[p], call[t].now))
    BY <2>2, <2>4, SchedulerAssumption DEF TransmissionTime, WindowContains
  <2>6. Estimate[call[t].command, p] \in Nat
    BY <2>2, SchedulerAssumption
  <2>7. new \in Calls /\ new.step = "planned" /\ new.plan = plan
    BY <2>2, <2>3, <2>5, <2>6 DEF Calls, Transmissions
  <2>8. call' = [call EXCEPT ![t] = new]
    BY <1>0, <2>1
  <2>9. t \in callers
    BY <1>0, <2>2
  <2>10. WindowContains(new.plan.window, new.plan.transmission_time)
    BY <2>5
  <2> HIDE DEF new
  <2> QED BY <1>4, <2>7, <2>8, <2>9, <2>10, CallStepPreserves DEF SchedulePlan
<1>5. ASSUME NEW t \in Tasks, ScheduleNoWindow(t) PROVE SchedulerIInv'
  BY <1>0, <1>5, CallStepPreserves DEF ScheduleNoWindow
<1>6. ASSUME NEW t \in Tasks, ScheduleCheck(t) PROVE SchedulerIInv'
  <2>1. /\ call[t] \in Calls /\ call[t].step = "planned" /\ t \in callers
        /\ WindowContains(call[t].plan.window, call[t].plan.transmission_time)
    BY <1>0, <1>6 DEF ScheduleCheck, SchedulerIInv, PlansStartInWindow
  <2>2. CASE ~ HasConflict(call[t].plan)
    <3> DEFINE new == [call[t] EXCEPT !.step = "clear"]
    <3>1. new \in Calls /\ new.step = "clear" /\ new.plan = call[t].plan
      BY <2>1, CallMovesOn
    <3>2. call' = [call EXCEPT ![t] = new]
      BY <1>0, <1>6, <2>2 DEF ScheduleCheck
    <3> HIDE DEF new
    <3> QED BY <1>6, <2>1, <2>2, <3>1, <3>2, CallStepPreserves DEF ScheduleCheck, HasConflict
  <2>3. CASE HasConflict(call[t].plan) /\ conflict_strategy # "Priority"
    <3>1. call' = [call EXCEPT ![t] = NoCall]
      BY <1>0, <1>6, <2>3 DEF ScheduleCheck, OnConflict
    <3> QED BY <1>0, <1>6, <3>1, CallStepPreserves DEF ScheduleCheck
  <2>4. CASE HasConflict(call[t].plan) /\ conflict_strategy = "Priority"
    <3> DEFINE new == [call[t] EXCEPT !.step = "conflict"]
    <3>1. new \in Calls /\ new.step = "conflict" /\ new.plan = call[t].plan
      BY <2>1, CallMovesOn
    <3>2. call' = [call EXCEPT ![t] = new]
      BY <1>0, <1>6, <2>4 DEF ScheduleCheck, OnConflict
    <3> HIDE DEF new
    <3> QED BY <1>6, <2>1, <2>4, <3>1, <3>2, CallStepPreserves DEF ScheduleCheck
  <2> QED BY <2>2, <2>3, <2>4
<1>7. ASSUME NEW t \in Tasks, ScheduleOverride(t) PROVE SchedulerIInv'
  <2>1. /\ call[t] \in Calls /\ call[t].step = "conflict" /\ t \in callers
        /\ WindowContains(call[t].plan.window, call[t].plan.transmission_time)
        /\ ~ (Cardinality(callers) = 1 /\ conflict_strategy # "Priority")
    BY <1>0, <1>7 DEF ScheduleOverride, SchedulerIInv, PlansStartInWindow, LoneCallIsClear
  <2>2. CASE CanOverride(call[t].command)
    <3> DEFINE new == [call[t] EXCEPT !.step = "clear"]
    <3>1. new \in Calls /\ new.step = "clear" /\ new.plan = call[t].plan
      BY <2>1, CallMovesOn
    <3>2. call' = [call EXCEPT ![t] = new]
      BY <1>0, <1>7, <2>2 DEF ScheduleOverride
    <3> HIDE DEF new
    <3> QED BY <1>7, <2>1, <3>1, <3>2, CallStepPreserves DEF ScheduleOverride
  <2>3. CASE ~ CanOverride(call[t].command)
    <3>1. call' = [call EXCEPT ![t] = NoCall]
      BY <1>0, <1>7, <2>3 DEF ScheduleOverride
    <3> QED BY <1>0, <1>7, <3>1, CallStepPreserves DEF ScheduleOverride
  <2> QED BY <2>2, <2>3
<1>8. ASSUME NEW t \in Tasks, ScheduleInsert(t) PROVE SchedulerIInv'
  BY <1>8, InsertPreserves
<1>9. ASSUME NEW c \in Commands, RemoveScheduled(c) PROVE SchedulerIInv'
  BY <1>9
     DEF RemoveScheduled, SchedulerIInv, SchedulerTypeOK, PlansStartInWindow, LoneCallIsClear,
         SchedulesAreSound, StartsInItsWindow, SerialCallsDoNotOverlap, NoOverlapOf, WindowContains, Overlap,
         configVars
<1>10. CASE UNCHANGED schedulerVars
  BY <1>10
     DEF schedulerVars, SchedulerIInv, SchedulerTypeOK, PlansStartInWindow, LoneCallIsClear,
         SchedulesAreSound, StartsInItsWindow, SerialCallsDoNotOverlap, NoOverlapOf, WindowContains, Overlap,
         configVars
<1>11. ASSUME NEW p \in Passes, RemoveWindow(p) PROVE SchedulerIInv'
  BY <1>2, <1>11 DEF RemoveWindow
<1>12. ASSUME NEW p \in Passes, NEW w \in PassWindows, AddWindow(p, w) PROVE SchedulerIInv'
  BY <1>2, <1>12 DEF AddWindow
<1> QED BY <1>1, <1>3, <1>4, <1>5, <1>6, <1>7, <1>8, <1>9, <1>10, <1>11, <1>12 DEF SchedulerNext

\* A scheduled transmission starts in the window it was planned in, however the
\* windows change under the calls of schedule(); and calls that follow one
\* another never leave two transmissions that overlap.
THEOREM SchedulesStaySound == SchedulerSpec => []SchedulesAreSound
<1>1. SchedulerIInv => SchedulesAreSound
  BY DEF SchedulerIInv
<1> QED BY <1>1, InitScheduler, NextScheduler, PTL DEF SchedulerSpec

-----------------------------------------------------------------------------
(* The stores.  LruCache: RecentEntriesStay is inductive with two more      *)
(* facts: an entry bears the time of the last use of its key, and no use is *)
(* in the future.                                                           *)

LruIInv ==
  /\ store_now \in Nat
  /\ DOMAIN lru \in SUBSET DOMAIN last_use /\ DOMAIN lru \in SUBSET Entries /\ IsFiniteSet(DOMAIN lru)
  /\ Cardinality(DOMAIN lru) <= (IF max_size = 0 THEN 1 ELSE max_size)
  /\ \A k \in DOMAIN last_use : last_use[k] \in Nat /\ last_use[k] <= store_now
  /\ \A k \in DOMAIN lru : lru[k] = last_use[k]
  /\ RecentEntriesStay

LEMMA SizesAreNatural == max_size \in Nat /\ ttl_seconds \in Nat /\ MaxStoreTime \in Nat
  BY StoresAssumption

LEMMA PutKeeps ==
  ASSUME LruIInv, NEW k \in Entries, PutEntry(k), store_now' = store_now
  PROVE  LruIInv'
<1>1. PICK evicted \in IF Cardinality(DOMAIN lru) >= max_size /\ lru # << >> THEN EvictLru(lru) ELSE {{}} :
        lru' = With(Without(lru, evicted), k, store_now)
  BY DEF PutEntry
<1> DEFINE D == DOMAIN lru
           E == D \ evicted
<1>2. last_use' = With(last_use, k, store_now)
  BY DEF PutEntry
<1>3. DOMAIN last_use' = DOMAIN last_use \cup {k} /\ last_use'[k] = store_now
      /\ \A j \in DOMAIN last_use : j # k => last_use'[j] = last_use[j]
  BY <1>2 DEF With
<1>4. DOMAIN lru' = E \cup {k} /\ lru'[k] = store_now /\ \A j \in E : j # k => lru'[j] = lru[j]
  BY <1>1 DEF With, Without
<1>5. IsFiniteSet(D) /\ Cardinality(D) <= (IF max_size = 0 THEN 1 ELSE max_size)
  BY DEF LruIInv
<1>6. evicted = {} \/ (Cardinality(D) >= max_size /\ \E e \in D : evicted = {e} /\ \A j \in D : lru[e] <= lru[j])
  BY DEF EvictLru, Oldest
<1>7. IsFiniteSet(E \cup {k}) /\ Cardinality(E \cup {k}) <= (IF max_size = 0 THEN 1 ELSE max_size)
  <2> DEFINE d == Cardinality(D)
             e == Cardinality(E)
             c == Cardinality(E \cup {k})
             room == IF max_size = 0 THEN 1 ELSE max_size
  <2>1. IsFiniteSet(E) /\ IsFiniteSet(E \cup {k}) /\ e \in Nat /\ d \in Nat /\ (c = e \/ c = e + 1)
    <3>1. IsFiniteSet(E) /\ d \in Nat
      BY <1>5, FS_Subset, FS_CardinalityType
    <3> HIDE DEF E, D
    <3> QED BY <3>1, FS_AddElement, FS_CardinalityType
  <2>2. max_size \in Nat /\ d <= room
    BY <1>5, SizesAreNatural
  <2>3. CASE evicted # {}
    <3>1. PICK x \in D : evicted = {x}
      BY <1>6, <2>3
    <3>2. e = d - 1
      BY <1>5, <3>1, FS_RemoveElement
    <3> HIDE DEF d, e, c
    <3>3. c <= room
      BY <2>1, <2>2, <3>2
    <3> QED BY <2>1, <3>3 DEF c
  <2>4. CASE evicted = {}
    <3>1. e = d
      <4>1. E = D
        BY <2>4
      <4> QED BY <4>1
    <3>2. ~ (d >= max_size /\ lru # << >>)
      BY <1>1, <2>4 DEF EvictLru
    <3>3. CASE lru = << >>
      <4>1. D = {}
        BY <3>3
      <4>2. d = 0
        BY <4>1, FS_EmptySet
      <4> HIDE DEF d, e, c
      <4>3. c <= room
        BY <2>1, <2>2, <3>1, <4>2
      <4> QED BY <2>1, <4>3 DEF c
    <3>4. CASE ~ (d >= max_size)
      <4> HIDE DEF d, e, c
      <4>3. c <= room
        BY <2>1, <2>2, <3>1, <3>4
      <4> QED BY <2>1, <4>3 DEF c
    <3> QED BY <3>2, <3>3, <3>4
  <2> QED BY <2>3, <2>4
<1>8. ASSUME NEW i \in DOMAIN last_use' \ DOMAIN lru', NEW j \in DOMAIN lru' PROVE last_use'[i] <= last_use'[j]
  <2>0. i \in DOMAIN last_use /\ i # k /\ last_use'[i] = last_use[i] /\ last_use[i] \in Nat /\ last_use[i] <= store_now
    BY <1>3, <1>4 DEF LruIInv
  <2>1. CASE j = k
    BY <1>3, <2>0, <2>1
  <2>2. CASE j # k
    <3>1. j \in E /\ j \in D /\ last_use'[j] = last_use[j] /\ last_use[j] = lru[j]
      BY <1>3, <1>4, <2>2 DEF LruIInv
    <3>2. CASE i \in D
      <4>1. i \in evicted /\ lru[i] <= lru[j] /\ last_use[i] = lru[i]
        BY <1>4, <1>6, <2>0, <3>1, <3>2 DEF LruIInv
      <4> QED BY <2>0, <3>1, <4>1
    <3>3. CASE i \notin D
      <4>1. last_use[i] <= last_use[j]
        BY <2>0, <3>1, <3>3 DEF LruIInv, RecentEntriesStay
      <4> QED BY <2>0, <3>1, <4>1
    <3> QED BY <3>2, <3>3
  <2> QED BY <2>1, <2>2
<1>9. /\ DOMAIN lru' \in SUBSET DOMAIN last_use' /\ DOMAIN lru' \in SUBSET Entries
      /\ \A i \in DOMAIN last_use' : last_use'[i] \in Nat /\ last_use'[i] <= store_now'
      /\ \A i \in DOMAIN lru' : lru'[i] = last_use'[i]
      /\ store_now' \in Nat
  BY <1>3, <1>4 DEF LruIInv
<1> QED BY <1>4, <1>7, <1>8, <1>9 DEF LruIInv, RecentEntriesStay

LEMMA LruPreserves ==
  ASSUME LruIInv, [LruNext]_<<store_now, lruVars>>
  PROVE  LruIInv'
<1>1. ASSUME NEW k \in Entries, GetEntry(k), store_now' = store_now PROVE LruIInv'
  <2>1. /\ k \in DOMAIN lru /\ DOMAIN lru' = DOMAIN lru /\ lru'[k] = store_now
        /\ \A j \in DOMAIN lru : j # k => lru'[j] = lru[j]
    BY <1>1 DEF GetEntry
  <2>2. /\ DOMAIN last_use' = DOMAIN last_use \cup {k} /\ last_use'[k] = store_now
        /\ \A j \in DOMAIN last_use : j # k => last_use'[j] = last_use[j]
    BY <1>1 DEF GetEntry, With
  <2>3. DOMAIN last_use' = DOMAIN last_use
    BY <2>1, <2>2 DEF LruIInv
  <2>4. RecentEntriesStay'
    BY <1>1, <2>1, <2>2, <2>3 DEF LruIInv, RecentEntriesStay
  <2> QED BY <1>1, <2>1, <2>2, <2>3, <2>4 DEF LruIInv
<1>2. ASSUME NEW k \in Entries, RemoveEntry(k), store_now' = store_now PROVE LruIInv'
  <2>1. /\ DOMAIN lru' = DOMAIN lru \ {k} /\ \A j \in DOMAIN lru \ {k} : lru'[j] = lru[j]
        /\ DOMAIN last_use' = DOMAIN last_use \ {k} /\ \A j \in DOMAIN last_use \ {k} : last_use'[j] = last_use[j]
    BY <1>2 DEF RemoveEntry, Without
  <2>2. RecentEntriesStay'
    BY <2>1 DEF LruIInv, RecentEntriesStay
  <2>3. IsFiniteSet(DOMAIN lru') /\ Cardinality(DOMAIN lru') <= (IF max_size = 0 THEN 1 ELSE max_size)
    <3> DEFINE D == DOMAIN lru
               N == DOMAIN lru'
    <3>1. IsFiniteSet(D) /\ N \in SUBSET D /\ Cardinality(D) <= (IF max_size = 0 THEN 1 ELSE max_size)
      BY <2>1 DEF LruIInv
    <3> HIDE DEF D, N
    <3>2. IsFiniteSet(N) /\ Cardinality(N) <= Cardinality(D) /\ Cardinality(D) \in Nat /\ Cardinality(N) \in Nat /\ max_size \in Nat
      BY <3>1, FS_Subset, FS_CardinalityType, SizesAreNatural
    <3>3. IsFiniteSet(N) /\ Cardinality(N) <= (IF max_size = 0 THEN 1 ELSE max_size)
      BY <3>1, <3>2
    <3> QED BY <3>3 DEF N
  <2> QED BY <1>2, <2>1, <2>2, <2>3 DEF LruIInv
<1>3. ASSUME ClearEntries, store_now' = store_now PROVE LruIInv'
  <2>1. DOMAIN lru' = {} /\ DOMAIN last_use' = {}
    BY <1>3 DEF ClearEntries
  <2>2. IsFiniteSet({}) /\ Cardinality({}) = 0 /\ max_size \in Nat
    BY FS_EmptySet, SizesAreNatural
  <2> QED BY <1>3, <2>1, <2>2 DEF LruIInv, RecentEntriesStay
<1>4. ASSUME StoreTimePasses, UNCHANGED lruVars PROVE LruIInv'
  BY <1>4 DEF LruIInv, RecentEntriesStay, lruVars, StoreTimePasses
<1>5. CASE UNCHANGED <<store_now, lruVars>>
  BY <1>5 DEF LruIInv, RecentEntriesStay, lruVars
<1> QED BY <1>1, <1>2, <1>3, <1>4, <1>5, PutKeeps DEF LruNext

-----------------------------------------------------------------------------
(* TimeBasedCache *)

TimedIInv ==
  /\ store_now \in Nat
  /\ DOMAIN timed \in SUBSET Entries
  /\ \A k \in DOMAIN timed : timed[k].created_at \in Nat
  /\ TimedIsFresh

LEMMA TimedPreserves ==
  ASSUME TimedIInv, [TimedNext]_<<store_now, timedVars>>
  PROVE  TimedIInv'
<1>1. ASSUME NEW k \in Entries, NEW value, PutTimed(k, value), store_now' = store_now PROVE TimedIInv'
  <2> DEFINE new == [value |-> value, created_at |-> store_now]
  <2>1. timed' = With(timed, k, new) /\ timed_answer' = {}
    BY <1>1 DEF PutTimed
  <2>2. /\ DOMAIN timed' = DOMAIN timed \cup {k} /\ timed'[k] = new
        /\ \A j \in DOMAIN timed : j # k => timed'[j] = timed[j]
    BY <2>1 DEF With
  <2> QED BY <1>1, <2>1, <2>2 DEF TimedIInv, TimedIsFresh
<1>2. ASSUME NEW k \in Entries, GetTimed(k), store_now' = store_now PROVE TimedIInv'
  <2>1. CASE Expired(timed[k])
    <3>1. timed' = Without(timed, {k}) /\ timed_answer' = {}
      BY <1>2, <2>1 DEF GetTimed
    <3>2. DOMAIN timed' = DOMAIN timed \ {k} /\ \A j \in DOMAIN timed \ {k} : timed'[j] = timed[j]
      BY <3>1 DEF Without
    <3> QED BY <1>2, <3>1, <3>2 DEF TimedIInv, TimedIsFresh
  <2>2. CASE ~ Expired(timed[k])
    <3>1. timed' = timed /\ timed_answer' = {timed[k]} /\ k \in DOMAIN timed
      BY <1>2, <2>2 DEF GetTimed
    <3> DEFINE age == store_now - timed[k].created_at
    <3>2. age \in Int /\ ttl_seconds \in Nat
      BY <3>1, SizesAreNatural DEF TimedIInv
    <3>3. ~ (age \div 2 > ttl_seconds)
      BY <2>2 DEF Expired, num_seconds
    <3> HIDE DEF age
    <3>4. age < 2 * (ttl_seconds + 1)
      BY <3>2, <3>3
    <3> QED BY <1>2, <3>1, <3>4 DEF TimedIInv, TimedIsFresh, age
  <2> QED BY <2>1, <2>2
<1>3. ASSUME RemoveExpired, store_now' = store_now PROVE TimedIInv'
  <2> DEFINE gone == {k \in DOMAIN timed : Expired(timed[k])}
  <2>1. timed' = Without(timed, gone) /\ timed_answer' = {}
    BY <1>3 DEF RemoveExpired
  <2> HIDE DEF gone
  <2>2. DOMAIN timed' = DOMAIN timed \ gone /\ \A j \in DOMAIN timed \ gone : timed'[j] = timed[j]
    BY <2>1 DEF Without
  <2> QED BY <1>3, <2>1, <2>2 DEF TimedIInv, TimedIsFresh
<1>4. ASSUME StoreTimePasses, timed_answer' = {}, timed' = timed PROVE TimedIInv'
  BY <1>4 DEF TimedIInv, TimedIsFresh, StoreTimePasses
<1>5. CASE UNCHANGED <<store_now, timedVars>>
  BY <1>5 DEF TimedIInv, TimedIsFresh, timedVars
<1> QED BY <1>1, <1>2, <1>3, <1>4, <1>5 DEF TimedNext

-----------------------------------------------------------------------------
(* PropagationCache.  A hit is by one of the neighbours of the time, within *)
(* the window; a miss puts the time itself in.                              *)

\* lookup_interpolatable() answers only by an entry within the window.
LEMMA HitsAreNear ==
  ASSUME NEW cached \in SUBSET Nat, NEW time \in Nat, LookupInterpolatable(cached, time) # {}
  PROVE  \E t \in cached : Near(t, time)
<1> DEFINE earlier == {t \in cached : t <= time}
           later == {t \in cached : t >= time}
           b == Max(earlier)
           a == Min(later)
<1>1. earlier # {} => b \in cached
  <2>1. earlier \in SUBSET (0..time)
    <3>1. \A t \in earlier : t \in 0..time
      OBVIOUS
    <3> HIDE DEF earlier
    <3> QED BY <3>1
  <2> HIDE DEF earlier
  <2>2. earlier # {} => Max(earlier) \in earlier
    BY <2>1, MaxIsGreatest
  <2> QED BY <2>2 DEF earlier
<1>2. later # {} => a \in cached
  <2>1. later \in SUBSET Nat
    OBVIOUS
  <2> HIDE DEF later
  <2>2. later # {} => Min(later) \in later
    BY <2>1, MinIsLeast
  <2> QED BY <2>2 DEF later
<1>3. earlier # {} \/ later # {}
  BY DEF LookupInterpolatable
<1>4. later = {} => Near(b, time)
  BY <1>3 DEF LookupInterpolatable
<1>5. later # {} => Near(a, time)
  BY DEF LookupInterpolatable
<1> HIDE DEF b, a, earlier, later
<1> QED BY <1>1, <1>2, <1>3, <1>4, <1>5

OrbitIInv == orbit \in SUBSET Moments /\ StatesAreCovered

LEMMA OrbitPreserves ==
  ASSUME OrbitIInv, [OrbitNext]_<<store_now, orbitVars>>
  PROVE  OrbitIInv'
<1>1. ASSUME NEW time \in Moments, LookupOrCompute(time), store_now' = store_now PROVE OrbitIInv'
  <2> DEFINE kept == {t \in orbit : store_now - t < max_age}
             found == LookupInterpolatable(kept, time)
             position == IF found # {} THEN found ELSE {At(time, 1)}
  <2>1. /\ orbit' = IF found # {} THEN kept ELSE kept \cup {time}
        /\ state_answer' = {[time |-> time, position |-> position]}
    BY <1>1 DEF LookupOrCompute
  <2>2. orbit' \in SUBSET Moments /\ kept \in SUBSET Nat /\ time \in Nat /\ interpolation_window \in Nat
    BY <2>1, StoresAssumption DEF OrbitIInv
  <2>3. \A t \in orbit' \ {time} : store_now' - t < max_age
    BY <1>1, <2>1
  <2> HIDE DEF kept, position
  <2>4. \E t \in orbit' : Near(t, time)
    <3>1. CASE found # {}
      BY <2>1, <2>2, <3>1, HitsAreNear
    <3>2. CASE found = {}
      <4>1. Near(time, time)
        BY <2>2 DEF Near, num_seconds
      <4> QED BY <2>1, <3>2, <4>1
    <3> QED BY <3>1, <3>2
  <2>5. \A x \in state_answer' : x.time = time
    BY <2>1
  <2> QED BY <2>2, <2>3, <2>4, <2>5 DEF OrbitIInv, StatesAreCovered, Near
<1>2. ASSUME state_answer' = {}, orbit' \in SUBSET orbit PROVE OrbitIInv'
  BY <1>2 DEF OrbitIInv, StatesAreCovered
<1>3. CASE UNCHANGED <<store_now, orbitVars>>
  BY <1>3 DEF OrbitIInv, StatesAreCovered, orbitVars
<1> QED BY <1>1, <1>2, <1>3 DEF OrbitNext, InvalidateAll

-----------------------------------------------------------------------------
(* ScheduleFragmentCache.  A fragment bears the time its passes came last,  *)
(* which is not in the future.                                              *)

FragmentIInv ==
  /\ store_now \in Nat
  /\ IsFiniteSet(fragments) /\ Cardinality(fragments) <= max_fragments
  /\ \A q \in DOMAIN committed : committed[q] \in Nat /\ committed[q] <= store_now
  /\ \A f \in fragments : /\ f.passes \in DOMAIN committed /\ f.committed_at = committed[f.passes]
                          /\ f.immutable_until = f.committed_at + ImmutableFor
  /\ FragmentsStay

LEMMA AddKeeps ==
  ASSUME FragmentIInv, NEW passes \in FragmentPasses, AddFragment(passes), store_now' = store_now
  PROVE  FragmentIInv'
<1> DEFINE fresh == [passes |-> passes, committed_at |-> store_now, immutable_until |-> store_now + ImmutableFor]
           others == {f \in fragments : f.passes # passes}
           all == others \cup {fresh}
<1>1. PICK kept \in SUBSET all :
        /\ Cardinality(kept) = Min({Cardinality(all), max_fragments})
        /\ \A f \in kept, g \in all \ kept : g.committed_at <= f.committed_at
        /\ fragments' = kept
        /\ committed' = With(committed, passes, store_now)
  BY DEF AddFragment
<1>2. ImmutableFor \in Nat /\ max_fragments \in Nat
  BY StoresAssumption
<1>3. /\ DOMAIN committed' = DOMAIN committed \cup {passes} /\ committed'[passes] = store_now
      /\ \A q \in DOMAIN committed : q # passes => committed'[q] = committed[q]
  BY <1>1 DEF With
<1>4. fresh.passes = passes /\ fresh.committed_at = store_now /\ fresh.immutable_until = store_now + ImmutableFor
  OBVIOUS
<1> HIDE DEF fresh
<1>5. IsFiniteSet(kept) /\ Cardinality(kept) <= max_fragments
  <2>1. IsFiniteSet(others)
    BY FS_Subset DEF FragmentIInv
  <2> HIDE DEF others
  <2>2. IsFiniteSet(all)
    BY <2>1, FS_AddElement
  <2> DEFINE c == Cardinality(all)
  <2> HIDE DEF all
  <2>3. IsFiniteSet(kept) /\ c \in Nat
    BY <2>2, FS_Subset, FS_CardinalityType
  <2> HIDE DEF c
  <2>4. Min({c, max_fragments}) <= max_fragments
    <3> DEFINE P == {c, max_fragments}
    <3>1. P \in SUBSET Nat /\ P # {} /\ max_fragments \in P
      BY <1>2, <2>3
    <3> HIDE DEF P
    <3>2. Min(P) <= max_fragments
      BY <3>1, MinIsLeast
    <3> QED BY <3>2 DEF P
  <2> QED BY <1>1, <2>3, <2>4 DEF c
<1>6. ASSUME NEW f \in kept
      PROVE  /\ f.passes \in DOMAIN committed' /\ f.committed_at = committed'[f.passes]
             /\ f.immutable_until = f.committed_at + ImmutableFor
             /\ f = fresh \/ (f \in fragments /\ f.passes # passes)
  BY <1>3, <1>4 DEF FragmentIInv
<1>7. ASSUME NEW q \in DOMAIN committed'
      PROVE  \/ \E f \in kept : f.passes = q /\ f.committed_at = committed'[q]
             \/ store_now >= committed'[q] + ImmutableFor
             \/ \A f \in kept : committed'[q] <= f.committed_at
  <2>1. CASE q = passes
    <3>1. CASE fresh \in kept
      BY <1>3, <1>4, <2>1, <3>1
    <3>2. CASE fresh \notin kept
      <4>1. fresh \in all \ kept
        BY <3>2
      <4> QED BY <1>1, <1>3, <1>4, <2>1, <4>1
    <3> QED BY <3>1, <3>2
  <2>2. CASE q # passes
    <3>1. q \in DOMAIN committed /\ committed'[q] = committed[q] /\ committed[q] \in Nat /\ committed[q] <= store_now
      BY <1>3, <2>2 DEF FragmentIInv
    <3>2. \/ \E f \in fragments : f.passes = q /\ f.committed_at = committed[q]
          \/ store_now >= committed[q] + ImmutableFor
          \/ \A f \in fragments : committed[q] <= f.committed_at
      BY <3>1 DEF FragmentIInv, FragmentsStay
    <3>3. ASSUME NEW f \in fragments, f.passes = q, f.committed_at = committed[q]
          PROVE  f \in kept \/ \A g \in kept : committed[q] <= g.committed_at
      <4>1. f \in all
        BY <2>2, <3>3
      <4> QED BY <1>1, <3>3, <4>1
    <3>4. ASSUME \A f \in fragments : committed[q] <= f.committed_at, NEW g \in kept PROVE committed[q] <= g.committed_at
      BY <1>4, <1>6, <3>1, <3>4
    <3> QED BY <3>1, <3>2, <3>3, <3>4
  <2> QED BY <2>1, <2>2
<1>8. \A q \in DOMAIN committed' : committed'[q] \in Nat /\ committed'[q] <= store_now
  BY <1>3 DEF FragmentIInv
<1>9. store_now \in Nat
  BY DEF FragmentIInv
<1> HIDE DEF all
<1> QED BY <1>1, <1>5, <1>6, <1>7, <1>8, <1>9 DEF FragmentIInv, FragmentsStay

LEMMA FragmentPreserves ==
  ASSUME FragmentIInv, [FragmentNext]_<<store_now, fragmentVars>>
  PROVE  FragmentIInv'
<1>0. ImmutableFor \in Nat /\ max_fragments \in Nat
  BY StoresAssumption
<1>1. ASSUME InvalidateExpired, store_now' = store_now PROVE FragmentIInv'
  <2>1. fragments' = {f \in fragments : store_now < f.immutable_until} /\ committed' = committed
    BY <1>1 DEF InvalidateExpired, IsImmutable
  <2>2. IsFiniteSet(fragments') /\ Cardinality(fragments') <= max_fragments
    <3> DEFINE N == fragments'
    <3>1. N \in SUBSET fragments /\ IsFiniteSet(fragments) /\ Cardinality(fragments) <= max_fragments
      BY <2>1 DEF FragmentIInv
    <3> HIDE DEF N
    <3>2. IsFiniteSet(N) /\ Cardinality(N) <= Cardinality(fragments) /\ Cardinality(N) \in Nat /\ Cardinality(fragments) \in Nat
      BY <3>1, FS_Subset, FS_CardinalityType
    <3>3. IsFiniteSet(N) /\ Cardinality(N) <= max_fragments
      BY <1>0, <3>1, <3>2
    <3> QED BY <3>3 DEF N
  <2>3. FragmentsStay'
    <3> SUFFICES ASSUME NEW q \in DOMAIN committed
                 PROVE  \/ \E f \in fragments' : f.passes = q /\ f.committed_at = committed[q]
                        \/ store_now >= committed[q] + ImmutableFor
                        \/ \A f \in fragments' : committed[q] <= f.committed_at
      BY <1>1, <2>1 DEF FragmentsStay
    <3>1. committed[q] \in Nat /\ store_now \in Nat
      BY DEF FragmentIInv
    <3>2. ASSUME NEW f \in fragments, f.passes = q, f.committed_at = committed[q]
          PROVE  f \in fragments' \/ store_now >= committed[q] + ImmutableFor
      BY <1>0, <2>1, <3>1, <3>2 DEF FragmentIInv
    <3> QED BY <2>1, <3>2 DEF FragmentIInv, FragmentsStay
  <2> QED BY <1>1, <2>1, <2>2, <2>3 DEF FragmentIInv
<1>2. ASSUME StoreTimePasses, UNCHANGED fragmentVars PROVE FragmentIInv'
  <2>1. store_now \in Nat /\ store_now' = store_now + 1 /\ fragments' = fragments /\ committed' = committed
    BY <1>2 DEF FragmentIInv, StoreTimePasses, fragmentVars
  <2>2. FragmentsStay'
    BY <1>0, <2>1 DEF FragmentIInv, FragmentsStay
  <2> QED BY <2>1, <2>2 DEF FragmentIInv
<1>3. CASE UNCHANGED <<store_now, fragmentVars>>
  BY <1>3 DEF FragmentIInv, FragmentsStay, fragmentVars
<1> QED BY <1>1, <1>2, <1>3, AddKeeps DEF FragmentNext

-----------------------------------------------------------------------------
(* Snapshotters: what is kept is in order and was taken before now.         *)

DemodSnapshots == [pass : Entries, taken : Nat]
PeerSnapshots == [version : Nat, taken : Nat]

\* The first n of the numbers t rise and are below now.
Rising(t, n, now) ==
  /\ \A i \in 1..n : t[i] \in Nat /\ t[i] < now
  /\ \A i, j \in 1..n : i < j => t[i] < t[j]

Taken(d) == [i \in 1..Len(d) |-> d[i].taken]

SnapshotIInv ==
  /\ taken \in Nat
  /\ schedules \in Seq(Nat) /\ Len(schedules) <= SnapshotLimit /\ Rising(schedules, Len(schedules), taken)
  /\ peers_taken \in Seq(PeerSnapshots) /\ Rising(Taken(peers_taken), Len(peers_taken), taken)
  /\ \A i \in 1..Len(peers_taken) : peers_taken[i].version = i - 1
  /\ demods \in Seq(DemodSnapshots) /\ Rising(Taken(demods), Len(demods), taken)

LEMMA RisingLater ==
  ASSUME NEW t, NEW n \in Nat, NEW now \in Nat, Rising(t, n, now)
  PROVE  Rising(t, n, now + 1)
  BY DEF Rising

\* A number above all others continues a rising sequence.
LEMMA RisingOn ==
  ASSUME NEW t, NEW n \in Nat, NEW now \in Nat, Rising(t, n, now),
         NEW u, u[n + 1] = now, \A i \in 1..n : u[i] = t[i]
  PROVE  Rising(u, n + 1, now + 1)
<1>1. ASSUME NEW i \in 1..(n + 1) PROVE u[i] \in Nat /\ u[i] < now + 1
  <2>1. CASE i = n + 1
    BY <2>1
  <2>2. CASE i # n + 1
    <3>1. i \in 1..n
      BY <2>2
    <3>2. u[i] = t[i] /\ t[i] \in Nat /\ t[i] < now
      BY <3>1 DEF Rising
    <3> QED BY <3>2
  <2> QED BY <2>1, <2>2
<1>2. ASSUME NEW i \in 1..(n + 1), NEW j \in 1..(n + 1), i < j PROVE u[i] < u[j]
  <2>1. i \in 1..n /\ u[i] = t[i] /\ t[i] < now
    BY <1>2 DEF Rising
  <2>2. CASE j = n + 1
    BY <2>1, <2>2
  <2>3. CASE j # n + 1
    <3>1. j \in 1..n
      BY <2>3
    <3> QED BY <1>2, <2>1, <3>1 DEF Rising
  <2> QED BY <2>2, <2>3
<1> QED BY <1>1, <1>2 DEF Rising

\* What is left of a rising sequence rises.
LEMMA RisingPart ==
  ASSUME NEW t, NEW n \in Nat, NEW now, Rising(t, n, now), NEW m \in Nat, NEW pos,
         NEW u, \A i \in 1..m : pos[i] \in 1..n /\ u[i] = t[pos[i]],
         \A i, j \in 1..m : i < j => pos[i] < pos[j]
  PROVE  Rising(u, m, now)
  BY DEF Rising

LEMMA TakenAppends ==
  ASSUME NEW S, NEW d \in Seq(S), NEW x \in S
  PROVE  /\ Append(d, x) \in Seq(S) /\ Len(d) \in Nat /\ Len(Append(d, x)) = Len(d) + 1
         /\ \A i \in 1..Len(d) : Append(d, x)[i] = d[i] /\ Taken(Append(d, x))[i] = Taken(d)[i]
         /\ Append(d, x)[Len(d) + 1] = x /\ Taken(Append(d, x))[Len(d) + 1] = x.taken
<1> DEFINE e == Append(d, x)
           n == Len(d)
<1>1. e \in Seq(S) /\ n \in Nat /\ Len(e) = n + 1 /\ e[n + 1] = x /\ \A i \in 1..n : e[i] = d[i]
  OBVIOUS
<1> HIDE DEF e, n
<1>2. /\ \A i \in 1..n : Taken(e)[i] = Taken(d)[i]
      /\ Taken(e)[n + 1] = x.taken
  <2>1. DOMAIN Taken(e) = 1..(n + 1) /\ \A i \in 1..(n + 1) : Taken(e)[i] = e[i].taken
    BY <1>1 DEF Taken
  <2>2. \A i \in 1..n : Taken(d)[i] = d[i].taken
    BY DEF Taken, n
  <2>3. n + 1 \in 1..(n + 1) /\ \A i \in 1..n : i \in 1..(n + 1)
    BY <1>1
  <2> QED BY <1>1, <2>1, <2>2, <2>3
<1> QED BY <1>1, <1>2 DEF e, n

\* The last elements of a sequence, as many as the limit allows.
LEMMA LastElements ==
  ASSUME NEW S, NEW s \in Seq(S), NEW limit \in Nat
  PROVE  LET r == SubSeq(s, 1 + Max({0, Len(s) - limit}), Len(s)) IN
         /\ r \in Seq(S) /\ Len(r) <= limit
         /\ \E d \in Nat : Len(r) + d = Len(s) /\ \A i \in 1..Len(r) : r[i] = s[d + i]
<1> DEFINE n == Len(s)
           P == {0, n - limit}
           d == Max(P)
           r == SubSeq(s, 1 + d, n)
<1>1. n \in Nat
  OBVIOUS
<1>2. d \in Nat /\ d <= n /\ n - limit <= d
  <2>1. CASE n - limit >= 0
    <3>1. n - limit \in P /\ \A y \in P : n - limit >= y
      BY <1>1, <2>1
    <3> HIDE DEF P
    <3>2. d \in P /\ \A y \in P : d >= y
      BY <3>1, MaxIsOne
    <3> HIDE DEF d
    <3> QED BY <1>1, <2>1, <3>2 DEF P
  <2>2. CASE ~ (n - limit >= 0)
    <3>1. 0 \in P /\ \A y \in P : 0 >= y
      BY <1>1, <2>2
    <3> HIDE DEF P
    <3>2. d \in P /\ \A y \in P : d >= y
      BY <3>1, MaxIsOne
    <3> HIDE DEF d
    <3> QED BY <1>1, <2>2, <3>2 DEF P
  <2> QED BY <2>1, <2>2
<1> HIDE DEF d
<1>3. r \in Seq(S) /\ Len(r) = (IF 1 + d <= n THEN n - (1 + d) + 1 ELSE 0) /\ \A i \in 1..(n - (1 + d) + 1) : r[i] = s[1 + d + i - 1]
  <2>1. 1 + d \in 1..(Len(s) + 1) /\ n \in 0..Len(s)
    BY <1>1, <1>2
  <2>2. \A i \in (1 + d)..n : s[i] \in S
    BY <1>1, <1>2
  <2> QED BY <1>1, <1>2, <2>1, <2>2
<1> HIDE DEF n, r
<1>4. Len(r) = n - d
  BY <1>1, <1>2, <1>3
<1>5. \A i \in 1..Len(r) : r[i] = s[d + i]
  <2> SUFFICES ASSUME NEW i \in 1..Len(r) PROVE r[i] = s[d + i]
    OBVIOUS
  <2>1. i \in 1..(n - (1 + d) + 1) /\ 1 + d + i - 1 = d + i
    BY <1>1, <1>2, <1>4
  <2> QED BY <1>3, <2>1
<1>6. Len(r) <= limit /\ Len(r) + d = n
  BY <1>1, <1>2, <1>4
<1> QED BY <1>2, <1>3, <1>5, <1>6 DEF n, d, r

LEMMA ScheduleKeeps ==
  ASSUME SnapshotIInv, SnapshotSchedule
  PROVE  SnapshotIInv'
<1> DEFINE all == Append(schedules, taken)
           n == Len(schedules)
           s == SubSeq(all, 1 + Max({0, Len(all) - SnapshotLimit}), Len(all))
<1>1. taken' = taken + 1 /\ schedules' = s /\ demods' = demods /\ peers_taken' = peers_taken
  BY DEF SnapshotSchedule, Take
<1>2. taken \in Nat /\ schedules \in Seq(Nat) /\ n \in Nat /\ Rising(schedules, n, taken)
  BY DEF SnapshotIInv
<1>3. /\ all \in Seq(Nat) /\ Len(all) = n + 1 /\ all[n + 1] = taken /\ \A i \in 1..n : all[i] = schedules[i]
  BY <1>2
<1> HIDE DEF n, all
<1>4. Rising(all, n + 1, taken + 1)
  BY <1>2, <1>3, RisingOn
<1>5. SnapshotLimit \in Nat
  BY StoresAssumption
<1>6. /\ s \in Seq(Nat) /\ Len(s) <= SnapshotLimit
      /\ \E d \in Nat : Len(s) + d = Len(all) /\ \A i \in 1..Len(s) : s[i] = all[d + i]
  BY <1>3, <1>5, LastElements
<1> HIDE DEF s
<1>7. PICK d \in Nat : Len(s) + d = n + 1 /\ \A i \in 1..Len(s) : s[i] = all[d + i]
  BY <1>3, <1>6
<1> DEFINE pos == [i \in 1..Len(s) |-> d + i]
<1>8. Len(s) \in Nat /\ n + 1 \in Nat
  BY <1>2, <1>6
<1>9. \A i \in 1..Len(s) : pos[i] = d + i /\ d + i \in 1..(n + 1)
  BY <1>2, <1>7, <1>8
<1>10. \A i, j \in 1..Len(s) : i < j => pos[i] < pos[j]
  BY <1>8, <1>9
<1>11. Rising(s, Len(s), taken + 1)
  <2> HIDE DEF pos
  <2>1. \A i \in 1..Len(s) : pos[i] \in 1..(n + 1) /\ s[i] = all[pos[i]]
    BY <1>7, <1>9
  <2> QED BY <1>4, <1>8, <1>10, <2>1, RisingPart
<1>12. Rising(Taken(peers_taken), Len(peers_taken), taken + 1) /\ Rising(Taken(demods), Len(demods), taken + 1)
  <2>1. Len(peers_taken) \in Nat /\ Len(demods) \in Nat
    BY DEF SnapshotIInv
  <2> QED BY <1>2, <2>1, RisingLater DEF SnapshotIInv
<1>13. taken + 1 \in Nat
  BY <1>2
<1> QED BY <1>1, <1>6, <1>11, <1>12, <1>13 DEF SnapshotIInv

LEMMA FederationKeeps ==
  ASSUME SnapshotIInv, SnapshotFederation
  PROVE  SnapshotIInv'
<1> DEFINE n == Len(peers_taken)
           new == [version |-> n, taken |-> taken]
           s == Append(peers_taken, new)
<1>1. taken' = taken + 1 /\ peers_taken' = s /\ demods' = demods /\ schedules' = schedules
  BY DEF SnapshotFederation, Take
<1>2. taken \in Nat /\ peers_taken \in Seq(PeerSnapshots) /\ n \in Nat /\ Rising(Taken(peers_taken), n, taken)
      /\ \A i \in 1..n : peers_taken[i].version = i - 1
  BY DEF SnapshotIInv
<1>3. new \in PeerSnapshots /\ new.version = n /\ new.taken = taken
  BY <1>2 DEF PeerSnapshots
<1> HIDE DEF new
<1>4. /\ s \in Seq(PeerSnapshots) /\ Len(s) = n + 1
      /\ \A i \in 1..n : s[i] = peers_taken[i] /\ Taken(s)[i] = Taken(peers_taken)[i]
      /\ s[n + 1] = new /\ Taken(s)[n + 1] = new.taken
  BY <1>2, <1>3, TakenAppends
<1> HIDE DEF s, n
<1>5. Rising(Taken(s), n + 1, taken + 1)
  BY <1>2, <1>3, <1>4, RisingOn
<1>6. \A i \in 1..(n + 1) : s[i].version = i - 1
  <2> SUFFICES ASSUME NEW i \in 1..(n + 1) PROVE s[i].version = i - 1
    OBVIOUS
  <2>1. CASE i = n + 1
    BY <1>2, <1>3, <1>4, <2>1
  <2>2. CASE i # n + 1
    <3>1. i \in 1..n
      BY <1>2, <2>2
    <3> QED BY <1>2, <1>4, <3>1
  <2> QED BY <2>1, <2>2
<1>7. Rising(schedules, Len(schedules), taken + 1) /\ Rising(Taken(demods), Len(demods), taken + 1)
  <2>1. Len(schedules) \in Nat /\ Len(demods) \in Nat
    BY DEF SnapshotIInv
  <2> QED BY <1>2, <2>1, RisingLater DEF SnapshotIInv
<1>8. taken + 1 \in Nat
  BY <1>2
<1> QED BY <1>1, <1>4, <1>5, <1>6, <1>7, <1>8 DEF SnapshotIInv

LEMMA DemodulatorKeeps ==
  ASSUME SnapshotIInv, NEW pass \in Entries, SnapshotDemodulator(pass)
  PROVE  SnapshotIInv'
<1> DEFINE n == Len(demods)
           new == [pass |-> pass, taken |-> taken]
           s == Append(demods, new)
<1>1. taken' = taken + 1 /\ demods' = s /\ peers_taken' = peers_taken /\ schedules' = schedules
  BY DEF SnapshotDemodulator, Take
<1>2. taken \in Nat /\ demods \in Seq(DemodSnapshots) /\ n \in Nat /\ Rising(Taken(demods), n, taken)
  BY DEF SnapshotIInv
<1>3. new \in DemodSnapshots /\ new.taken = taken
  BY <1>2 DEF DemodSnapshots
<1> HIDE DEF new
<1>4. /\ s \in Seq(DemodSnapshots) /\ Len(s) = n + 1
      /\ \A i \in 1..n : Taken(s)[i] = Taken(demods)[i]
      /\ Taken(s)[n + 1] = new.taken
  BY <1>2, <1>3, TakenAppends
<1> HIDE DEF s, n
<1>5. Rising(Taken(s), n + 1, taken + 1)
  BY <1>2, <1>3, <1>4, RisingOn
<1>7. Rising(schedules, Len(schedules), taken + 1) /\ Rising(Taken(peers_taken), Len(peers_taken), taken + 1)
  <2>1. Len(schedules) \in Nat /\ Len(peers_taken) \in Nat
    BY DEF SnapshotIInv
  <2> QED BY <1>2, <2>1, RisingLater DEF SnapshotIInv
<1>8. taken + 1 \in Nat
  BY <1>2
<1> QED BY <1>1, <1>4, <1>5, <1>7, <1>8 DEF SnapshotIInv

LEMMA RemovePassKeeps ==
  ASSUME SnapshotIInv, NEW pass, RemovePass(pass)
  PROVE  SnapshotIInv'
<1> DEFINE T == {s \in ToSet(demods) : s.pass # pass}
           n == Len(demods)
           r == Filter(demods, T)
           m == Len(r)
<1>1. demods' = Keep(demods, T) /\ UNCHANGED <<schedules, peers_taken, taken>>
  BY DEF RemovePass
<1>2. Keep(demods, T) = r
  BY DEF Keep, Filter, FoldLeft, MapThenFoldSet
<1>3. demods \in Seq(DemodSnapshots) /\ n \in Nat /\ Rising(Taken(demods), n, taken)
  BY DEF SnapshotIInv
<1> HIDE DEF T
<1>4. r \in Seq(DemodSnapshots)
  BY <1>3, FilterPlaces
<1>5. PICK pos : Places(pos, r, m, demods, n, {i \in DOMAIN demods : demods[i] \in T})
  BY <1>3, FilterPlaces
<1> HIDE DEF r
<1>6. /\ \A i \in 1..m : pos[i] \in 1..n /\ r[i] = demods[pos[i]]
      /\ \A i, j \in 1..m : i < j => pos[i] < pos[j]
  BY <1>5 DEF Places
<1>7. m \in Nat
  BY <1>4
<1>8. \A i \in 1..m : Taken(r)[i] = Taken(demods)[pos[i]]
  BY <1>6 DEF Taken
<1> HIDE DEF m, n
<1>9. Rising(Taken(r), m, taken)
  <2> DEFINE u == Taken(r)
             t == Taken(demods)
  <2>1. Rising(t, n, taken) /\ \A i \in 1..m : pos[i] \in 1..n /\ u[i] = t[pos[i]]
    BY <1>3, <1>6, <1>8
  <2> HIDE DEF u, t
  <2>2. n \in Nat /\ m \in Nat /\ \A i, j \in 1..m : i < j => pos[i] < pos[j]
    BY <1>3, <1>6, <1>7
  <2>3. Rising(u, m, taken)
    BY ONLY <2>1, <2>2, RisingPart, Zenon
  <2> QED BY <2>3 DEF u
<1> QED BY <1>1, <1>2, <1>4, <1>9 DEF SnapshotIInv, m

LEMMA SnapshotPreserves ==
  ASSUME SnapshotIInv, [SnapshotNext]_snapshotVars
  PROVE  SnapshotIInv'
<1>1. CASE UNCHANGED snapshotVars
  BY <1>1 DEF SnapshotIInv, snapshotVars
<1> QED BY <1>1, ScheduleKeeps, FederationKeeps, DemodulatorKeeps, RemovePassKeeps DEF SnapshotNext

LEMMA SnapshotsStayOrdered ==
  ASSUME SnapshotIInv
  PROVE  SnapshotsAreOrdered
<1>1. /\ DOMAIN schedules = 1..Len(schedules) /\ DOMAIN peers_taken = 1..Len(peers_taken)
      /\ DOMAIN demods = 1..Len(demods)
  <2>1. schedules \in Seq(Nat) /\ peers_taken \in Seq(PeerSnapshots) /\ demods \in Seq(DemodSnapshots)
    BY DEF SnapshotIInv
  <2> QED BY <2>1
<1>2. ASSUME NEW i \in DOMAIN peers_taken, NEW j \in DOMAIN peers_taken, i < j
      PROVE  peers_taken[i].version < peers_taken[j].version /\ peers_taken[i].taken < peers_taken[j].taken
  <2> DEFINE n == Len(peers_taken)
  <2>1. i \in 1..n /\ j \in 1..n
    BY <1>1
  <2>2. Rising(Taken(peers_taken), n, taken) /\ \A k \in 1..n : peers_taken[k].version = k - 1
    BY DEF SnapshotIInv
  <2>3. \A k \in 1..n : Taken(peers_taken)[k] = peers_taken[k].taken
    BY DEF Taken
  <2> HIDE DEF n
  <2>4. Taken(peers_taken)[i] < Taken(peers_taken)[j]
    BY <1>2, <2>1, <2>2 DEF Rising
  <2>5. peers_taken[i].version = i - 1 /\ peers_taken[j].version = j - 1 /\ i \in Int /\ j \in Int
    BY <2>1, <2>2
  <2> QED BY <1>2, <2>1, <2>3, <2>4, <2>5
<1>3. ASSUME NEW pass \in Entries, NEW s \in GetForPass(pass), NEW i \in DOMAIN demods, demods[i].pass = pass
      PROVE  s.taken <= demods[i].taken
  <2> DEFINE n == Len(demods)
  <2>1. PICK k \in DOMAIN demods : s = demods[k] /\ k <= i
    BY <1>3 DEF GetForPass
  <2>2. i \in 1..n /\ k \in 1..n
    BY <1>1
  <2>3. Rising(Taken(demods), n, taken)
    BY DEF SnapshotIInv
  <2>4. \A j \in 1..n : Taken(demods)[j] = demods[j].taken
    BY DEF Taken
  <2> HIDE DEF n
  <2>5. k = i \/ k < i
    BY <2>1, <2>2
  <2>6. Taken(demods)[i] \in Nat /\ Taken(demods)[k] \in Nat /\ (k = i \/ Taken(demods)[k] < Taken(demods)[i])
    BY <2>2, <2>3, <2>5 DEF Rising
  <2>7. Taken(demods)[k] <= Taken(demods)[i]
    BY <2>6
  <2> QED BY <2>1, <2>2, <2>4, <2>7
<1>4. \A i, j \in DOMAIN schedules : i < j => schedules[i] < schedules[j]
  BY <1>1 DEF SnapshotIInv, Rising
<1> QED BY <1>2, <1>3, <1>4 DEF SnapshotsAreOrdered

-----------------------------------------------------------------------------
(* The pipeline: the batches one after the other, and then what is pending, *)
(* count the symbols decoded.                                               *)

Batches == [symbols : Seq(Nat), sequence : Nat]

\* The batches joined one by one.
PartlyJoined(h, s, n) ==
  h \in [0..n -> Seq(Nat)] /\ h[0] = <<>> /\ \A k \in 1..n : h[k] = h[k - 1] \o s[k].symbols

\* The symbols of all batches, batch by batch.
LEMMA JoinedStepwise ==
  ASSUME NEW s \in Seq(Batches)
  PROVE  \E h : PartlyJoined(h, s, Len(s)) /\ Joined(s) = h[Len(s)]
<1> DEFINE n == Len(s)
           V == Seq(Nat)
           Turn(v, b) == v \o b.symbols
           Solves(g) == g = [t \in SUBSET (1..n) |-> IF t = {} THEN <<>> ELSE Turn(g[t \ {Max(t)}], s[Max(t)])]
           f == CHOOSE g : Solves(g)
           step == [k \in 1..n |-> [v \in V |-> Turn(v, s[k])]]
<1>1. n \in Nat /\ DOMAIN s = 1..n /\ \A k \in 1..n : s[k] \in Batches
  OBVIOUS
<1>2. Joined(s) = f[1..n]
  BY <1>1 DEF Joined, FoldLeft, MapThenFoldSet
<1> HIDE DEF n
<1>3. ASSUME NEW v \in V, NEW b \in Batches PROVE Turn(v, b) \in V
  <2>1. b.symbols \in V
    BY DEF Batches
  <2> QED BY <2>1
<1> HIDE DEF Turn
<1>4. step \in FoldSteps(n, V)
  <2> HIDE DEF V
  <2> QED BY <1>1, <1>3 DEF FoldSteps
<1>5. <<>> \in V
  OBVIOUS
<1> HIDE DEF V
<1>6. PICK e : Folds(e, n, V, <<>>, step)
  <2> HIDE DEF step
  <2> QED BY <1>1, <1>4, <1>5, FoldExists, Zenon
<1>7. Solves(e)
  BY <1>1, <1>6, TopIsThere DEF Folds
<1> HIDE DEF step
<1>8. Solves(f)
  <2> HIDE DEF Solves
  <2> QED BY <1>7, Zenon
<1> HIDE DEF f
<1> DEFINE h == [k \in 0..n |-> f[1..k]]
<1>9. h[0] = <<>>
  <2>1. 1..0 = {} /\ 0 \in 0..n /\ {} \in SUBSET (1..n)
    BY <1>1
  <2>2. f[{}] = <<>>
    BY <1>8, <2>1
  <2> QED BY <2>1, <2>2
<1>10. ASSUME NEW k \in 1..n PROVE h[k] = Turn(h[k - 1], s[k])
  <2>1. /\ Max(1..k) = k /\ (1..k) \ {k} = 1..(k - 1)
        /\ 1..k \in SUBSET (1..n) /\ 1..k # {} /\ k \in 0..n /\ k - 1 \in 0..n
    BY <1>1, IntervalTop
  <2>2. f[1..k] = Turn(f[(1..k) \ {Max(1..k)}], s[Max(1..k)])
    BY <1>8, <2>1
  <2> QED BY <2>1, <2>2
<1> DEFINE A == {k \in 0..n : h[k] \in V}
<1>11. 0 \in A
  BY <1>1, <1>5, <1>9
<1>12. ASSUME NEW k \in 1..n, k - 1 \in A PROVE k \in A
  <2> HIDE DEF h
  <2>1. h[k - 1] \in V /\ s[k] \in Batches /\ k \in 0..n
    BY <1>1, <1>12
  <2> QED BY <1>3, <1>10, <2>1
<1> HIDE DEF A
<1>13. \A k \in 0..n : k \in A
  BY <1>1, <1>11, <1>12, UpTo
<1>14. h \in [0..n -> V]
  BY <1>13 DEF A
<1>15. h[n] = f[1..n]
  BY <1>1
<1> HIDE DEF h
<1>16. PartlyJoined(h, s, n)
  BY <1>9, <1>10, <1>14 DEF PartlyJoined, Turn, V
<1> QED BY <1>2, <1>15, <1>16 DEF n

\* One batch more adds its symbols at the end.
LEMMA JoinedAppends ==
  ASSUME NEW s \in Seq(Batches), NEW b \in Batches
  PROVE  Joined(s) \in Seq(Nat) /\ Joined(Append(s, b)) = Joined(s) \o b.symbols
<1> DEFINE n == Len(s)
           t == Append(s, b)
<1>1. n \in Nat /\ t \in Seq(Batches) /\ Len(t) = n + 1 /\ t[n + 1] = b /\ \A i \in 1..n : t[i] = s[i]
  OBVIOUS
<1> HIDE DEF t
<1>2. PICK h : PartlyJoined(h, s, n) /\ Joined(s) = h[n]
  BY JoinedStepwise
<1>3. PICK g : PartlyJoined(g, t, n + 1) /\ Joined(t) = g[n + 1]
  BY <1>1, JoinedStepwise
<1> HIDE DEF n
<1> DEFINE A == {k \in 0..n : g[k] = h[k]}
<1>4. 0 \in A
  BY <1>1, <1>2, <1>3 DEF PartlyJoined
<1>5. ASSUME NEW k \in 1..n, k - 1 \in A PROVE k \in A
  <2>1. k \in 1..(n + 1) /\ k \in 0..n
    BY <1>1
  <2>2. g[k] = g[k - 1] \o t[k].symbols /\ h[k] = h[k - 1] \o s[k].symbols
    BY <1>2, <1>3, <2>1 DEF PartlyJoined
  <2>3. g[k - 1] = h[k - 1] /\ t[k] = s[k]
    BY <1>1, <1>5
  <2> QED BY <2>1, <2>2, <2>3
<1> HIDE DEF A
<1>6. n \in A
  <2>1. \A k \in 0..n : k \in A
    BY <1>1, <1>4, <1>5, UpTo
  <2>2. n \in 0..n
    BY <1>1
  <2> QED BY <2>1, <2>2
<1>7. g[n] = h[n]
  BY <1>6 DEF A
<1>8. n + 1 \in 1..(n + 1) /\ (n + 1) - 1 = n /\ n \in 0..n
  BY <1>1
<1>9. g[n + 1] = g[n] \o b.symbols
  BY <1>1, <1>3, <1>8 DEF PartlyJoined
<1>10. h[n] \in Seq(Nat)
  BY <1>2, <1>8 DEF PartlyJoined
<1> QED BY <1>2, <1>3, <1>7, <1>9, <1>10 DEF t

Counts(s, d) == Len(s) = d /\ \A i \in 1..d : s[i] = i

PipelineIInv ==
  /\ pipeline \in {"stopped", "running"}
  /\ decoded \in Nat /\ sample_buffer \in Seq(Nat) /\ decoded + Len(sample_buffer) <= MaxSymbols
  /\ pending_symbols \in Seq(Nat) /\ Len(pending_symbols) < batch_size
  /\ batches \in Seq(Batches)
  /\ Counts(Joined(batches) \o pending_symbols, decoded)
  /\ \A i \in 1..Len(batches) : batches[i].sequence = i - 1 /\ Len(batches[i].symbols) <= batch_size

\* A flush moves the pending symbols into a batch and changes nothing else.
LEMMA FlushedIsJoined ==
  ASSUME NEW done \in Seq(Batches), NEW symbols \in Seq(Nat), Len(symbols) <= batch_size,
         \A i \in 1..Len(done) : done[i].sequence = i - 1 /\ Len(done[i].symbols) <= batch_size
  PROVE  LET new == Flushed(symbols, done) IN
         /\ new \in Seq(Batches) /\ Joined(new) = Joined(done) \o symbols
         /\ \A i \in 1..Len(new) : new[i].sequence = i - 1 /\ Len(new[i].symbols) <= batch_size
<1> DEFINE n == Len(done)
           new == Flushed(symbols, done)
           b == [symbols |-> symbols, sequence |-> n]
<1>1. n \in Nat
  OBVIOUS
<1>2. b \in Batches /\ b.symbols = symbols /\ b.sequence = n
  BY <1>1 DEF Batches
<1>3. CASE symbols = <<>>
  <2>1. new = done
    BY <1>3 DEF Flushed
  <2>2. Joined(done) \in Seq(Nat)
    BY <1>2, JoinedAppends
  <2>3. Joined(done) \o symbols = Joined(done)
    BY <1>3, <2>2
  <2> QED BY <2>1, <2>3
<1>4. CASE symbols # <<>>
  <2>1. new = Append(done, b)
    BY <1>4 DEF Flushed
  <2> HIDE DEF b
  <2>2. Append(done, b) \in Seq(Batches) /\ Len(Append(done, b)) = n + 1 /\ Append(done, b)[n + 1] = b
        /\ \A i \in 1..n : Append(done, b)[i] = done[i]
    BY <1>2
  <2>3. Joined(Append(done, b)) = Joined(done) \o symbols
    BY <1>2, JoinedAppends
  <2> HIDE DEF new
  <2>4. new \in Seq(Batches) /\ Len(new) = n + 1 /\ new[n + 1] = b /\ \A i \in 1..n : new[i] = done[i]
    BY <2>1, <2>2
  <2>5. ASSUME NEW i \in 1..(n + 1) PROVE new[i].sequence = i - 1 /\ Len(new[i].symbols) <= batch_size
    <3>1. CASE i = n + 1
      BY <1>1, <1>2, <2>4, <3>1
    <3>2. CASE i # n + 1
      <4>1. i \in 1..n
        BY <1>1, <3>2
      <4> QED BY <2>4, <4>1
    <3> QED BY <3>1, <3>2
  <2> QED BY <2>1, <2>3, <2>4, <2>5 DEF new
<1> QED BY <1>3, <1>4

\* The next symbol is counted once.
LEMMA CountingOn ==
  ASSUME NEW a \in Seq(Nat), NEW p \in Seq(Nat), NEW d \in Nat, Counts(a \o p, d)
  PROVE  Counts(a \o Append(p, d + 1), d + 1)
<1> DEFINE q == Append(p, d + 1)
           v == a \o q
           m == Len(a)
           n == Len(p)
<1>1. /\ m \in Nat /\ n \in Nat /\ Len(a \o p) = m + n
      /\ \A i \in 1..m : (a \o p)[i] = a[i]
      /\ \A i \in 1..n : (a \o p)[m + i] = p[i]
  BY Concatenated
<1>2. /\ m + n = d
      /\ \A i \in 1..m : a[i] = i
      /\ \A i \in 1..n : p[i] = m + i
  <2> DEFINE u == a \o p
  <2>1. /\ Len(u) = d /\ \A i \in 1..d : u[i] = i
        /\ Len(u) = m + n /\ \A i \in 1..m : u[i] = a[i]
        /\ \A i \in 1..n : u[m + i] = p[i]
    BY <1>1 DEF Counts
  <2> HIDE DEF u, m, n
  <2>2. m + n = d
    BY <2>1
  <2>3. \A i \in 1..m : i \in 1..d
    BY <1>1, <2>2
  <2>4. \A i \in 1..n : m + i \in 1..d
    BY <1>1, <2>2
  <2> QED BY <2>1, <2>2, <2>3, <2>4
<1>3. q \in Seq(Nat) /\ Len(q) = n + 1 /\ q[n + 1] = d + 1 /\ \A i \in 1..n : q[i] = p[i]
  OBVIOUS
<1> HIDE DEF q
<1>4. /\ v \in Seq(Nat) /\ Len(v) = m + Len(q)
      /\ \A i \in 1..m : v[i] = a[i]
      /\ \A i \in 1..Len(q) : v[m + i] = q[i]
  <2>1. a \in Seq(Nat) /\ q \in Seq(Nat)
    BY <1>3
  <2> QED BY ONLY <2>1, Concatenated
<1> HIDE DEF v, m, n
<1>6. Len(v) = d + 1
  BY <1>1, <1>2, <1>3, <1>4
<1>7. ASSUME NEW i \in 1..(d + 1) PROVE v[i] = i
  <2>1. CASE i \in 1..m
    BY <1>2, <1>4, <2>1
  <2>2. CASE i \notin 1..m
    <3> DEFINE j == i - m
    <3>1. j \in 1..(n + 1) /\ m + j = i /\ j \in Int
      BY <1>1, <1>2, <2>2
    <3> HIDE DEF j
    <3>2. v[i] = q[j]
      BY <1>3, <1>4, <3>1
    <3>3. CASE j = n + 1
      <4>1. i = d + 1
        BY <1>1, <1>2, <3>1, <3>3
      <4> QED BY <1>3, <3>2, <3>3, <4>1
    <3>4. CASE j # n + 1
      <4>1. j \in 1..n
        BY <1>1, <3>1, <3>4
      <4> QED BY <1>2, <1>3, <3>1, <3>2, <4>1
    <3> QED BY <3>3, <3>4
  <2> QED BY <2>1, <2>2
<1>8. Counts(v, d + 1)
  BY <1>6, <1>7 DEF Counts
<1> QED BY <1>8 DEF v, q

LEMMA CountedIsTheCount ==
  ASSUME NEW s \in Seq(Nat), NEW d \in Nat, Counts(s, d)
  PROVE  s = [i \in 1..d |-> i]
<1>1. DOMAIN s = 1..Len(s) /\ s = [i \in DOMAIN s |-> s[i]]
  OBVIOUS
<1>2. Len(s) = d /\ \A i \in 1..d : s[i] = i
  BY DEF Counts
<1> QED BY <1>1, <1>2

LEMMA JoinedIsTyped ==
  ASSUME NEW s \in Seq(Batches)
  PROVE  Joined(s) \in Seq(Nat)
<1>1. [symbols |-> <<>>, sequence |-> 0] \in Batches
  BY DEF Batches
<1> QED BY <1>1, JoinedAppends

LEMMA ProcessKeeps ==
  ASSUME PipelineIInv, ProcessSample
  PROVE  PipelineIInv'
<1> DEFINE symbols == Append(pending_symbols, decoded + 1)
           a == Joined(batches)
           p == pending_symbols
<1>0. batch_size \in Nat \ {0} /\ MaxSymbols \in Nat
  BY StoresAssumption
<1>1. /\ decoded \in Nat /\ sample_buffer \in Seq(Nat) /\ decoded + Len(sample_buffer) <= MaxSymbols
      /\ p \in Seq(Nat) /\ Len(p) < batch_size /\ batches \in Seq(Batches)
      /\ Counts(a \o p, decoded)
      /\ \A i \in 1..Len(batches) : batches[i].sequence = i - 1 /\ Len(batches[i].symbols) <= batch_size
  BY DEF PipelineIInv
<1>2. /\ pipeline = "running" /\ pipeline' = pipeline /\ sample_buffer # <<>>
      /\ decoded' = decoded + 1 /\ sample_buffer' = Tail(sample_buffer)
  BY DEF ProcessSample
<1>3. a \in Seq(Nat)
  BY <1>1, JoinedIsTyped
<1>4. Counts(a \o symbols, decoded + 1)
  <2> HIDE DEF a, p
  <2>1. Counts(a \o Append(p, decoded + 1), decoded + 1)
    BY <1>1, <1>3, CountingOn, Zenon
  <2> QED BY <2>1 DEF p
<1>5. symbols \in Seq(Nat) /\ Len(symbols) = Len(p) + 1 /\ Len(p) \in Nat
  BY <1>1
<1>6. /\ sample_buffer' \in Seq(Nat) /\ decoded' \in Nat /\ decoded' + Len(sample_buffer') <= MaxSymbols
  <2>1. Tail(sample_buffer) \in Seq(Nat) /\ Len(Tail(sample_buffer)) = Len(sample_buffer) - 1 /\ Len(sample_buffer) \in Nat
    BY <1>1, <1>2
  <2> QED BY <1>0, <1>1, <1>2, <2>1
<1>7. CASE Len(symbols) >= batch_size
  <2>1. pending_symbols' = <<>> /\ batches' = Flushed(symbols, batches)
    BY <1>7 DEF ProcessSample
  <2>2. Len(symbols) <= batch_size
    BY <1>0, <1>1, <1>5
  <2> DEFINE new == Flushed(symbols, batches)
  <2>3. /\ new \in Seq(Batches) /\ Joined(new) = a \o symbols
        /\ \A i \in 1..Len(new) : new[i].sequence = i - 1 /\ Len(new[i].symbols) <= batch_size
    <3> HIDE DEF symbols
    <3> QED BY <1>1, <1>5, <2>2, FlushedIsJoined
  <2> HIDE DEF new, a, symbols
  <2>4. Joined(new) \in Seq(Nat)
    BY <2>3, JoinedIsTyped
  <2>5. Joined(new) \o <<>> = Joined(new)
    BY <2>4
  <2>6. batches' = new
    BY <2>1 DEF new
  <2>7. <<>> \in Seq(Nat) /\ Len(<<>>) = 0 /\ 0 < batch_size
    BY <1>0
  <2>8. Counts(Joined(batches') \o pending_symbols', decoded')
    BY <1>2, <1>4, <2>1, <2>3, <2>5, <2>6
  <2> QED BY <1>2, <1>6, <2>1, <2>3, <2>6, <2>7, <2>8 DEF PipelineIInv
<1>8. CASE ~ (Len(symbols) >= batch_size)
  <2>1. pending_symbols' = symbols /\ batches' = batches
    BY <1>8 DEF ProcessSample
  <2>2. Len(symbols) < batch_size
    BY <1>0, <1>5, <1>8
  <2> HIDE DEF symbols
  <2>3. Counts(Joined(batches') \o pending_symbols', decoded')
    BY <1>2, <1>4, <2>1
  <2> QED BY <1>1, <1>2, <1>5, <1>6, <2>1, <2>2, <2>3 DEF PipelineIInv
<1> QED BY <1>7, <1>8

LEMMA PipelinePreserves ==
  ASSUME PipelineIInv, [PipelineNext]_pipelineVars
  PROVE  PipelineIInv'
<1>0. batch_size \in Nat \ {0} /\ MaxSymbols \in Nat /\ MaxBurstSymbols \in Nat
  BY StoresAssumption
<1>1. CASE StartPipeline
  BY <1>1 DEF StartPipeline, PipelineIInv
<1>2. CASE ReadSamples
  <2>1. PICK n \in 0..MaxBurstSymbols : decoded + n <= MaxSymbols /\ sample_buffer' = [i \in 1..n |-> decoded + i]
    BY <1>2 DEF ReadSamples
  <2>2. n \in Nat /\ decoded \in Nat
    BY <1>0 DEF PipelineIInv
  <2>3. sample_buffer' \in Seq(Nat) /\ Len(sample_buffer') = n
    BY <2>1, <2>2
  <2>4. UNCHANGED <<pipeline, pending_symbols, batches, decoded>>
    BY <1>2 DEF ReadSamples
  <2> QED BY <2>1, <2>3, <2>4 DEF PipelineIInv
<1>3. CASE PipelineEnds
  <2>1. /\ decoded \in Nat /\ Len(sample_buffer) \in Nat /\ decoded + Len(sample_buffer) <= MaxSymbols
    BY DEF PipelineIInv
  <2>2. <<>> \in Seq(Nat) /\ Len(<<>>) = 0 /\ decoded + 0 <= MaxSymbols
    BY <1>0, <2>1
  <2>3. pipeline' = "stopped" /\ sample_buffer' = <<>> /\ UNCHANGED <<pending_symbols, batches, decoded>>
    BY <1>3 DEF PipelineEnds
  <2> QED BY <2>2, <2>3 DEF PipelineIInv
<1>4. CASE ForceFlush
  <2> DEFINE new == Flushed(pending_symbols, batches)
  <2>1. batches' = new /\ pending_symbols' = <<>> /\ UNCHANGED <<pipeline, sample_buffer, decoded>>
    BY <1>4 DEF ForceFlush
  <2>2. /\ pending_symbols \in Seq(Nat) /\ Len(pending_symbols) < batch_size /\ batches \in Seq(Batches)
        /\ Counts(Joined(batches) \o pending_symbols, decoded)
        /\ \A i \in 1..Len(batches) : batches[i].sequence = i - 1 /\ Len(batches[i].symbols) <= batch_size
    BY DEF PipelineIInv
  <2>3. Len(pending_symbols) <= batch_size
    BY <1>0, <2>2
  <2>4. /\ new \in Seq(Batches) /\ Joined(new) = Joined(batches) \o pending_symbols
        /\ \A i \in 1..Len(new) : new[i].sequence = i - 1 /\ Len(new[i].symbols) <= batch_size
    BY <2>2, <2>3, FlushedIsJoined
  <2> HIDE DEF new
  <2>5. Joined(new) \in Seq(Nat)
    BY <2>4, JoinedIsTyped
  <2>6. Joined(new) \o <<>> = Joined(new)
    BY <2>5
  <2>7. <<>> \in Seq(Nat) /\ Len(<<>>) = 0 /\ 0 < batch_size
    BY <1>0
  <2>8. Counts(Joined(batches') \o pending_symbols', decoded')
    BY <2>1, <2>2, <2>4, <2>6
  <2> QED BY <2>1, <2>4, <2>7, <2>8 DEF PipelineIInv
<1>5. CASE UNCHANGED pipelineVars
  BY <1>5 DEF PipelineIInv, pipelineVars
<1> QED BY <1>1, <1>2, <1>3, <1>4, <1>5, ProcessKeeps DEF PipelineNext

LEMMA SymbolsStayKept ==
  ASSUME PipelineIInv
  PROVE  SymbolsAreKept
<1> DEFINE all == Joined(batches) \o pending_symbols
<1>1. /\ batches \in Seq(Batches) /\ pending_symbols \in Seq(Nat) /\ decoded \in Nat /\ Counts(all, decoded)
      /\ \A i \in 1..Len(batches) : batches[i].sequence = i - 1 /\ Len(batches[i].symbols) <= batch_size
  BY DEF PipelineIInv
<1>2. DOMAIN batches = 1..Len(batches)
  BY <1>1
<1>3. all \in Seq(Nat)
  <2>1. Joined(batches) \in Seq(Nat)
    BY <1>1, JoinedIsTyped
  <2> QED BY <1>1, <2>1
<1> HIDE DEF all
<1>4. all = [i \in 1..decoded |-> i]
  BY <1>1, <1>3, CountedIsTheCount
<1> QED BY <1>1, <1>2, <1>4 DEF SymbolsAreKept, all

-----------------------------------------------------------------------------
(* The refresh: after each satellite, what is applied or pending is what    *)
(* answered so far.                                                         *)

Progress == [pending : SUBSET Birds, tles : [Birds -> BOOLEAN]]

Answered(acc, answers, seen) == \A b \in Birds : acc.tles[b] \/ b \in acc.pending <=> b \in answers \cap seen

\* One turn of batch_refresh() settles one satellite.
LEMMA RefreshOneAnswers ==
  ASSUME NEW acc \in Progress, NEW bird \in Birds, NEW answers \in SUBSET Birds, NEW size, NEW seen,
         Answered(acc, answers, seen)
  PROVE  /\ RefreshOne(acc, bird, answers, size) \in Progress
         /\ Answered(RefreshOne(acc, bird, answers, size), answers, seen \cup {bird})
<1> DEFINE pending == IF bird \in answers THEN acc.pending \cup {bird} ELSE acc.pending
           new == RefreshOne(acc, bird, answers, size)
           applied == [b \in Birds |-> acc.tles[b] \/ b \in pending]
<1>1. pending \in SUBSET Birds /\ acc.pending \in SUBSET Birds /\ acc.tles \in [Birds -> BOOLEAN]
  BY DEF Progress
<1>2. \A b \in Birds : acc.tles[b] \/ b \in pending <=> b \in answers \cap (seen \cup {bird})
  BY DEF Answered
<1> HIDE DEF pending
<1>3. \/ new = [pending |-> {}, tles |-> applied]
      \/ new = [acc EXCEPT !.pending = pending]
  BY Zenon DEF RefreshOne, pending
<1> HIDE DEF new
<1>4. CASE new = [pending |-> {}, tles |-> applied]
  <2>1. new.pending = {} /\ new.tles = applied
    BY <1>4
  <2>2. applied \in [Birds -> BOOLEAN] /\ \A b \in Birds : applied[b] <=> acc.tles[b] \/ b \in pending
    BY Zenon
  <2> HIDE DEF applied
  <2>3. new \in Progress
    BY <1>4, <2>2 DEF Progress
  <2>4. Answered(new, answers, seen \cup {bird})
    BY <1>2, <2>1, <2>2, Zenon DEF Answered
  <2> QED BY <2>3, <2>4 DEF new
<1>5. CASE new = [acc EXCEPT !.pending = pending]
  <2>1. new \in Progress /\ new.pending = pending /\ new.tles = acc.tles
    BY <1>1, <1>5 DEF Progress
  <2>2. Answered(new, answers, seen \cup {bird})
    BY <1>2, <2>1, Zenon DEF Answered
  <2> QED BY <2>1, <2>2 DEF new
<1> QED BY <1>3, <1>4, <1>5

\* An order of the satellites has each of them.
LEMMA OrderSeesAll ==
  ASSUME NEW order \in SetToSeqs(Birds)
  PROVE  /\ Cardinality(Birds) \in Nat /\ order \in [1..Cardinality(Birds) -> Birds]
         /\ \A b \in Birds : \E i \in 1..Cardinality(Birds) : order[i] = b
<1> DEFINE n == Cardinality(Birds)
<1>1. IsFiniteSet(Birds) /\ n \in Nat
  BY StoresAssumption, FS_CardinalityType
<1>2. order \in [1..n -> Birds] /\ \A i, j \in 1..n : i # j => order[i] # order[j]
  BY DEF SetToSeqs
<1>3. order \in Injection(1..n, Birds)
  BY <1>2 DEF Injection, IsInjective
<1>4. Cardinality(1..n) = n
  <2> HIDE DEF n
  <2>1. n \in Int /\ 1 \in Int
    BY <1>1
  <2>2. Cardinality(1..n) = IF 1 > n THEN 0 ELSE n - 1 + 1
    BY <2>1, FS_Interval
  <2> QED BY <1>1, <2>2
<1>5. order \in Surjection(1..n, Birds)
  BY <1>1, <1>3, <1>4, FS_Injection
<1> QED BY <1>1, <1>2, <1>5 DEF Surjection

\* All turns settle all of them, wherever the batches end.
LEMMA RefreshCompletes ==
  ASSUME NEW order \in SetToSeqs(Birds), NEW answers \in SUBSET Birds, NEW size
  PROVE  \A b \in Birds : BatchRefresh(order, answers, size)[b] <=> b \in answers
<1> DEFINE n == Cardinality(Birds)
           V == Progress
           base == [pending |-> {}, tles |-> [b \in Birds |-> FALSE]]
           Turn(v, x) == RefreshOne(v, x, answers, size)
           Solves(g) == g = [t \in SUBSET (1..n) |-> IF t = {} THEN base ELSE Turn(g[t \ {Max(t)}], order[Max(t)])]
           f == CHOOSE g : Solves(g)
           step == [k \in 1..n |-> [v \in V |-> Turn(v, order[k])]]
           done == FoldLeft(LAMBDA acc, bird : RefreshOne(acc, bird, answers, size), base, order)
           Seen(k) == {order[i] : i \in 1..k}
<1>1. /\ n \in Nat /\ DOMAIN order = 1..n /\ \A k \in 1..n : order[k] \in Birds
      /\ \A b \in Birds : \E i \in 1..n : order[i] = b
  BY OrderSeesAll
<1>2. done = f[1..n]
  BY <1>1 DEF FoldLeft, MapThenFoldSet
<1>3. BatchRefresh(order, answers, size) = [b \in Birds |-> done.tles[b] \/ b \in done.pending]
  BY DEF BatchRefresh
<1> HIDE DEF n, done
<1>4. base \in V /\ Answered(base, answers, {})
  <2>1. [b \in Birds |-> FALSE] \in [Birds -> BOOLEAN]
    BY Zenon
  <2>2. base \in V
    BY <2>1 DEF Progress
  <2>3. base.pending = {} /\ base.tles = [b \in Birds |-> FALSE]
    OBVIOUS
  <2> HIDE DEF base
  <2>4. Answered(base, answers, {})
    BY <2>3, Zenon DEF Answered
  <2> QED BY <2>2, <2>4
<1> HIDE DEF base
<1>5. ASSUME NEW v \in V, NEW x \in Birds, NEW seen, Answered(v, answers, seen)
      PROVE  Turn(v, x) \in V /\ Answered(Turn(v, x), answers, seen \cup {x})
  BY <1>5, RefreshOneAnswers
<1>6. ASSUME NEW v \in V, NEW x \in Birds PROVE Turn(v, x) \in V
  <2> DEFINE pending == IF x \in answers THEN v.pending \cup {x} ELSE v.pending
             applied == [b \in Birds |-> v.tles[b] \/ b \in pending]
  <2>1. pending \in SUBSET Birds /\ v.tles \in [Birds -> BOOLEAN]
    BY DEF Progress
  <2>2. \/ Turn(v, x) = [pending |-> {}, tles |-> applied]
        \/ Turn(v, x) = [v EXCEPT !.pending = pending]
    BY Zenon DEF RefreshOne
  <2>3. applied \in [Birds -> BOOLEAN]
    BY Zenon
  <2> HIDE DEF pending, applied, Turn
  <2> QED BY <2>1, <2>2, <2>3 DEF Progress
<1> HIDE DEF Turn, V
<1>7. step \in FoldSteps(n, V)
  BY <1>1, <1>6 DEF FoldSteps
<1>8. PICK e : Folds(e, n, V, base, step)
  <2> HIDE DEF step
  <2> QED BY <1>1, <1>4, <1>7, FoldExists, Zenon
<1>9. Solves(e)
  BY <1>1, <1>8, TopIsThere DEF Folds
<1> HIDE DEF step
<1>10. Solves(f)
  <2> HIDE DEF Solves
  <2> QED BY <1>9, Zenon
<1> HIDE DEF f
<1> DEFINE A == {k \in 0..n : f[1..k] \in V /\ Answered(f[1..k], answers, Seen(k))}
<1>11. 0 \in A
  <2>1. 1..0 = {} /\ 0 \in 0..n /\ {} \in SUBSET (1..n) /\ Seen(0) = {}
    BY <1>1
  <2>2. f[{}] = base
    BY <1>10, <2>1
  <2> HIDE DEF Seen
  <2>3. f[1..0] = base
    BY <2>1, <2>2, Zenon
  <2> QED BY <1>4, <2>1, <2>3
<1>12. ASSUME NEW k \in 1..n, k - 1 \in A PROVE k \in A
  <2>1. /\ Max(1..k) = k /\ (1..k) \ {k} = 1..(k - 1)
        /\ 1..k \in SUBSET (1..n) /\ 1..k # {} /\ k \in 0..n /\ k - 1 \in 0..n
    BY <1>1, IntervalTop
  <2>2. f[1..k] = Turn(f[(1..k) \ {Max(1..k)}], order[Max(1..k)])
    BY <1>10, <2>1
  <2>3. f[1..k] = Turn(f[1..(k - 1)], order[k])
    BY <2>1, <2>2
  <2>4. Seen(k) = Seen(k - 1) \cup {order[k]}
    <3>1. 1..k = (1..(k - 1)) \cup {k}
      BY <2>1
    <3> QED BY <3>1
  <2> HIDE DEF Seen
  <2>5. f[1..(k - 1)] \in V /\ Answered(f[1..(k - 1)], answers, Seen(k - 1)) /\ order[k] \in Birds
    BY <1>1, <1>12
  <2>6. f[1..k] \in V /\ Answered(f[1..k], answers, Seen(k - 1) \cup {order[k]})
    BY <1>5, <2>3, <2>5
  <2> QED BY <2>1, <2>4, <2>6
<1> HIDE DEF A
<1>13. n \in A
  <2>1. \A k \in 0..n : k \in A
    BY <1>1, <1>11, <1>12, UpTo
  <2>2. n \in 0..n
    BY <1>1
  <2> QED BY <2>1, <2>2
<1>14. Answered(done, answers, Seen(n))
  BY <1>2, <1>13 DEF A
<1>15. Birds \subseteq Seen(n)
  BY <1>1
<1> HIDE DEF Seen
<1> QED BY <1>3, <1>14, <1>15, Zenon DEF Answered

LEMMA RefreshPreserves ==
  ASSUME NothingFetchedIsLost, [RefreshNext]_refreshed
  PROVE  NothingFetchedIsLost'
<1>1. CASE RefreshNext
  <2>1. PICK order \in SetToSeqs(Birds), answers \in SUBSET Birds, size \in BatchSizes :
          refreshed' = {[answers |-> answers, tles |-> BatchRefresh(order, answers, size)]}
    BY <1>1 DEF RefreshNext
  <2> DEFINE done == BatchRefresh(order, answers, size)
             r == [answers |-> answers, tles |-> done]
  <2>2. \A b \in Birds : done[b] <=> b \in answers
    BY RefreshCompletes
  <2> HIDE DEF done
  <2>3. r.answers = answers /\ r.tles = done
    OBVIOUS
  <2>4. refreshed' = {r}
    BY <2>1 DEF done
  <2> HIDE DEF r
  <2> QED BY <2>2, <2>3, <2>4, Zenon DEF NothingFetchedIsLost
<1>2. CASE refreshed' = refreshed
  BY <1>2 DEF NothingFetchedIsLost
<1> QED BY <1>1, <1>2

-----------------------------------------------------------------------------
(* All stores *)

LEMMA StoresInitially ==
  ASSUME StoresInit
  PROVE  LruIInv /\ TimedIInv /\ OrbitIInv /\ FragmentIInv /\ SnapshotIInv /\ PipelineIInv /\ NothingFetchedIsLost
<1> USE DEF StoresInit
<1>1. /\ {max_size, MaxSymbols, max_fragments, SnapshotLimit} \subseteq Nat /\ batch_size \in Nat \ {0}
  BY StoresAssumption
<1>2. IsFiniteSet({}) /\ Cardinality({}) = 0
  BY FS_EmptySet
<1>3. LruIInv
  BY <1>1, <1>2 DEF LruIInv, RecentEntriesStay
<1>4. TimedIInv
  BY DEF TimedIInv, TimedIsFresh
<1>5. OrbitIInv
  BY DEF OrbitIInv, StatesAreCovered
<1>6. FragmentIInv
  BY <1>1, <1>2 DEF FragmentIInv, FragmentsStay
<1>7. SnapshotIInv
  <2>1. Len(<<>>) = 0 /\ <<>> \in Seq(Nat) /\ <<>> \in Seq(PeerSnapshots) /\ <<>> \in Seq(DemodSnapshots) /\ 1..0 = {}
    OBVIOUS
  <2>2. \A t : Rising(t, 0, 0)
    BY <2>1 DEF Rising
  <2> QED BY <1>1, <2>1, <2>2 DEF SnapshotIInv
<1>8. PipelineIInv
  <2>1. Len(<<>>) = 0 /\ <<>> \in Seq(Nat) /\ <<>> \in Seq(Batches) /\ 1..0 = {}
    OBVIOUS
  <2>2. Joined(<<>>) = <<>>
    <3>1. PICK h : PartlyJoined(h, <<>>, Len(<<>>)) /\ Joined(<<>>) = h[Len(<<>>)]
      BY <2>1, JoinedStepwise
    <3> QED BY <2>1, <3>1 DEF PartlyJoined
  <2>3. Counts(<<>> \o <<>>, 0)
    BY <2>1 DEF Counts
  <2>4. 0 + 0 <= MaxSymbols /\ 0 < batch_size
    BY <1>1
  <2> QED BY <2>1, <2>2, <2>3, <2>4 DEF PipelineIInv
<1>9. NothingFetchedIsLost
  BY DEF NothingFetchedIsLost
<1> QED BY <1>3, <1>4, <1>5, <1>6, <1>7, <1>8, <1>9

\* The stores keep what they should and give what they hold: the LRU cache evicts the
\* entry used least recently, the timed one serves nothing older than its time to live
\* and a second, the propagation cache answers by entries near the time asked for, a
\* fragment still immutable yields only to newer ones, snapshots stay in order, no
\* decoded symbol is lost or repeated over failures of the pipeline, and no elements
\* that were fetched are lost in the batches of a refresh; for any keys, limits, times
\* and batch sizes.
THEOREM StoresStaySound == StoresSpec => []StoresAreSound
<1>1. StoresInit => LruIInv /\ TimedIInv /\ OrbitIInv /\ FragmentIInv /\ SnapshotIInv /\ PipelineIInv /\ NothingFetchedIsLost
  BY StoresInitially
<1>2. LruIInv /\ [LruNext]_<<store_now, lruVars>> => LruIInv'
  BY LruPreserves
<1>3. TimedIInv /\ [TimedNext]_<<store_now, timedVars>> => TimedIInv'
  BY TimedPreserves
<1>4. OrbitIInv /\ [OrbitNext]_<<store_now, orbitVars>> => OrbitIInv'
  BY OrbitPreserves
<1>5. FragmentIInv /\ [FragmentNext]_<<store_now, fragmentVars>> => FragmentIInv'
  BY FragmentPreserves
<1>6. SnapshotIInv /\ [SnapshotNext]_snapshotVars => SnapshotIInv'
  BY SnapshotPreserves
<1>7. PipelineIInv /\ [PipelineNext]_pipelineVars => PipelineIInv'
  BY PipelinePreserves
<1>8. NothingFetchedIsLost /\ [RefreshNext]_refreshed => NothingFetchedIsLost'
  BY RefreshPreserves
<1>9. LruIInv /\ TimedIInv /\ OrbitIInv /\ FragmentIInv /\ SnapshotIInv /\ PipelineIInv /\ NothingFetchedIsLost => StoresAreSound
  BY SnapshotsStayOrdered, SymbolsStayKept DEF StoresAreSound, LruIInv, TimedIInv, OrbitIInv, FragmentIInv
<1> QED BY <1>1, <1>2, <1>3, <1>4, <1>5, <1>6, <1>7, <1>8, <1>9, PTL DEF StoresSpec

\* What the caches, snapshotters and the pipeline hold is within its limits.
LEMMA StoresAreTyped ==
  ASSUME LruIInv, TimedIInv, OrbitIInv, FragmentIInv, SnapshotIInv, PipelineIInv
  PROVE  StoresTypeOK
<1> DEFINE P == {max_size, 1}
           c == Cardinality(DOMAIN lru)
<1>1. max_size \in Nat /\ MaxSymbols \in Nat
  BY StoresAssumption
<1>2. c \in Nat /\ c <= (IF max_size = 0 THEN 1 ELSE max_size)
  BY FS_CardinalityType DEF LruIInv
<1>3. c <= Max(P)
  <2> DEFINE m == IF max_size = 0 THEN 1 ELSE max_size
  <2>1. m \in P /\ \A y \in P : m >= y
    BY <1>1
  <2>2. m \in Nat /\ c <= m
    BY <1>1, <1>2
  <2> HIDE DEF P, m, c
  <2>3. Max(P) \in P /\ \A y \in P : Max(P) >= y
    BY <2>1, MaxIsOne
  <2>4. Max(P) \in Nat
    BY <1>1, <2>3 DEF P
  <2>5. Max(P) >= m
    BY <2>1, <2>3
  <2> QED BY <1>2, <2>2, <2>4, <2>5
<1>4. decoded \in 0..MaxSymbols
  <2>1. decoded \in Nat /\ Len(sample_buffer) \in Nat /\ decoded + Len(sample_buffer) <= MaxSymbols
    BY DEF PipelineIInv
  <2> QED BY <1>1, <2>1
<1> HIDE DEF P, c
<1>5. Cardinality(DOMAIN lru) <= Max({max_size, 1})
  BY <1>3 DEF P, c
<1> QED BY <1>4, <1>5 DEF StoresTypeOK, LruIInv, TimedIInv, OrbitIInv, FragmentIInv, SnapshotIInv, PipelineIInv

\* The state of the command queue, the tracker, the scheduler and the stores has its
\* type in every reachable state: no transmission without its window, no cache over
\* its limit, and as many symbols decoded as were received at most.
THEOREM UplinkTypeCorrect ==
  QueueSpec /\ TrackerSpec /\ SchedulerSpec /\ StoresSpec => []UplinkTypeOK
<1>1. StoresInit => LruIInv /\ TimedIInv /\ OrbitIInv /\ FragmentIInv /\ SnapshotIInv /\ PipelineIInv
  BY StoresInitially
<1>2. LruIInv /\ [LruNext]_<<store_now, lruVars>> => LruIInv'
  BY LruPreserves
<1>3. TimedIInv /\ [TimedNext]_<<store_now, timedVars>> => TimedIInv'
  BY TimedPreserves
<1>4. OrbitIInv /\ [OrbitNext]_<<store_now, orbitVars>> => OrbitIInv'
  BY OrbitPreserves
<1>5. FragmentIInv /\ [FragmentNext]_<<store_now, fragmentVars>> => FragmentIInv'
  BY FragmentPreserves
<1>6. SnapshotIInv /\ [SnapshotNext]_snapshotVars => SnapshotIInv'
  BY SnapshotPreserves
<1>7. PipelineIInv /\ [PipelineNext]_pipelineVars => PipelineIInv'
  BY PipelinePreserves
<1>8. QueueIInv /\ TrackerIInv /\ SchedulerIInv
      /\ LruIInv /\ TimedIInv /\ OrbitIInv /\ FragmentIInv /\ SnapshotIInv /\ PipelineIInv => UplinkTypeOK
  <2>1. QueueIInv => QueueTypeOK
    BY DEF QueueIInv
  <2>2. TrackerIInv => TrackerTypeOK
    BY DEF TrackerIInv
  <2>3. SchedulerIInv => SchedulerTypeOK
    BY DEF SchedulerIInv
  <2> QED BY <2>1, <2>2, <2>3, StoresAreTyped DEF UplinkTypeOK
<1> QED BY <1>1, <1>2, <1>3, <1>4, <1>5, <1>6, <1>7, <1>8, InitQueue, NextQueue, InitTracker, NextTracker,
           InitScheduler, NextScheduler, PTL DEF QueueSpec, TrackerSpec, SchedulerSpec, StoresSpec

=============================================================================
