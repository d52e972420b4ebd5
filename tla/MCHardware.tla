----------------------------- MODULE MCHardware -----------------------------
(***************************************************************************)
(* The hardware pool, the ring buffer of a pass shard, the acquisition of  *)
(* a pass with a shadow receiver, and the scheduler of the passes with the *)
(* shares and reputations it reads.  They share no state, so a behaviour   *)
(* exercises one of them: interleaving their steps would only multiply the *)
(* states.                                                                 *)
(***************************************************************************)
EXTENDS HardwarePool, SampleRing, PassAcquisition, PassScheduling, FairShares, TLC

CONSTANTS d1, d2, p1, p2, t1, t2, sdr, r1, r2, a1, a2, s1, s2, mount, spare

VARIABLE subject  \* the component a behaviour exercises

\* Two receivers, two passes and two tasks that may release concurrently.
MCDevices == {d1, d2}
MCTypes == {sdr}
MCTypeOf == [d \in MCDevices |-> sdr]
MCPasses == {p1, p2}
MCTasks == {t1, t2}

PoolSymmetry ==
  Permutations(MCDevices) \cup Permutations(MCPasses) \cup Permutations(MCTasks)

\* A request in the future, and one for an hour that has begun, protected by a
\* shadow receiver; overlapping windows.
ToCome == [id |-> r1, start |-> 2, end |-> 4, shadow |-> FALSE]
Begun == [id |-> r2, start |-> 0, end |-> 3, shadow |-> TRUE]
MCRequestLists == {<<>>, <<ToCome>>, <<Begun, ToCome>>}
MCSdrs == <<s1, s2>>
MCShadows == <<spare>>
MCAntennas == <<a1, a2>>
MCRotators == <<mount>>

\* No schedule; a pass begun and one to come, on the same mount, near the zenith;
\* a pass that lists its receiver as its own shadow and one that shares it.
APass(r, from, to, d, protection, warning) ==
  [request |-> r, start |-> from, end |-> to, sdr_devices |-> <<d>>, shadow_sdr |-> protection,
   antenna |-> a1, rotator |-> mount, keyhole_warning |-> warning]
MCExisting ==
  {<<>>,
   <<APass(r1, 0, 2, s1, <<>>, <<>>),
     APass(r2, 1, 3, s2, <<spare>>, <<[loss |-> 10, handoff_scheduled |-> FALSE]>>)>>,
   <<APass(r1, 1, 3, spare, <<spare>>, <<[loss |-> 10, handoff_scheduled |-> TRUE]>>),
     [APass(r2, 2, 4, s1, <<spare>>, <<>>) EXCEPT !.antenna = a2, !.rotator = a2]>>}

\* Profiles of up to four samples, half a second to three seconds apart, below
\* and in the keyhole.
MCProfiles ==
  UNION {{[i \in 1..n |-> [at |-> FoldLeft(LAMBDA t, k : t + gaps[k], 0, [k \in 1..i |-> k]),
                          elevation |-> IF i \in high THEN 85 ELSE 60]]
            : gaps \in [1..n -> {1, 2, 6}], high \in SUBSET (1..n)} : n \in 1..4}

HardwareInit ==
  /\ subject \in {"pool", "ring", "acquisition", "passes", "keyhole", "shares", "reputation"}
  /\ Init
  /\ RingInit
  /\ AcquisitionInit
  /\ SchedulingInit
  /\ FairnessInit
  /\ subject # "passes" => plan = <<>>

OthersStay == UNCHANGED <<subject, vars, ringVars, acquisitionVars>>
SchedulerStays == UNCHANGED <<schedulingVars, fairnessVars>>

HardwareNext ==
  \/ subject = "pool" /\ Next /\ UNCHANGED <<subject, ringVars, acquisitionVars>> /\ SchedulerStays
  \/ subject = "ring" /\ RingNext /\ UNCHANGED <<subject, vars, acquisitionVars>> /\ SchedulerStays
  \/ subject = "acquisition" /\ AcquisitionNext /\ UNCHANGED <<subject, vars, ringVars>> /\ SchedulerStays
  \/ subject = "passes" /\ PlanNext /\ UNCHANGED <<keyholeVars, fairnessVars>> /\ OthersStay
  \/ subject = "keyhole" /\ AnalysePass /\ UNCHANGED <<planVars, fairnessVars>> /\ OthersStay
  \/ subject = "shares" /\ SharesNext /\ UNCHANGED schedulingVars /\ OthersStay
  \/ subject = "reputation" /\ ReputationNext /\ UNCHANGED schedulingVars /\ OthersStay

HardwareSpec ==
  HardwareInit /\
  [][HardwareNext]_<<subject, vars, ringVars, acquisitionVars, schedulingVars, fairnessVars>>

\* The state of the pool, of the ring, of an acquisition and of the scheduler has its
\* type.
HardwareTypeOK == TypeOK /\ RingTypeOK /\ AcquisitionTypeOK /\ SchedulingTypeOK /\ FairnessTypeOK

=============================================================================
