----------------------------- MODULE MCStation -----------------------------
(***************************************************************************)
(* The parts of a station around the pass itself: the antenna's interlock  *)
(* and controller, the supervisor of the pass processes, the agent's       *)
(* proposals, the RF front end's gain control, the twin's evidence, and    *)
(* the optical terminal's acquisition queue, coordinator, pointing model,  *)
(* path finder and link.  In the code they share no state, so a behaviour  *)
(* exercises one of them.                                                  *)
(***************************************************************************)
EXTENDS SafetyInterlock, AntennaController, PassSupervisor, ActionProposals,
        PatCoordinator, PointingModel, GainControl,
        TwinForensics, FrontEndDevices, OpticalLink

CONSTANTS t1, t2, s1, s2, s3, p1, p2, file, v1, v2, k1, k2, c1, c2, q1, q2, op,
          a1, a2, a3, here, via1, via2, there, u1, u2, f1, f2, r1, r2, snr, ber

VARIABLE subject  \* the component a behaviour exercises

MCTasks == {t1, t2}
MCStoppers == {s1, s2, s3}
MCPasses == {p1, p2}
MCPaths == {file}
MCVersions == {v1, v2}
MCSchemas == {k1, k2}
MCContents == {c1, c2}
MCProposals == {q1, q2}
MCOperators == {op}
MCPlanIds == {a1, a2}
MCPlans == {a1, a2, a3}
MCTargetT0 == [p \in MCPlans |-> IF p = a3 THEN 2 ELSE 1]  \* two plans for one moment
MCNodes == {here, via1, via2, there}
\* Links between any two nodes and from each to itself, some of which have one
\* beside them that is not visible or does not meet the constraints
MCLinks ==
  {[from |-> n, to |-> m, visible |-> TRUE, meets |-> TRUE] : n, m \in MCNodes}
  \cup {[from |-> n, to |-> there, visible |-> FALSE, meets |-> TRUE] : n \in {here, via1}}
  \cup {[from |-> n, to |-> m, visible |-> TRUE, meets |-> FALSE] : n \in {here, via1}, m \in {via2, there}}

\* A chain of up to four devices that work and one that does not.  The unit is
\* 1/128 dB; a signal 10 dB too weak and one 10 dB too strong.
MCReporters == {r1, r2}
MCAmplifierRange == -2560..7680
MCInputs == {-2560, 0}
MCInitialLevel == -2560
MCTargetLevel == -1280

\* Deviations below, at and above the smallest shift, and one beyond the threshold.
MCInterval == [k \in {snr, ber} |-> IF k = snr THEN [lower |-> 8, upper |-> 12] ELSE [lower |-> 0, upper |-> 0]]

\* A fixed filter, and two tunable ones of which one has no upper end
MCFilterSpecs == {[tunable |-> FALSE, min |-> {}, max |-> {}], [tunable |-> TRUE, min |-> {2}, max |-> {3}],
                  [tunable |-> TRUE, min |-> {3}, max |-> {}]}
MCGainRange == 10..30
MCGains == {-21, 9, 10, 30, 61}
MCPoints == {[commanded |-> 2, actual |-> 3], [commanded |-> 5, actual |-> 5], [commanded |-> 8, actual |-> 9]}

\* A link in order, one that is healthy but points too far off, weak ones, near
\* and far, and one whose errors overwhelm the correction
MCHealthyBer == -8
MCThresholdBer == -6
MCLinkQualities == {[ber |-> -9, snr |-> 15, pointing |-> 50], [ber |-> -9, snr |-> 11, pointing |-> 201],
                [ber |-> -6, snr |-> 9, pointing |-> 200], [ber |-> -8, snr |-> 8, pointing |-> 250],
                [ber |-> -5, snr |-> 15, pointing |-> 10]}
MCReadings == {[snr |-> 8, pointing |-> 150, gap |-> 0], [snr |-> 9, pointing |-> 250, gap |-> 1],
               [snr |-> 10, pointing |-> 200, gap |-> 3]}

StationInit ==
  /\ subject \in {"interlock", "stop", "antenna", "supervisor", "proposals",
                 "queue", "pat", "pointing", "routing", "gain", "detector", "store",
                 "device", "switch", "bank", "yig", "amplifier", "attenuator",
                 "link", "metrics", "failover"}
  /\ SafetyInit
  /\ AntennaInit
  /\ SupervisorInit
  /\ subject # "supervisor" => config.version = v1 /\ config.schema = k1 /\ disk[file] = Absent
  /\ ProposalsInit
  /\ AcquisitionQueueInit
  /\ PatInit
  /\ PointingInit
  /\ RoutingInit
  /\ GainInit
  /\ TwinInit
  /\ FrontEndInit
  /\ OpticalLinkInit
  /\ subject # "metrics" => max_size = 6
  /\ subject # "attenuator" => attenuator.step = OddStep
  /\ subject # "gain" => input = 0

stationVars == <<subject, safetyVars, antennaVars, supervisorVars, proposalVars>>
opticalVars == <<schedulerQueueVars, patVars, pointingVars, routingVars, gainVars, twinVars,
                 frontEndVars, opticalLinkVars>>
otherStationVars == <<stationVars, schedulerQueueVars, patVars, pointingVars, routingVars, gainVars, twinVars,
                      opticalLinkVars>>
otherThanLinkVars == <<stationVars, schedulerQueueVars, patVars, pointingVars, routingVars, gainVars, twinVars,
                       frontEndVars>>

StationNext ==
  \/ subject = "interlock" /\ InterlockNext
     /\ UNCHANGED <<subject, stopVars, antennaVars, supervisorVars, proposalVars, opticalVars>>
  \/ subject = "stop" /\ StopNext
     /\ UNCHANGED <<subject, interlockVars, antennaVars, supervisorVars, proposalVars, opticalVars>>
  \/ subject = "antenna" /\ AntennaNext
     /\ UNCHANGED <<subject, safetyVars, supervisorVars, proposalVars, opticalVars>>
  \/ subject = "supervisor" /\ SupervisorNext
     /\ UNCHANGED <<subject, safetyVars, antennaVars, proposalVars, opticalVars>>
  \/ subject = "proposals" /\ ProposalsNext
     /\ UNCHANGED <<subject, safetyVars, antennaVars, supervisorVars, opticalVars>>
  \/ subject = "queue" /\ AcquisitionQueueNext
     /\ UNCHANGED <<stationVars, patVars, pointingVars, routingVars, gainVars, twinVars, frontEndVars, opticalLinkVars>>
  \/ subject = "pat" /\ PatNext
     /\ UNCHANGED <<stationVars, schedulerQueueVars, pointingVars, routingVars, gainVars, twinVars, frontEndVars, opticalLinkVars>>
  \/ subject = "pointing" /\ PointingNext
     /\ UNCHANGED <<stationVars, schedulerQueueVars, patVars, routingVars, gainVars, twinVars, frontEndVars, opticalLinkVars>>
  \/ subject = "routing" /\ RoutingNext
     /\ UNCHANGED <<stationVars, schedulerQueueVars, patVars, pointingVars, gainVars, twinVars, frontEndVars, opticalLinkVars>>
  \/ subject = "gain" /\ GainNext
     /\ UNCHANGED <<stationVars, schedulerQueueVars, patVars, pointingVars, routingVars, twinVars, frontEndVars, opticalLinkVars>>
  \/ subject = "detector" /\ DetectorNext
     /\ UNCHANGED <<stationVars, schedulerQueueVars, patVars, pointingVars, routingVars, gainVars, storeVars, frontEndVars, opticalLinkVars>>
  \/ subject = "store" /\ StoreNext
     /\ UNCHANGED <<stationVars, schedulerQueueVars, patVars, pointingVars, routingVars, gainVars, detectorVars, frontEndVars, opticalLinkVars>>
  \/ subject = "device" /\ DeviceNext
     /\ UNCHANGED <<otherStationVars, switch, filterVars, yig, amplifierVars, attenuatorVars>>
  \/ subject = "switch" /\ SwitchNext
     /\ UNCHANGED <<otherStationVars, device, filterVars, yig, amplifierVars, attenuatorVars>>
  \/ subject = "bank" /\ BankNext
     /\ UNCHANGED <<otherStationVars, device, switch, yig, amplifierVars, attenuatorVars>>
  \/ subject = "yig" /\ YigNext
     /\ UNCHANGED <<otherStationVars, device, switch, filterVars, amplifierVars, attenuatorVars>>
  \/ subject = "amplifier" /\ AmplifierNext
     /\ UNCHANGED <<otherStationVars, device, switch, filterVars, yig, attenuatorVars>>
  \/ subject = "attenuator" /\ AttenuatorNext
     /\ UNCHANGED <<otherStationVars, device, switch, filterVars, yig, amplifierVars>>
  \/ subject = "link" /\ PhaseNext
     /\ UNCHANGED <<otherThanLinkVars, metricVars, failoverVars>>
  \/ subject = "metrics" /\ MetricNext
     /\ UNCHANGED <<otherThanLinkVars, phaseVars, failoverVars>>
  \/ subject = "failover" /\ FailoverNext
     /\ UNCHANGED <<otherThanLinkVars, phaseVars, metricVars>>

\* The receiver goes on measuring and a call that has its locks is run.  The
\* operator's calls end; that any is made is not assumed.
GainFairness ==
  /\ WF_gainVars(subject = "gain" /\ \E r \in Reporters : ReportLevel(r))
  /\ \A r \in Reporters : WF_gainVars(subject = "gain" /\ Proceed(r))
  /\ WF_gainVars(subject = "gain" /\ ResetAttenuators)

StationSpec == StationInit /\ [][StationNext]_<<stationVars, opticalVars>> /\ GainFairness

\* The state of each part has its type.
StationTypeOK ==
  /\ SafetyTypeOK /\ AntennaTypeOK /\ SupervisorTypeOK /\ ProposalsTypeOK
  /\ AcquisitionQueueTypeOK /\ PatTypeOK /\ PointingTypeOK /\ RoutingTypeOK
  /\ GainTypeOK /\ TwinTypeOK /\ FrontEndTypeOK /\ OpticalLinkTypeOK

============================================================================
