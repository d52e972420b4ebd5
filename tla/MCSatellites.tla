---------------------------- MODULE MCSatellites ----------------------------
(***************************************************************************)
(* The allocator by itself, with every claim, tenant and quota, the        *)
(* allocator as the satellite scheduler uses it, the handoffs of           *)
(* satellites between control nodes, the planning of missions, the control *)
(* nodes, their placement and their prediction, and the constellation: a   *)
(* behaviour is of one of them.                                            *)
(***************************************************************************)
EXTENDS SatelliteScheduler, MissionPlanning, ControlNodes,
        Constellations, TLC

CONSTANTS
  i1, i2, i3, i4, n1, n2, s1, s2, s3, oct, gs, cloudy, g1, g2, g3, peer,
  MaxLive   \* bound on the allocations of the allocator by itself

VARIABLE subject

\* Windows that overlap, nest and only meet; claims that overload a satellite
\* alone or together, with and without the one terminal.
MCIds == {i1, i2, i3, i4}
MCTenants == {n1, n2}
MCWindows == {[start |-> b, end |-> b + d] : b \in 0..1, d \in 1..2}
MCSatellites == {s1, s2}
MCCarried == [s \in MCSatellites |-> {"oct1"}]
MCClaims == {[terminal |-> "oct1", power |-> 2, duration |-> 1],
             [terminal |-> None, power |-> 2, duration |-> 2],
             [terminal |-> None, power |-> 1, duration |-> 1]}

\* A failed handoff, the one that follows it, and another satellite's in between.
MCSpacecraft == {s1, s2}

\* The cheapest way from s1 to s3 waits for a better link by going to s2 and
\* back; the link there is at once is dear.  A later forecast of the same five
\* minutes has another link; that of the next five minutes has two ways to be
\* at s2 at the same time, whence a link of negative cost that the search never sees.
MCCraft == {s1, s2, s3}
Edge(a, b, from, to, c) == [from |-> a, to |-> b, window |-> [start |-> from, end |-> to], cost |-> c]
MCForecasts ==
  LET early == {Edge(s1, s2, 0, 2, 1), Edge(s2, s1, 0, 2, 1), Edge(s1, s3, 0, 2, 9)}
      late == early \cup {Edge(s1, s3, 2, 4, 1)}
  IN  {[start |-> 0, end |-> 24, snapshots |-> (0 :> early @@ 4 :> late)],
       [start |-> 1, end |-> 16, snapshots |-> (1 :> {Edge(s1, s3, 1, 3, 4)})],
       [start |-> 10, end |-> 16,
        snapshots |-> (10 :> {Edge(s1, s2, 10, 12, 2), Edge(s1, s2, 10, 11, 3), Edge(s2, s3, 11, 12, -4),
                              Edge(s1, s3, 10, 11, 1)})]}
MCHost == (oct :> s3)
MCStations == {gs, cloudy}
MCAvailability == [g \in MCStations |-> {[start |-> 12, end |-> 60]}]
MCCloudCover == [g \in MCStations |-> IF g = gs THEN 80 ELSE 90]
MCIntents ==
  {[kind |-> "relay", source |-> s1, destination |-> oct, max_latency |-> m] : m \in {1, Unbounded}}
  \cup {[kind |-> "observation", revisit |-> 24],
        [kind |-> "custody", target |-> oct, persistence |-> 40],
        [kind |-> "downlink", satellite |-> s1, ground_window |-> [start |-> 30, end |-> 50]]}

\* Three stations of which one is nearest to both satellites, and a forecast of
\* five snapshots in two clusters, where a station is missing now and then.
MCSites == {g1, g2, g3}
Table(a, b, c) ==
  (g1 :> (s1 :> a @@ s2 :> a)) @@ (g2 :> (s1 :> b @@ s2 :> c)) @@ (g3 :> (s1 :> c @@ s2 :> b))
MCPlacementForecasts ==
  LET all == [feature |-> 3, distance |-> Table(10, 20, 30)]
      odd == [feature |-> 9, distance |-> Table(30, 5, 40)]
      few == [feature |-> 1, distance |-> (g1 :> (s1 :> 15 @@ s2 :> 25))]
      row == [feature |-> 2, distance |-> (g1 :> (s1 :> 30 @@ s2 :> 30)) @@ (g2 :> (s1 :> 20 @@ s2 :> 20))
                                          @@ (g3 :> (s1 :> 10 @@ s2 :> 10))]
  IN  {<<all>>, <<row>>, <<few, all>>, <<all, few, odd, odd, all>>, <<few, few, few, all, odd>>}

IdSymmetry == Permutations(MCIds)

RunInit ==
  /\ subject \in {"allocator", "scheduler", "handoff", "missions", "bindings", "links", "placement", "assignment",
                 "orbits", "prediction"}
  /\ SatelliteInit
  /\ HandoffInit
  /\ MissionInit
  /\ ControlNodesInit
  /\ ConstellationInit

RunNext ==
  \/ /\ subject = "allocator"
     /\ Next
     /\ Cardinality(Live') <= MaxLive
     /\ UNCHANGED <<subject, nodeVars, handoffVars, missionVars, controlNodeVars, constellationStateVars>>
  \/ subject = "scheduler" /\ SatelliteNext /\ UNCHANGED <<subject, handoffVars, missionVars, controlNodeVars, constellationStateVars>>
  \/ subject = "handoff" /\ HandoffNext /\ UNCHANGED <<subject, vars, nodeVars, missionVars, controlNodeVars, constellationStateVars>>
  \/ subject = "missions" /\ MissionNext /\ UNCHANGED <<subject, vars, nodeVars, handoffVars, controlNodeVars, constellationStateVars>>
  \/ subject = "bindings" /\ BindingNext /\ UNCHANGED <<subject, vars, nodeVars, handoffVars, missionVars, constellationStateVars>>
  \/ subject = "links" /\ LinkNext /\ UNCHANGED <<subject, vars, nodeVars, handoffVars, missionVars, constellationStateVars>>
  \/ subject = "placement" /\ PlacementNext /\ UNCHANGED <<subject, vars, nodeVars, handoffVars, missionVars, constellationStateVars>>
  \/ subject = "assignment" /\ AssignmentNext /\ UNCHANGED <<subject, vars, nodeVars, handoffVars, missionVars, constellationStateVars>>
  \/ subject = "orbits" /\ OrbitalNext
     /\ UNCHANGED <<subject, vars, nodeVars, handoffVars, missionVars, controlNodeVars, predictionVars>>
  \/ subject = "prediction" /\ PredictionNext
     /\ UNCHANGED <<subject, vars, nodeVars, handoffVars, missionVars, controlNodeVars, orbitalVars>>

RunSpec == RunInit /\ [][RunNext]_<<subject, vars, nodeVars, handoffVars, missionVars, controlNodeVars,
                                   constellationStateVars>>

\* The state of the allocator, the handoffs, the missions and the control nodes
\* has its type.
SatellitesTypeOK == TypeOK /\ HandoffTypeOK /\ MissionTypeOK /\ ControlNodesTypeOK
                    /\ ConstellationTypeOK

=============================================================================
