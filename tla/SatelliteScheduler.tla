------------------------- MODULE SatelliteScheduler -------------------------
(***************************************************************************)
(* Scheduling of claims across satellites: DefaultSatelliteScheduler of    *)
(* oisl/src/resource/scheduler.rs, over the SatelliteNodes of manager.rs   *)
(* and the ResourceAllocator of allocator.rs, whose actions it uses.       *)
(*                                                                         *)
(* The allocator and the node each draw an identifier of their own for one *)
(* and the same claim.  Power stands for the resources a node counts; the  *)
(* compute and storage counters are kept the same way.  rebalance() is a   *)
(* loop; its &mut self keeps every other operation out until it ends.      *)
(***************************************************************************)
EXTENDS ResourceAllocator, Integers

CONSTANTS
  Satellites,
  Carried,        \* available terminals of each satellite
  Claims,         \* [terminal, power, duration] that callers ask for
  DefaultTenant,  \* the tenant every claim is booked on
  TotalWatts,     \* PowerBudget.total_watts
  Hour,           \* the window a node gives an allocation
  MaxTime         \* bound on the clock

ASSUME SatelliteAssumption ==
  /\ Carried \in [Satellites -> SUBSET Terminals]
  /\ Claims \subseteq [terminal : Terminals \cup {None}, power : Powers, duration : Nat]
  /\ DefaultTenant \in Tenants
  /\ "Medium" \in Priorities
  /\ TotalWatts \in Nat
  /\ MaxTime \in Nat
  /\ \A b \in 0..MaxTime, d \in {c.duration : c \in Claims} \cup {Hour} :
       [start |-> b, end |-> b + d] \in Windows

VARIABLES
  clock,
  nodes,     \* each satellite's counters and current_allocations, or Absent
  worklist,  \* rebalance(): allocations_to_move
  moving     \* rebalance(): the one being moved, or None

rebalanceVars == <<worklist, moving>>
nodeVars == <<clock, nodes, rebalanceVars>>

SatelliteInit ==
  /\ Init
  /\ clock = 0
  /\ nodes = [s \in Satellites |-> Absent]
  /\ worklist = {}
  /\ moving = None

Rebalancing == worklist # {} \/ moving # None

Added == {s \in Satellites : nodes[s] # Absent}

NodeIds == UNION {{e.id : e \in nodes[s].current} : s \in Added}

Fresh == Ids \ (Live \cup NodeIds)

-----------------------------------------------------------------------------
(* SatelliteNode *)

NewNode == [available |-> TotalWatts, allocated |-> 0, current |-> {}]

CanSatisfyTotal(s, claim) ==
  /\ claim.power <= TotalWatts
  /\ claim.terminal # None => claim.terminal \in Carried[s]

\* can_satisfy(): an allocated terminal stays available.
CanSatisfy(s, claim) ==
  /\ claim.power <= nodes[s].available
  /\ claim.terminal # None => claim.terminal \in Carried[s]

NodeAllocate(n, e) ==
  [available |-> n.available - e.claim.power,
   allocated |-> n.allocated + e.claim.power,
   current |-> n.current \cup {e}]

\* release(): nothing happens on a node that does not know the identifier.
NodeRelease(n, id) ==
  LET gone == {e \in n.current : e.id = id}
      power == Watts([e \in gone |-> e.claim.power])
  IN [available |-> n.available + power,
      allocated |-> n.allocated - power,
      current |-> n.current \ gone]

-----------------------------------------------------------------------------
(* DefaultSatelliteScheduler *)

\* find_best_satellite(): most available power; ties in the order of the map.
Best(claim) ==
  LET able == {s \in Added : CanSatisfy(s, claim)} IN
  {s \in able : \A r \in able : nodes[r].available <= nodes[s].available}

Tick ==
  /\ clock < MaxTime
  /\ ~ Rebalancing
  /\ clock' = clock + 1
  /\ UNCHANGED <<vars, nodes, rebalanceVars>>

AddSatellite(s) ==
  /\ ~ Rebalancing
  /\ nodes' = [nodes EXCEPT ![s] = NewNode]
  /\ UNCHANGED <<vars, clock, rebalanceVars>>

AllocationFor(claim, window) ==
  [terminal |-> claim.terminal, power |-> claim.power, tenant |-> DefaultTenant,
   window |-> window, priority |-> "Medium"]

\* allocate(): the allocator takes the claim under one identifier, the best
\* satellite under another.  With no satellite or a refusal nothing changes.
ScheduleClaim(claim) ==
  /\ ~ Rebalancing
  /\ \E s \in Best(claim), id \in Fresh, nodeId \in Fresh :
       /\ id # nodeId
       /\ Allocate(id, AllocationFor(claim,
            [start |-> clock, end |-> clock + claim.duration]))
       /\ nodes' = [nodes EXCEPT ![s] = NodeAllocate(@,
            [id |-> nodeId, claim |-> claim,
             window |-> [start |-> clock, end |-> clock + Hour]])]
  /\ UNCHANGED <<clock, rebalanceVars>>

\* preempt(): the allocator's allocation goes; every node is told its identifier.
SchedulePreempt(id) ==
  /\ ~ Rebalancing
  /\ Preempt(id)
  /\ nodes' = [s \in Satellites |->
                 IF s \in Added THEN NodeRelease(nodes[s], id) ELSE Absent]
  /\ UNCHANGED <<clock, rebalanceVars>>

\* Utilization above 0.8.
Overloaded(s) == 10 * nodes[s].allocated > 8 * TotalWatts

\* rebalance(), first loop: every allocation of a node is preemptible.
RebalanceBegin ==
  /\ ~ Rebalancing
  /\ worklist' = UNION {{[source |-> s, entry |-> e] : e \in nodes[s].current} :
                        s \in {r \in Added : Overloaded(r)}}
  /\ worklist' # {}
  /\ Cardinality(worklist') <= Cardinality(Fresh)  \* bound: identifiers
  /\ UNCHANGED <<vars, clock, nodes, moving>>

\* rebalance(), second loop: the best satellite is the source, or there is none.
RebalanceStays(item) ==
  /\ moving = None
  /\ item \in worklist
  /\ \/ Best(item.entry.claim) = {}
     \/ item.source \in Best(item.entry.claim)
  /\ worklist' = worklist \ {item}
  /\ UNCHANGED <<vars, clock, nodes, moving>>

\* A better satellite exists: release by the node's identifier, and the error
\* is ignored.
RebalanceRelease(item) ==
  /\ moving = None
  /\ item \in worklist
  /\ Best(item.entry.claim) \ {item.source} # {}
  /\ IF item.entry.id \in Live
     THEN Release(item.entry.id)
     ELSE UNCHANGED vars
  /\ worklist' = worklist \ {item}
  /\ moving' = item
  /\ UNCHANGED <<clock, nodes>>

MovedAllocation == AllocationFor(moving.entry.claim, moving.entry.window)

RebalanceAllocateUnchecked ==
  /\ moving # None
  /\ \E id \in Fresh : allocations' = [allocations EXCEPT ![id] = MovedAllocation]
  /\ moving' = None
  /\ UNCHANGED <<terminal_index, tenant_index, tenant_quotas, clock, nodes, worklist>>

\* The moved allocation, counted as moved; no node is touched.
RebalanceAllocate ==
  /\ moving # None
  /\ \E id \in Fresh : Allocate(id, MovedAllocation)
  /\ moving' = None
  /\ UNCHANGED <<clock, nodes, worklist>>

\* The allocator refuses: a failed migration.
RebalanceRefused ==
  /\ moving # None
  /\ ~ Admissible(MovedAllocation)
  /\ moving' = None
  /\ UNCHANGED <<vars, clock, nodes, worklist>>

\* Satellites are added once.
SatelliteNext ==
  \/ Tick
  \/ \E s \in Satellites : nodes[s] = Absent /\ AddSatellite(s)
  \/ \E claim \in Claims : ScheduleClaim(claim)
  \/ \E id \in Ids : SchedulePreempt(id)
  \/ RebalanceBegin
  \/ \E item \in worklist : RebalanceStays(item)
  \/ \E item \in worklist : RebalanceRelease(item)
  \/ RebalanceAllocate
  \/ RebalanceRefused

SatelliteSpec == SatelliteInit /\ [][SatelliteNext]_<<vars, nodeVars>>

-----------------------------------------------------------------------------
(* Properties *)

\* Whatever the scheduler does to the allocator is a step of the allocator: the
\* rebalance loop, too, respects its indexes, conflicts and quotas.  This is Spec
\* with the stuttering step tried first, which spares TLC most of the work.
AllocatorSpec == Init /\ [][vars' # vars => Next]_vars

\* A node never promises more power than it has, and its counters are those of
\* its allocations: allocated and available watts add up to the total and no
\* claim is admitted on what another has already taken.
PowerConserved ==
  \A s \in Added :
    /\ nodes[s].available >= 0
    /\ nodes[s].available + nodes[s].allocated = TotalWatts
    /\ nodes[s].allocated = Watts([e \in nodes[s].current |-> e.claim.power])

=============================================================================
