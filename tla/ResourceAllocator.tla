-------------------------- MODULE ResourceAllocator --------------------------
(***************************************************************************)
(* The multi-tenant allocator of satellite resources,                      *)
(* oisl/src/resource/allocator.rs: the allocations, two indexes into them  *)
(* (by optical terminal, by tenant) that every check reads instead of the  *)
(* allocations themselves, and the tenants' power quotas.                  *)
(*                                                                         *)
(* Every method takes &mut self, so it is one action.  Allocation          *)
(* identifiers are random UUIDs: an identifier that names no allocation is *)
(* taken for a new one.                                                    *)
(***************************************************************************)
EXTENDS Naturals, FiniteSets

CONSTANTS
  Ids,        \* allocation identifiers
  Tenants,
  Terminals,  \* optical terminals
  Windows,    \* the valid_windows tasks ask for
  Powers,     \* power_watts of a claim
  Quotas,     \* max_power_watts of a quota
  Priorities,
  None,       \* no terminal
  Absent,     \* no allocation
  Unlimited   \* no quota

ASSUME AllocatorAssumption ==
  /\ Windows \subseteq [start : Nat, end : Nat]
  /\ Powers \subseteq Nat
  /\ Quotas \subseteq Nat
  /\ None \notin Terminals
  /\ Unlimited \notin Quotas

Allocations ==
  [terminal : Terminals \cup {None}, power : Powers, tenant : Tenants,
   window : Windows, priority : Priorities]

ASSUME AbsentAssumption == Absent \notin Allocations

VARIABLES
  allocations,     \* the allocation each identifier names, or Absent
  terminal_index,  \* identifiers, per terminal
  tenant_index,    \* identifiers, per tenant
  tenant_quotas    \* max_power_watts, per tenant

vars == <<allocations, terminal_index, tenant_index, tenant_quotas>>

Live == {id \in Ids : allocations[id] # Absent}

Init ==
  /\ allocations = [id \in Ids |-> Absent]
  /\ terminal_index = [t \in Terminals |-> {}]
  /\ tenant_index = [n \in Tenants |-> {}]
  /\ tenant_quotas = [n \in Tenants |-> Unlimited]

SetTenantQuotaAdds(n, q) ==
  /\ tenant_quotas' =
       [tenant_quotas EXCEPT ![n] = IF @ = Unlimited THEN q ELSE @ + q]
  /\ UNCHANGED <<allocations, terminal_index, tenant_index>>

\* set_tenant_quota(): the usage may be above the new quota.
SetTenantQuota(n, q) ==
  /\ tenant_quotas' = [tenant_quotas EXCEPT ![n] = q]
  /\ UNCHANGED <<allocations, terminal_index, tenant_index>>

\* TimeWindow::overlaps().
Overlaps(v, w) == v.start < w.end /\ v.end > w.start

\* The watts that a function gives to its arguments, counted one by one.
Watts(power) == Cardinality(UNION {{x} \X (1..power[x]) : x \in DOMAIN power})

\* tenant_usage(): the power of the allocations the index lists.
TenantUsage(n) == Watts([id \in tenant_index[n] \cap Live |-> allocations[id].power])

WithinQuotaBefore(a) ==
  tenant_quotas[a.tenant] # Unlimited =>
    TenantUsage(a.tenant) <= tenant_quotas[a.tenant]

WithinQuota(a) ==
  tenant_quotas[a.tenant] # Unlimited =>
    TenantUsage(a.tenant) + a.power <= tenant_quotas[a.tenant]

NoConflictSameTenant(a) ==
  a.terminal # None =>
    \A id \in terminal_index[a.terminal] \cap Live :
      allocations[id].tenant = a.tenant => ~ Overlaps(allocations[id].window, a.window)

\* check_conflicts(), by way of the terminal index.
NoConflict(a) ==
  a.terminal # None =>
    \A id \in terminal_index[a.terminal] \cap Live :
      ~ Overlaps(allocations[id].window, a.window)

Admissible(a) == WithinQuota(a) /\ NoConflict(a)

\* allocate(): both checks pass; the indexes are updated, then the allocation
\* is stored.  A refused claim changes nothing.
Allocate(id, a) ==
  /\ id \notin Live
  /\ Admissible(a)
  /\ allocations' = [allocations EXCEPT ![id] = a]
  /\ terminal_index' =
       [t \in Terminals |-> terminal_index[t] \cup (IF t = a.terminal THEN {id} ELSE {})]
  /\ tenant_index' = [tenant_index EXCEPT ![a.tenant] = @ \cup {id}]
  /\ UNCHANGED tenant_quotas

ReleaseLeavesTerminal(id) ==
  /\ allocations' = [allocations EXCEPT ![id] = Absent]
  /\ tenant_index' = [tenant_index EXCEPT ![allocations[id].tenant] = @ \ {id}]
  /\ UNCHANGED <<terminal_index, tenant_quotas>>

\* release() of a live allocation: it goes from the list and from the indexes
\* of its own terminal and tenant.
ReleaseLive(id) ==
  /\ allocations' = [allocations EXCEPT ![id] = Absent]
  /\ terminal_index' =
       [t \in Terminals |-> terminal_index[t] \ (IF t = allocations[id].terminal THEN {id} ELSE {})]
  /\ tenant_index' = [tenant_index EXCEPT ![allocations[id].tenant] = @ \ {id}]
  /\ UNCHANGED tenant_quotas

Release(id) == id \in Live /\ ReleaseLive(id)

\* can_preempt(): every allocation is made preemptible.
CanPreempt(id) == allocations[id].priority # "Critical"

Preempt(id) ==
  /\ id \in Live
  /\ CanPreempt(id)
  /\ ReleaseLive(id)

Next ==
  \/ \E n \in Tenants, q \in Quotas : SetTenantQuota(n, q)
  \/ \E id \in Ids, a \in Allocations : Allocate(id, a)
  \/ \E id \in Ids : Release(id)
  \/ \E id \in Ids : Preempt(id)

Spec == Init /\ [][Next]_vars

-----------------------------------------------------------------------------
(* Properties *)

\* Every field of the allocator has its type.
TypeOK ==
  /\ allocations \in [Ids -> Allocations \cup {Absent}]
  /\ terminal_index \in [Terminals -> SUBSET Ids]
  /\ tenant_index \in [Tenants -> SUBSET Ids]
  /\ tenant_quotas \in [Tenants -> Quotas \cup {Unlimited}]

\* The indexes name exactly the live allocations of each terminal and tenant,
\* after any sequence of allocations, releases and preemptions: no check misses
\* an allocation, none sees one that is gone.
IndexesAgree ==
  /\ \A t \in Terminals : terminal_index[t] = {id \in Live : allocations[id].terminal = t}
  /\ \A n \in Tenants : tenant_index[n] = {id \in Live : allocations[id].tenant = n}

\* A terminal never serves two allocations at one time, of one tenant or of two.
TerminalsAreExclusive ==
  \A i, j \in Live :
    i # j /\ allocations[i].terminal # None /\ allocations[i].terminal = allocations[j].terminal
    => ~ Overlaps(allocations[i].window, allocations[j].window)

\* No step takes a tenant's usage above the quota the tenant has by then, even
\* after the quota was lowered under allocations already made.
NoStepExceedsQuota ==
  [][\A n \in Tenants :
       TenantUsage(n)' > TenantUsage(n) /\ tenant_quotas[n] # Unlimited
       => TenantUsage(n)' <= tenant_quotas[n]]_vars

==============================================================================
