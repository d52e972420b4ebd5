----------------------------- MODULE FairShares -----------------------------
(***************************************************************************)
(* What decides between tenants in the pass scheduler: the dominant shares *)
(* of scheduler/src/drf.rs and the reputations of reputation.rs.  Both are *)
(* owned by one optimizer and changed by one call at a time.               *)
(*                                                                         *)
(* A share is counted in parts of Full, a utilization and a reputation in  *)
(* parts of Scale: with MaxGrants updates of a tenth each, nothing is      *)
(* rounded.                                                                *)
(***************************************************************************)
EXTENDS Integers, Sequences, FiniteSets, FiniteSetsExt, Functions

CONSTANTS
  Customers, ResourceTypes,
  Capacities,  \* total capacities, 0 among them
  Amounts,     \* what one call allocates
  Full, Scale,
  GrantSize, Uses,  \* what a fulfilled request allocates, and may use, of it
  MaxAllocated, MaxGrants

ASSUME FairSharesAssumption ==
  /\ Capacities \cup Uses \subseteq Nat /\ Amounts \subseteq Nat \ {0}
  /\ {Full, Scale, GrantSize} \subseteq Nat \ {0}
  /\ {MaxAllocated, MaxGrants} \subseteq Nat

VARIABLES
  tenant_allocations,  \* a ResourceAllocation [shares, dominant_resource] of each known tenant
  reputations,  \* a TenantReputation of each known tenant
  uses          \* history: what each tenant has used of its grants, in order, and what came of it

shareVars == <<tenant_allocations>>
reputationVars == <<reputations, uses>>
fairnessVars == <<shareVars, reputationVars>>

\* TenantReputation::new(): a hundred units are charged to it from the start.
NewReputation ==
  [historical_utilization |-> Scale \div 2, reputation |-> Scale,
   allocated |-> 100, used |-> 0, total_fulfilled |-> 0, total_wasted |-> 0]

FairnessInit ==
  /\ tenant_allocations = << >>
  /\ reputations = << >>
  /\ uses = [t \in Customers |-> <<>>]

-----------------------------------------------------------------------------
(* Dominant resources.                                                     *)

Share(s) == IF s.total_capacity > 0 THEN (s.allocated * Full) \div s.total_capacity ELSE 0

\* recompute_dominant(): of equal shares any, the map has no order.
Dominants(shares) ==
  {{r} : r \in {r \in DOMAIN shares : \A q \in DOMAIN shares : Share(shares[q]) <= Share(shares[r])}}
  \cup (IF DOMAIN shares = {} THEN {{}} ELSE {})

Extend(f, key, value) == [k \in DOMAIN f \cup {key} |-> IF k = key THEN value ELSE f[k]]

Known(t) ==
  IF t \in DOMAIN tenant_allocations THEN tenant_allocations[t] ELSE [shares |-> << >>, dominant_resource |-> {}]

\* get_or_create_allocation(): a tenant without a share is known, too.
Enter(t) ==
  /\ t \notin DOMAIN tenant_allocations
  /\ tenant_allocations' = Extend(tenant_allocations, t, Known(t))
  /\ UNCHANGED reputationVars

\* add_share(): a share of the type already there is replaced, and what was
\* allocated of it with it.
AddShare(t, r, capacity) ==
  LET shares == Extend(Known(t).shares, r, [total_capacity |-> capacity, allocated |-> 0]) IN
  /\ \E dominant \in Dominants(shares) :
       tenant_allocations' = Extend(tenant_allocations, t, [shares |-> shares, dominant_resource |-> dominant])
  /\ UNCHANGED reputationVars

\* The dominant resource is left as it was.
AllocateOnly(t, r, amount) ==
  /\ t \in DOMAIN tenant_allocations /\ r \in DOMAIN tenant_allocations[t].shares
  /\ tenant_allocations[t].shares[r].allocated + amount <= MaxAllocated
  /\ tenant_allocations' = [tenant_allocations EXCEPT ![t].shares[r].allocated = @ + amount]
  /\ UNCHANGED reputationVars

\* allocate(): nothing without a share of the type.
AllocateShare(t, r, amount) ==
  /\ t \in DOMAIN tenant_allocations /\ r \in DOMAIN tenant_allocations[t].shares
  /\ tenant_allocations[t].shares[r].allocated + amount <= MaxAllocated
  /\ LET shares == [tenant_allocations[t].shares EXCEPT ![r].allocated = @ + amount] IN
     \E dominant \in Dominants(shares) :
       tenant_allocations' = [tenant_allocations EXCEPT
         ![t] = [shares |-> shares, dominant_resource |-> dominant]]
  /\ UNCHANGED reputationVars

dominant_share(a) == Max({0} \cup {Share(a.shares[r]) : r \in a.dominant_resource \cap DOMAIN a.shares})

DrfPriority(t) == IF t \in DOMAIN tenant_allocations THEN dominant_share(tenant_allocations[t]) ELSE 0

\* select_next_tenant(): the first with the smallest priority.
select_next_tenant(candidates) ==
  {candidates[i] : i \in {i \in DOMAIN candidates : \A j \in DOMAIN candidates :
     /\ DrfPriority(candidates[i]) <= DrfPriority(candidates[j])
     /\ j < i => DrfPriority(candidates[i]) < DrfPriority(candidates[j])}}

\* fairness_stats().fairness_gap: the folds start from 0 and from the full share.
fairness_gap ==
  LET shares == {dominant_share(tenant_allocations[t]) : t \in DOMAIN tenant_allocations}
  IN  Max({0} \cup shares) - Min({Full} \cup shares)

-----------------------------------------------------------------------------
(* Reputation.                                                             *)

\* update_utilization(): the smoothed utilization raises or lowers the reputation
\* towards 1 or one half, or leaves it.
update_utilization(rep, utilization) ==
  LET history == (utilization + 9 * rep.historical_utilization) \div 10 IN
  [rep EXCEPT !.historical_utilization = history,
              !.reputation =
                 IF 10 * history > 8 * Scale THEN Min({(9 * @ + Scale) \div 10, Scale})
                 ELSE IF 2 * history < Scale THEN Max({(9 * @ + Scale \div 2) \div 10, 0})
                 ELSE @]

\* What record_fulfilled() counts before it updates the utilization.
Charged(rep, used) ==
  [rep EXCEPT !.total_fulfilled = @ + 1, !.allocated = @ + GrantSize, !.used = @ + used,
              !.total_wasted = @ + Max({GrantSize - used, 0})]

\* record_fulfilled(), of a tenant known or not.
RecordFulfilled(t, used) ==
  LET rep == IF t \in DOMAIN reputations THEN reputations[t] ELSE NewReputation
      after == update_utilization(Charged(rep, used), (used * Scale) \div GrantSize)
  IN  /\ Len(uses[t]) < MaxGrants
      /\ reputations' = Extend(reputations, t, after)
      /\ uses' = [uses EXCEPT ![t] = Append(@, [used |-> used, utilization |-> after.historical_utilization,
                                               reputation |-> after.reputation])]
      /\ UNCHANGED shareVars

\* scheduling_priority(): the reputation over the units charged; compared by
\* cross multiplication.  An unknown tenant has priority 0, below all others.
Before(t, u) ==
  /\ t \in DOMAIN reputations
  /\ u \in DOMAIN reputations =>
       reputations[t].reputation * (reputations[u].allocated + 1)
         > reputations[u].reputation * (reputations[t].allocated + 1)

\* select_best_tenant(): the last of those that none is before.
select_best_tenant(candidates) ==
  {candidates[i] : i \in {i \in DOMAIN candidates : \A j \in DOMAIN candidates :
     ~ Before(candidates[j], candidates[i])
     /\ (j > i => Before(candidates[i], candidates[j]))}}

SharesNext ==
  \E t \in Customers :
    \/ Enter(t)
    \/ \E r \in ResourceTypes :
         \/ \E c \in Capacities : AddShare(t, r, c)
         \/ \E a \in Amounts : AllocateShare(t, r, a)

ReputationNext == \E t \in Customers, used \in Uses : RecordFulfilled(t, used)

FairnessNext == SharesNext \/ ReputationNext
FairnessSpec == FairnessInit /\ [][FairnessNext]_fairnessVars

-----------------------------------------------------------------------------
(* Properties.                                                             *)

\* Shares and reputations have their types.
FairnessTypeOK ==
  /\ DOMAIN tenant_allocations \subseteq Customers
  /\ \A t \in DOMAIN tenant_allocations :
       /\ DOMAIN tenant_allocations[t].shares \subseteq ResourceTypes
       /\ tenant_allocations[t].dominant_resource \subseteq DOMAIN tenant_allocations[t].shares
  /\ DOMAIN reputations \subseteq Customers
  /\ \A t \in DOMAIN reputations :
       reputations[t].historical_utilization \in Nat /\ reputations[t].allocated \in Nat

\* The dominant resource is the one of which a tenant has most, through every
\* order of calls, so the tenant chosen next has the least of its most; and the
\* gap reported is the spread of the dominant shares, once there is a tenant and
\* as long as nobody has more than everything.
DominantSharesAreTrue ==
  LET Most(t) == Max({0} \cup {Share(s) : s \in Range(tenant_allocations[t].shares)})
      most == {Most(t) : t \in DOMAIN tenant_allocations}
  IN  /\ \A t, u \in DOMAIN tenant_allocations :
           select_next_tenant(<<t, u>>) = {t} => Most(t) <= Most(u)
      /\ most # {} /\ Max(most \cup {0}) <= Full => fairness_gap = Max(most) - Min(most)

UsedAtLeast(t, u) ==
  Len(uses[t]) = Len(uses[u]) /\ \A i \in DOMAIN uses[t] : uses[t][i].used >= uses[u][i].used

\* Reputation rewards use: of two tenants granted the same, one that used at least
\* as much of every grant is never behind the other and is not passed over for
\* it.  No reputation leaves the range from one half to one.
UseIsRewarded ==
  /\ \A t \in DOMAIN reputations : reputations[t].reputation \in (Scale \div 2)..Scale
  /\ \A t, u \in DOMAIN reputations :
       UsedAtLeast(t, u) => /\ reputations[t].reputation >= reputations[u].reputation
                            /\ select_best_tenant(<<u, t>>) = {t}

\* Tenants are weighed by what they have and by how they use it.
FairnessIsKept == DominantSharesAreTrue /\ UseIsRewarded

=============================================================================
