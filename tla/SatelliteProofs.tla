--------------------------- MODULE SatelliteProofs ---------------------------
(***************************************************************************)
(* The satellites' resources, for every number of allocations, tenants,    *)
(* terminals, windows and satellites: the allocator and the scheduler that *)
(* uses it; and the constellation they fly in, for every number of samples.*)
(*                                                                         *)
(* TerminalsAreExclusive is not inductive alone: check_conflicts() sees    *)
(* only what the terminal index lists, so its refusals protect the         *)
(* terminal only as long as the index is complete.  IInv adds IndexesAgree,*)
(* and that there are finitely many allocations, for what counts them.     *)
(***************************************************************************)
EXTENDS SatelliteScheduler, Constellations, ProofLemmas

\* The inductive invariant.
IInv == TypeOK /\ IndexesAgree /\ TerminalsAreExclusive /\ IsFiniteSet(Live)

\* An allocation has the fields the allocator reads, of their types.
LEMMA AllocationFields ==
  ASSUME NEW a \in Allocations
  PROVE  /\ a.terminal \in Terminals \cup {None}
         /\ a.tenant \in Tenants
         /\ a.window \in Windows
         /\ a # Absent
BY AbsentAssumption DEF Allocations

\* The overlap of two windows does not depend on which comes first.
LEMMA OverlapsIsSymmetric ==
  ASSUME NEW v \in Windows, NEW w \in Windows
  PROVE  Overlaps(v, w) <=> Overlaps(w, v)
BY AllocatorAssumption DEF Overlaps

\* Init establishes the invariant.
LEMMA InitIInv == Init => IInv
<1> SUFFICES ASSUME Init PROVE IInv
  OBVIOUS
<1>1. Live = {}
  BY DEF Init, Live
<1>2. IsFiniteSet(Live)
  BY <1>1, FS_EmptySet, Zenon
<1> QED BY <1>2 DEF Init, IInv, TypeOK, IndexesAgree, TerminalsAreExclusive, Live

\* allocate() preserves it: the new allocation enters the indexes of its own
\* terminal and tenant, and the index shows it every allocation it could meet.
LEMMA AllocatePreserves ==
  ASSUME IInv, NEW id \in Ids, NEW a \in Allocations, Allocate(id, a)
  PROVE  IInv'
<1> USE DEF IInv
<1>1. /\ a.terminal \in Terminals \cup {None}
      /\ a.tenant \in Tenants
      /\ a.window \in Windows
      /\ a # Absent
  BY AllocationFields
<1>2. allocations' = [allocations EXCEPT ![id] = a] /\ id \notin Live
  BY DEF Allocate
<1>3. TypeOK'
  BY <1>1 DEF TypeOK, Allocate
<1>4. Live' = Live \cup {id}
  BY <1>1, <1>2 DEF Live, TypeOK
<1>5. IndexesAgree'
  <2>1. ASSUME NEW t \in Terminals
        PROVE  terminal_index'[t] = {i \in Live' : allocations'[i].terminal = t}
    <3>1. terminal_index[t] = {i \in Live : allocations[i].terminal = t}
      BY DEF IndexesAgree
    <3>2. terminal_index'[t] = terminal_index[t] \cup (IF t = a.terminal THEN {id} ELSE {})
      BY DEF Allocate
    <3>3. \A i \in Live : allocations'[i] = allocations[i]
      BY <1>2 DEF TypeOK, Live
    <3>4. allocations'[id] = a
      BY <1>2 DEF TypeOK
    <3> QED BY <1>2, <1>4, <3>1, <3>2, <3>3, <3>4
  <2>2. ASSUME NEW n \in Tenants
        PROVE  tenant_index'[n] = {i \in Live' : allocations'[i].tenant = n}
    <3>1. tenant_index[n] = {i \in Live : allocations[i].tenant = n}
      BY DEF IndexesAgree
    <3>2. tenant_index'[n] = tenant_index[n] \cup (IF n = a.tenant THEN {id} ELSE {})
      BY <1>1 DEF Allocate, TypeOK
    <3>3. \A i \in Live : allocations'[i] = allocations[i]
      BY <1>2 DEF TypeOK, Live
    <3>4. allocations'[id] = a
      BY <1>2 DEF TypeOK
    <3> QED BY <1>2, <1>4, <3>1, <3>2, <3>3, <3>4
  <2> QED BY <2>1, <2>2 DEF IndexesAgree
<1>6. TerminalsAreExclusive'
  <2> SUFFICES ASSUME NEW i \in Live', NEW j \in Live', i # j,
                      allocations'[i].terminal # None,
                      allocations'[i].terminal = allocations'[j].terminal
               PROVE  ~ Overlaps(allocations'[i].window, allocations'[j].window)
    BY DEF TerminalsAreExclusive, Overlaps
  <2>1. ASSUME NEW k \in Live, a.terminal # None, allocations[k].terminal = a.terminal
        PROVE  ~ Overlaps(allocations[k].window, a.window)
    BY <1>1, <2>1 DEF IndexesAgree, Allocate, Admissible, NoConflict
  <2>2. \A k \in Live : allocations'[k] = allocations[k] /\ allocations[k].window \in Windows
    BY <1>2, AllocationFields DEF TypeOK, Live
  <2>3. allocations'[id] = a
    BY <1>2 DEF TypeOK
  <2>4. CASE i = id
    <3>1. j \in Live /\ allocations'[j] = allocations[j]
      BY <1>4, <2>2, <2>4
    <3>2. ~ Overlaps(allocations[j].window, a.window)
      BY <2>1, <2>3, <2>4, <3>1
    <3> QED BY <1>1, <2>2, <2>3, <2>4, <3>1, <3>2, OverlapsIsSymmetric
  <2>5. CASE j = id
    <3>1. i \in Live /\ allocations'[i] = allocations[i]
      BY <1>4, <2>2, <2>5
    <3> QED BY <2>1, <2>3, <2>5, <3>1
  <2>6. CASE i # id /\ j # id
    <3>1. i \in Live /\ j \in Live
      BY <1>4, <2>6
    <3> QED BY <2>2, <3>1 DEF TerminalsAreExclusive
  <2> QED BY <2>4, <2>5, <2>6
<1>7. IsFiniteSet(Live')
  <2>1. IsFiniteSet(Live \cup {id})
    BY FS_AddElement
  <2> QED BY <1>4, <2>1, Zenon
<1> QED BY <1>3, <1>5, <1>6, <1>7

\* release(), by its caller or through preempt(), preserves it: the allocation
\* leaves the two index entries that name it.
LEMMA ReleasePreserves ==
  ASSUME IInv, NEW id \in Live, ReleaseLive(id)
  PROVE  IInv'
<1> USE DEF IInv
<1> DEFINE a == allocations[id]
<1>0. id \in Ids /\ a \in Allocations
  BY DEF Live, TypeOK
<1>1. a.terminal \in Terminals \cup {None} /\ a.tenant \in Tenants
  BY <1>0, AllocationFields
<1>2. allocations' = [allocations EXCEPT ![id] = Absent]
  BY DEF ReleaseLive
<1>3. TypeOK'
  BY <1>0, <1>1 DEF TypeOK, ReleaseLive
<1>4. Live' = Live \ {id}
  BY <1>0, <1>2 DEF Live, TypeOK
<1>5. \A i \in Live' : allocations'[i] = allocations[i]
  BY <1>2, <1>4 DEF TypeOK, Live
<1>6. IndexesAgree'
  <2>1. ASSUME NEW t \in Terminals
        PROVE  terminal_index'[t] = {i \in Live' : allocations'[i].terminal = t}
    <3>1. terminal_index[t] = {i \in Live : allocations[i].terminal = t}
      BY DEF IndexesAgree
    <3>2. terminal_index'[t] = terminal_index[t] \ (IF t = a.terminal THEN {id} ELSE {})
      BY DEF ReleaseLive
    <3> QED BY <1>4, <1>5, <3>1, <3>2
  <2>2. ASSUME NEW n \in Tenants
        PROVE  tenant_index'[n] = {i \in Live' : allocations'[i].tenant = n}
    <3>1. tenant_index[n] = {i \in Live : allocations[i].tenant = n}
      BY DEF IndexesAgree
    <3>2. tenant_index'[n] = tenant_index[n] \ (IF n = a.tenant THEN {id} ELSE {})
      BY <1>1 DEF ReleaseLive, TypeOK
    <3> QED BY <1>4, <1>5, <3>1, <3>2
  <2> QED BY <2>1, <2>2 DEF IndexesAgree
<1>7. TerminalsAreExclusive'
  BY <1>4, <1>5 DEF TerminalsAreExclusive, Overlaps
<1>8. IsFiniteSet(Live')
  <2>1. IsFiniteSet(Live \ {id})
    BY FS_RemoveElement
  <2> QED BY <1>4, <2>1, Zenon
<1> QED BY <1>3, <1>6, <1>7, <1>8

\* set_tenant_quota() touches neither allocations nor indexes.
LEMMA QuotaPreserves ==
  ASSUME IInv, NEW n \in Tenants, NEW q \in Quotas, SetTenantQuota(n, q)
  PROVE  IInv'
<1>1. Live' = Live /\ UNCHANGED <<allocations, terminal_index, tenant_index>>
  BY DEF SetTenantQuota, Live
<1> QED BY <1>1 DEF IInv, SetTenantQuota, TypeOK, IndexesAgree, TerminalsAreExclusive, Overlaps

\* Every step preserves the invariant.
LEMMA NextIInv == IInv /\ [Next]_vars => IInv'
<1> SUFFICES ASSUME IInv, [Next]_vars PROVE IInv'
  OBVIOUS
<1>1. ASSUME NEW n \in Tenants, NEW q \in Quotas, SetTenantQuota(n, q) PROVE IInv'
  BY <1>1, QuotaPreserves
<1>2. ASSUME NEW id \in Ids, NEW a \in Allocations, Allocate(id, a) PROVE IInv'
  BY <1>2, AllocatePreserves
<1>3. ASSUME NEW id \in Ids, Release(id) PROVE IInv'
  BY <1>3, ReleasePreserves DEF Release
<1>4. ASSUME NEW id \in Ids, Preempt(id) PROVE IInv'
  BY <1>4, ReleasePreserves DEF Preempt
<1>5. CASE UNCHANGED vars
  <2>1. Live' = Live
    BY <1>5 DEF vars, Live
  <2> QED BY <1>5, <2>1 DEF IInv, vars, TypeOK, IndexesAgree, TerminalsAreExclusive, Overlaps
<1> QED BY <1>1, <1>2, <1>3, <1>4, <1>5 DEF Next

\* The allocator's fields always have their types.
THEOREM TypeCorrect == Spec => []TypeOK
BY InitIInv, NextIInv, PTL DEF Spec, IInv

\* After any sequence of allocate(), release() and preempt() the two indexes
\* name exactly the allocations of each terminal and tenant.
THEOREM IndexesAlwaysAgree == Spec => []IndexesAgree
BY InitIInv, NextIInv, PTL DEF Spec, IInv

\* A terminal never serves two overlapping allocations.
THEOREM TerminalsStayExclusive == Spec => []TerminalsAreExclusive
BY InitIInv, NextIInv, PTL DEF Spec, IInv

-----------------------------------------------------------------------------
(* Sums of watts.                                                            *)

LEMMA WattsAreUnits ==
  ASSUME NEW S, IsFiniteSet(S), NEW power \in [S -> Nat]
  PROVE  /\ IsFiniteSet(Units(power))
         /\ Watts(power) = Cardinality(Units(power))
         /\ Watts(power) \in Nat
<1>1. Watts(power) = Cardinality(Units(power))
  BY Zenon DEF Watts, Units
<1> QED BY <1>1, UnitsAreFinite

\* Watts are counted by parts.
LEMMA WattsOfParts ==
  ASSUME NEW A, IsFiniteSet(A), NEW B, IsFiniteSet(B), A \cap B = {},
         NEW power \in [A \cup B -> Nat]
  PROVE  Watts(power) = Watts([x \in A |-> power[x]]) + Watts([x \in B |-> power[x]])
<1> DEFINE f == [x \in A |-> power[x]]
           g == [x \in B |-> power[x]]
<1>1. f \in [A -> Nat] /\ g \in [B -> Nat]
  OBVIOUS
<1>2. IsFiniteSet(A \cup B)
  BY FS_Union
<1>3. Units(power) = Units(f) \cup Units(g)
  BY DEF Units
<1>4. Units(f) \cap Units(g) = {}
  BY DEF Units
<1> HIDE DEF f, g
<1>5. /\ IsFiniteSet(Units(f)) /\ Watts(f) = Cardinality(Units(f)) /\ Watts(f) \in Nat
      /\ IsFiniteSet(Units(g)) /\ Watts(g) = Cardinality(Units(g)) /\ Watts(g) \in Nat
  BY <1>1, WattsAreUnits
<1>6. Watts(power) = Cardinality(Units(power))
  BY <1>2, WattsAreUnits
<1>7. Cardinality(Units(f) \cup Units(g))
      = Cardinality(Units(f)) + Cardinality(Units(g)) - Cardinality(Units(f) \cap Units(g))
  BY <1>5, FS_Union
<1>8. Cardinality(Units(f) \cap Units(g)) = 0
  BY <1>4, FS_EmptySet, Zenon
<1>9. Cardinality(Units(power)) = Cardinality(Units(f) \cup Units(g))
  BY <1>3, Zenon
<1>10. Watts(power) = Watts(f) + Watts(g)
  BY <1>5, <1>6, <1>7, <1>8, <1>9
<1> QED BY <1>10 DEF f, g

LEMMA WattsOfOne ==
  ASSUME NEW x, NEW p \in Nat
  PROVE  Watts([y \in {x} |-> p]) = p
<1>1. Units([y \in {x} |-> p]) = {x} \X (1..p)
  BY DEF Units
<1>2. /\ IsFiniteSet({x}) /\ Cardinality({x}) = 1
      /\ IsFiniteSet(1..p) /\ Cardinality(1..p) = p
  <2>1. IsFiniteSet({x}) /\ Cardinality({x}) = 1
    BY FS_Singleton, Zenon
  <2>2. IsFiniteSet(1..p) /\ Cardinality(1..p) = IF 1 > p THEN 0 ELSE p - 1 + 1
    BY FS_Interval
  <2> QED BY <2>1, <2>2
<1>3. Cardinality({x} \X (1..p)) = Cardinality({x}) * Cardinality(1..p)
  BY <1>2, FS_Product
<1>4. Cardinality({x} \X (1..p)) = p
  BY <1>2, <1>3
<1>5. Watts([y \in {x} |-> p]) = Cardinality(Units([y \in {x} |-> p]))
  BY Zenon DEF Watts, Units
<1> QED BY <1>1, <1>4, <1>5, Zenon

-----------------------------------------------------------------------------
(* Quotas.                                                                   *)

\* What allocate() adds to the usage of a tenant.
LEMMA UsageAfterAllocate ==
  ASSUME IInv, NEW id \in Ids, NEW a \in Allocations, Allocate(id, a), NEW n \in Tenants
  PROVE  IF n = a.tenant THEN TenantUsage(n)' = TenantUsage(n) + a.power
                         ELSE TenantUsage(n)' = TenantUsage(n)
<1> DEFINE S == tenant_index[n] \cap Live
<1>1. /\ a # Absent /\ a.tenant \in Tenants /\ a.power \in Nat
      /\ \A i \in Live : allocations[i].power \in Nat
  BY AllocatorAssumption, AbsentAssumption DEF Allocations, IInv, TypeOK, Live
<1>2. /\ allocations' = [allocations EXCEPT ![id] = a] /\ id \notin Live
      /\ tenant_index' = [tenant_index EXCEPT ![a.tenant] = @ \cup {id}]
  BY DEF Allocate
<1>3. /\ Live' = Live \cup {id} /\ allocations'[id] = a
      /\ \A i \in Live : allocations'[i] = allocations[i]
  BY <1>1, <1>2 DEF Live, IInv, TypeOK
<1>4. IsFiniteSet(S)
  <2>1. S \in SUBSET Live
    OBVIOUS
  <2> HIDE DEF S
  <2> QED BY <2>1, FS_Subset DEF IInv
<1>5. CASE n = a.tenant
  <2> DEFINE power == [i \in S \cup {id} |-> IF i = id THEN a.power ELSE allocations[i].power]
  <2>1. tenant_index'[n] \cap Live' = S \cup {id}
    BY <1>1, <1>2, <1>3, <1>5 DEF IInv, TypeOK, IndexesAgree
  <2>2. [i \in tenant_index'[n] \cap Live' |-> allocations'[i].power] = power
    BY <1>2, <1>3, <2>1
  <2>3. TenantUsage(n)' = Watts(power)
    BY <2>2 DEF TenantUsage
  <2>4. power \in [S \cup {id} -> Nat] /\ S \cap {id} = {} /\ IsFiniteSet({id})
    <3>1. IsFiniteSet({id})
      BY FS_Singleton, Zenon
    <3> QED BY <1>1, <1>2, <3>1
  <2>5. Watts(power) = Watts([i \in S |-> power[i]]) + Watts([i \in {id} |-> power[i]])
    <3> HIDE DEF power, S
    <3> QED BY <1>4, <2>4, WattsOfParts
  <2>6. [i \in S |-> power[i]] = [i \in S |-> allocations[i].power]
    BY <1>2
  <2>7. [i \in {id} |-> power[i]] = [i \in {id} |-> a.power]
    OBVIOUS
  <2>8. Watts([i \in {id} |-> a.power]) = a.power
    BY <1>1, WattsOfOne
  <2>9. Watts([i \in S |-> power[i]]) = TenantUsage(n)
    BY <2>6 DEF TenantUsage
  <2>10. Watts([i \in {id} |-> power[i]]) = a.power
    BY <2>7, <2>8, Zenon
  <2> HIDE DEF power, S
  <2> QED BY <1>5, <2>3, <2>5, <2>9, <2>10
<1>6. CASE n # a.tenant
  <2>1. tenant_index'[n] \cap Live' = S
    BY <1>1, <1>2, <1>3, <1>6 DEF IInv, TypeOK, IndexesAgree
  <2>2. [i \in tenant_index'[n] \cap Live' |-> allocations'[i].power] = [i \in S |-> allocations[i].power]
    BY <1>3, <2>1
  <2> QED BY <1>6, <2>2 DEF TenantUsage
<1> QED BY <1>5, <1>6

\* release() and preempt() never add to the usage of a tenant.
LEMMA UsageAfterRelease ==
  ASSUME IInv, NEW id \in Live, ReleaseLive(id), NEW n \in Tenants
  PROVE  TenantUsage(n)' <= TenantUsage(n)
<1> DEFINE S == tenant_index[n] \cap Live
           R == S \ {id}
           G == S \cap {id}
           power == [i \in S |-> allocations[i].power]
<1>1. /\ id \in Ids
      /\ \A i \in Live : allocations[i].power \in Nat /\ allocations[i].tenant \in Tenants
  BY AllocatorAssumption DEF Allocations, IInv, TypeOK, Live
<1>2. /\ allocations' = [allocations EXCEPT ![id] = Absent]
      /\ tenant_index' = [tenant_index EXCEPT ![allocations[id].tenant] = @ \ {id}]
  BY DEF ReleaseLive
<1>3. Live' = Live \ {id} /\ \A i \in Live' : allocations'[i] = allocations[i]
  BY <1>1, <1>2 DEF Live, IInv, TypeOK
<1>4. tenant_index'[n] \cap Live' = R
  BY <1>1, <1>2, <1>3 DEF IInv, TypeOK
<1>5. [i \in tenant_index'[n] \cap Live' |-> allocations'[i].power] = [i \in R |-> power[i]]
  BY <1>3, <1>4
<1>6. TenantUsage(n)' = Watts([i \in R |-> power[i]])
  BY <1>5 DEF TenantUsage
<1>7. TenantUsage(n) = Watts(power)
  BY DEF TenantUsage
<1>8. /\ R \in SUBSET Live /\ G \in SUBSET Live
      /\ [i \in R |-> power[i]] \in [R -> Nat] /\ [i \in G |-> power[i]] \in [G -> Nat]
  BY <1>1
<1>8a. R \cap G = {}
  OBVIOUS
<1>8b. S = R \cup G
  OBVIOUS
<1>8c. power \in [S -> Nat]
  BY <1>1
<1> HIDE DEF S, R, G, power
<1>9. IsFiniteSet(R) /\ IsFiniteSet(G)
  BY <1>8, FS_Subset DEF IInv
<1>10. Watts(power) = Watts([i \in R |-> power[i]]) + Watts([i \in G |-> power[i]])
  <2>1. power \in [R \cup G -> Nat]
    BY <1>8b, <1>8c
  <2> QED BY <1>8a, <1>9, <2>1, WattsOfParts
<1>11. Watts([i \in R |-> power[i]]) \in Nat /\ Watts([i \in G |-> power[i]]) \in Nat
  BY <1>8, <1>9, WattsAreUnits
<1> QED BY <1>6, <1>7, <1>10, <1>11

LEMMA UsageIsANumber == IInv => \A n \in Tenants : TenantUsage(n) \in Nat
<1> SUFFICES ASSUME IInv, NEW n \in Tenants PROVE TenantUsage(n) \in Nat
  OBVIOUS
<1> DEFINE S == tenant_index[n] \cap Live
           power == [i \in S |-> allocations[i].power]
<1>1. power \in [S -> Nat] /\ S \in SUBSET Live
  BY AllocatorAssumption DEF Allocations, IInv, TypeOK, Live
<1>2. TenantUsage(n) = Watts(power)
  BY DEF TenantUsage
<1> HIDE DEF S, power
<1> QED BY <1>1, <1>2, FS_Subset, WattsAreUnits DEF IInv

LEMMA UsageStaysANumber == IInv' => (\A n \in Tenants : TenantUsage(n) \in Nat)'
BY UsageIsANumber, PTL

\* What a step may do to the usage of the tenants.
LEMMA StepKeepsQuota ==
  ASSUME IInv, IInv', [Next]_vars, NEW n \in Tenants,
         TenantUsage(n)' > TenantUsage(n), tenant_quotas[n] # Unlimited
  PROVE  TenantUsage(n)' <= tenant_quotas[n]
<1>0. TenantUsage(n) \in Nat /\ TenantUsage(n)' \in Nat
  BY UsageIsANumber, UsageStaysANumber
<1>1. ASSUME TenantUsage(n)' <= TenantUsage(n) PROVE FALSE
  BY <1>0, <1>1
<1>2. ASSUME NEW t \in Tenants, NEW q \in Quotas, SetTenantQuota(t, q) PROVE FALSE
  <2>1. TenantUsage(n)' = TenantUsage(n)
    BY <1>2 DEF SetTenantQuota, TenantUsage, Live
  <2> QED BY <1>0, <1>1, <2>1
<1>3. ASSUME NEW id \in Ids, NEW a \in Allocations, Allocate(id, a)
      PROVE  TenantUsage(n)' <= tenant_quotas[n]
  <2>1. IF n = a.tenant THEN TenantUsage(n)' = TenantUsage(n) + a.power
                        ELSE TenantUsage(n)' = TenantUsage(n)
    BY <1>3, UsageAfterAllocate
  <2>2. n = a.tenant /\ TenantUsage(n)' = TenantUsage(n) + a.power
    BY <1>0, <1>1, <2>1
  <2>3. TenantUsage(n) + a.power <= tenant_quotas[n]
    BY <1>3, <2>2 DEF Allocate, Admissible, WithinQuota
  <2> QED BY <2>2, <2>3
<1>4. ASSUME NEW id \in Ids, Release(id) \/ Preempt(id) PROVE FALSE
  <2>1. id \in Live /\ ReleaseLive(id)
    BY <1>4 DEF Release, Preempt
  <2> QED BY <1>1, <2>1, UsageAfterRelease
<1>5. CASE UNCHANGED vars
  <2>1. TenantUsage(n)' = TenantUsage(n)
    BY <1>5 DEF vars, TenantUsage, Live
  <2> QED BY <1>0, <1>1, <2>1
<1> QED BY <1>2, <1>3, <1>4, <1>5 DEF Next

\* No step takes a tenant's usage above its quota, even after the quota was lowered
\* under allocations already made: check_quota() reads a usage that is exact.
THEOREM QuotasAreNeverExceeded == Spec => NoStepExceedsQuota
<1>1. IInv /\ IInv' /\ [Next]_vars
      => [\A n \in Tenants : TenantUsage(n)' > TenantUsage(n) /\ tenant_quotas[n] # Unlimited
                             => TenantUsage(n)' <= tenant_quotas[n]]_vars
  BY StepKeepsQuota
<1> QED BY <1>1, InitIInv, NextIInv, PTL DEF Spec, NoStepExceedsQuota

-----------------------------------------------------------------------------
(* The scheduler and its nodes.                                              *)

\* What a node keeps of an allocation.
NodeEntry == [id : Ids, claim : Claims, window : Windows]

NodePower(current) == [e \in current |-> e.claim.power]

\* What holds of a node: its counters are those of its allocations.
NodeIsSound(n) ==
  /\ n.available \in Int /\ n.allocated \in Int
  /\ n.current \subseteq NodeEntry /\ IsFiniteSet(n.current)
  /\ n.available >= 0
  /\ n.available + n.allocated = TotalWatts
  /\ n.allocated = Watts(NodePower(n.current))

\* The inductive invariant of the scheduler: what it hands to the allocator when it
\* rebalances comes from the lists of the nodes.
SchedulerIInv ==
  /\ clock \in 0..MaxTime
  /\ DOMAIN nodes = Satellites
  /\ \A s \in Added : NodeIsSound(nodes[s])
  /\ \A item \in worklist : item.entry \in NodeEntry
  /\ moving # None => moving.entry \in NodeEntry

LEMMA EntryPower ==
  ASSUME NEW current \in SUBSET NodeEntry, IsFiniteSet(current)
  PROVE  /\ NodePower(current) \in [current -> Nat]
         /\ Watts(NodePower(current)) \in Nat
<1>1. \A e \in current : e.claim.power \in Nat
  BY AllocatorAssumption, SatelliteAssumption DEF NodeEntry
<1>2. NodePower(current) \in [current -> Nat]
  BY <1>1 DEF NodePower
<1> QED BY <1>2, WattsAreUnits

\* SatelliteNode::new(), of which the scheduler takes any number.
LEMMA NewNodeIsSound == NodeIsSound(NewNode)
<1>1. Units(NodePower({})) = {}
  BY DEF Units, NodePower
<1>2. Watts(NodePower({})) = Cardinality(Units(NodePower({})))
  BY Zenon DEF Watts, Units
<1>3. Watts(NodePower({})) = 0
  BY <1>1, <1>2, FS_EmptySet, Zenon
<1>4. IsFiniteSet({})
  BY FS_EmptySet
<1> QED BY <1>3, <1>4, SatelliteAssumption DEF NodeIsSound, NewNode

\* allocate() of a node that can satisfy the claim, under a new identifier.
LEMMA NodeAllocateIsSound ==
  ASSUME NEW n, NodeIsSound(n), NEW e \in NodeEntry, e \notin n.current,
         e.claim.power <= n.available
  PROVE  NodeIsSound(NodeAllocate(n, e))
<1> DEFINE A == n.current
           power == NodePower(A \cup {e})
           p == e.claim.power
<1>1. A \in SUBSET NodeEntry /\ IsFiniteSet(A) /\ p \in Nat
  BY AllocatorAssumption, SatelliteAssumption DEF NodeIsSound, NodeEntry
<1>2. IsFiniteSet(A \cup {e}) /\ A \cup {e} \in SUBSET NodeEntry
  BY <1>1, FS_AddElement
<1>3. power \in [A \cup {e} -> Nat]
  BY <1>2, EntryPower
<1>4. IsFiniteSet({e}) /\ A \cap {e} = {}
  BY FS_Singleton
<1>5. [x \in A |-> power[x]] = NodePower(A) /\ [x \in {e} |-> power[x]] = [x \in {e} |-> p]
  BY DEF NodePower
<1>6. Watts([x \in {e} |-> p]) = p
  BY <1>1, WattsOfOne
<1> HIDE DEF power, p, A
<1>7. Watts(power) = Watts([x \in A |-> power[x]]) + Watts([x \in {e} |-> power[x]])
  BY <1>1, <1>3, <1>4, WattsOfParts
<1>8. Watts(power) = Watts(NodePower(A)) + p
  BY <1>5, <1>6, <1>7
<1>9. /\ NodeAllocate(n, e).available = n.available - p
      /\ NodeAllocate(n, e).allocated = n.allocated + p
      /\ NodeAllocate(n, e).current = A \cup {e}
  BY DEF NodeAllocate, p, A
<1>10. /\ n.available \in Int /\ n.allocated \in Int /\ p <= n.available
       /\ n.available + n.allocated = TotalWatts
       /\ n.allocated = Watts(NodePower(A))
  BY DEF NodeIsSound, p, A
<1>11. TotalWatts \in Nat
  BY SatelliteAssumption
<1>12. Watts(NodePower(A \cup {e})) = n.allocated + p
  BY <1>8, <1>10 DEF power
<1>13. /\ NodeAllocate(n, e).available \in Int /\ NodeAllocate(n, e).allocated \in Int
       /\ NodeAllocate(n, e).available >= 0
       /\ NodeAllocate(n, e).available + NodeAllocate(n, e).allocated = TotalWatts
  BY <1>1, <1>9, <1>10, <1>11
<1> QED BY <1>2, <1>9, <1>12, <1>13 DEF NodeIsSound

\* release() of a node, of an identifier it knows or does not know.
LEMMA NodeReleaseIsSound ==
  ASSUME NEW n, NodeIsSound(n), NEW id
  PROVE  NodeIsSound(NodeRelease(n, id))
<1> DEFINE gone == {e \in n.current : e.id = id}
           rest == n.current \ gone
           power == NodePower(n.current)
           freed == Watts([e \in gone |-> e.claim.power])
<1>1. n.current \in SUBSET NodeEntry /\ IsFiniteSet(n.current)
  BY DEF NodeIsSound
<1>2. /\ gone \in SUBSET n.current /\ rest \in SUBSET n.current /\ rest \cap gone = {}
      /\ gone \in SUBSET NodeEntry /\ rest \in SUBSET NodeEntry
  BY <1>1
<1>3. n.current = rest \cup gone
  OBVIOUS
<1>4. power \in [n.current -> Nat]
  BY <1>1, EntryPower
<1>5. [x \in rest |-> power[x]] = NodePower(rest) /\ [x \in gone |-> power[x]] = NodePower(gone)
  BY DEF NodePower
<1>6. NodePower(gone) = [e \in gone |-> e.claim.power]
  BY DEF NodePower
<1>7. /\ NodeRelease(n, id).available = n.available + freed
      /\ NodeRelease(n, id).allocated = n.allocated - freed
      /\ NodeRelease(n, id).current = rest
  BY DEF NodeRelease
<1>8. freed = Watts(NodePower(gone))
  BY <1>6
<1> HIDE DEF gone, rest, power, freed
<1>9. IsFiniteSet(rest) /\ IsFiniteSet(gone)
  BY <1>1, <1>2, FS_Subset
<1>10. power \in [rest \cup gone -> Nat]
  BY <1>3, <1>4
<1>11. Watts(power) = Watts([x \in rest |-> power[x]]) + Watts([x \in gone |-> power[x]])
  BY <1>2, <1>9, <1>10, WattsOfParts
<1>12. Watts(power) = Watts(NodePower(rest)) + freed
  BY <1>5, <1>8, <1>11
<1>13. freed \in Nat /\ Watts(NodePower(rest)) \in Nat
  BY <1>2, <1>8, <1>9, EntryPower
<1>14. /\ n.available \in Int /\ n.allocated \in Int /\ n.available >= 0
       /\ n.available + n.allocated = TotalWatts /\ n.allocated = Watts(power)
  BY DEF NodeIsSound, power
<1>15. TotalWatts \in Nat
  BY SatelliteAssumption
<1>16. /\ NodeRelease(n, id).available \in Int /\ NodeRelease(n, id).allocated \in Int
       /\ NodeRelease(n, id).available >= 0
       /\ NodeRelease(n, id).available + NodeRelease(n, id).allocated = TotalWatts
       /\ NodeRelease(n, id).allocated = Watts(NodePower(rest))
  BY <1>7, <1>12, <1>13, <1>14, <1>15
<1> QED BY <1>2, <1>7, <1>9, <1>16 DEF NodeIsSound

LEMMA InitScheduler == SatelliteInit => SchedulerIInv
BY SatelliteAssumption DEF SatelliteInit, SchedulerIInv, Added

\* What the scheduler makes of a claim is an allocation of the allocator.
LEMMA ScheduledAllocation ==
  ASSUME NEW claim \in Claims, NEW window \in Windows
  PROVE  AllocationFor(claim, window) \in Allocations
BY SatelliteAssumption DEF AllocationFor, Allocations

LEMMA ScheduledWindows ==
  ASSUME clock \in 0..MaxTime, NEW claim \in Claims
  PROVE  /\ [start |-> clock, end |-> clock + claim.duration] \in Windows
         /\ [start |-> clock, end |-> clock + Hour] \in Windows
<1>1. /\ claim.duration \in {c.duration : c \in Claims} \cup {Hour}
      /\ Hour \in {c.duration : c \in Claims} \cup {Hour}
  OBVIOUS
<1> QED BY <1>1, SatelliteAssumption

LEMMA NextScheduler == SchedulerIInv /\ [SatelliteNext]_<<vars, nodeVars>> => SchedulerIInv'
<1> SUFFICES ASSUME SchedulerIInv, [SatelliteNext]_<<vars, nodeVars>> PROVE SchedulerIInv'
  OBVIOUS
<1>1. ASSUME UNCHANGED nodes,
             clock' \in 0..MaxTime,
             \A item \in worklist' : item.entry \in NodeEntry,
             moving' # None => moving'.entry \in NodeEntry
      PROVE  SchedulerIInv'
  BY <1>1 DEF SchedulerIInv, Added
<1>2. CASE Tick
  <2>1. clock' \in 0..MaxTime
    BY <1>2, SatelliteAssumption DEF Tick, SchedulerIInv
  <2> QED BY <1>1, <1>2, <2>1 DEF Tick, SchedulerIInv, rebalanceVars
<1>3. ASSUME NEW s \in Satellites, AddSatellite(s) PROVE SchedulerIInv'
  <2>1. nodes' = [nodes EXCEPT ![s] = NewNode] /\ UNCHANGED <<clock, worklist, moving>>
    BY <1>3 DEF AddSatellite, rebalanceVars
  <2>2. \A r \in Added' : NodeIsSound(nodes'[r])
    BY <2>1, NewNodeIsSound DEF SchedulerIInv, Added
  <2> QED BY <2>1, <2>2 DEF SchedulerIInv
<1>4. ASSUME NEW claim \in Claims, ScheduleClaim(claim) PROVE SchedulerIInv'
  <2>1. PICK s \in Best(claim), nodeId \in Fresh :
          nodes' = [nodes EXCEPT ![s] = NodeAllocate(nodes[s],
            [id |-> nodeId, claim |-> claim, window |-> [start |-> clock, end |-> clock + Hour]])]
    BY <1>4 DEF ScheduleClaim
  <2> DEFINE e == [id |-> nodeId, claim |-> claim,
                   window |-> [start |-> clock, end |-> clock + Hour]]
  <2>2. s \in Added /\ claim.power <= nodes[s].available
    BY <2>1 DEF Best, CanSatisfy
  <2>3. e \in NodeEntry /\ e.claim.power <= nodes[s].available
    <3>1. nodeId \in Ids
      BY DEF Fresh
    <3>2. [start |-> clock, end |-> clock + Hour] \in Windows
      BY ScheduledWindows DEF SchedulerIInv
    <3> QED BY <2>2, <3>1, <3>2 DEF NodeEntry
  <2>4. e \notin nodes[s].current
    <3>1. ASSUME e \in nodes[s].current PROVE FALSE
      <4>1. e.id \in NodeIds
        BY <2>2, <3>1 DEF NodeIds
      <4> QED BY <4>1 DEF Fresh
    <3> QED BY <3>1
  <2>5. NodeIsSound(nodes[s])
    BY <2>2 DEF SchedulerIInv
  <2>6. nodes' = [nodes EXCEPT ![s] = NodeAllocate(nodes[s], e)]
    BY <2>1
  <2> HIDE DEF e
  <2>7. NodeIsSound(NodeAllocate(nodes[s], e))
    BY <2>3, <2>4, <2>5, NodeAllocateIsSound
  <2>8. \A r \in Added' : NodeIsSound(nodes'[r])
    BY <2>6, <2>7 DEF SchedulerIInv, Added
  <2> QED BY <1>4, <2>6, <2>8 DEF ScheduleClaim, rebalanceVars, SchedulerIInv
<1>5. ASSUME NEW id \in Ids, SchedulePreempt(id) PROVE SchedulerIInv'
  <2>1. /\ nodes' = [s \in Satellites |-> IF s \in Added THEN NodeRelease(nodes[s], id) ELSE Absent]
        /\ UNCHANGED <<clock, worklist, moving>>
    BY <1>5 DEF SchedulePreempt, rebalanceVars
  <2>2. ASSUME NEW s \in Added' PROVE NodeIsSound(nodes'[s])
    <3>1. s \in Satellites /\ nodes'[s] # Absent
      BY DEF Added
    <3>2. s \in Added /\ nodes'[s] = NodeRelease(nodes[s], id)
      BY <2>1, <3>1
    <3>3. NodeIsSound(nodes[s])
      BY <3>2 DEF SchedulerIInv
    <3> QED BY <3>2, <3>3, NodeReleaseIsSound
  <2> QED BY <2>1, <2>2 DEF SchedulerIInv
<1>6. CASE RebalanceBegin
  <2>1. \A s \in Added : nodes[s].current \subseteq NodeEntry
    BY DEF SchedulerIInv, NodeIsSound
  <2>2. \A item \in worklist' : item.entry \in NodeEntry
    BY <1>6, <2>1 DEF RebalanceBegin
  <2> QED BY <1>1, <1>6, <2>2 DEF RebalanceBegin, SchedulerIInv
<1>7. ASSUME NEW item \in worklist, RebalanceStays(item) PROVE SchedulerIInv'
  BY <1>1, <1>7 DEF RebalanceStays, SchedulerIInv
<1>8. ASSUME NEW item \in worklist, RebalanceRelease(item) PROVE SchedulerIInv'
  BY <1>1, <1>8 DEF RebalanceRelease, SchedulerIInv
<1>9. CASE RebalanceAllocate \/ RebalanceRefused
  BY <1>1, <1>9 DEF RebalanceAllocate, RebalanceRefused, SchedulerIInv
<1>10. CASE UNCHANGED <<vars, nodeVars>>
  BY <1>1, <1>10 DEF nodeVars, rebalanceVars, SchedulerIInv
<1> QED BY <1>2, <1>3, <1>4, <1>5, <1>6, <1>7, <1>8, <1>9, <1>10 DEF SatelliteNext

\* No node ever promises more power than it has, and what it counts as allocated is
\* what its allocations add up to, under any sequence of claims, preemptions with
\* the allocator's identifiers, and rebalancing.
THEOREM PowerStaysConserved == SatelliteSpec => []PowerConserved
<1>1. SchedulerIInv => PowerConserved
  BY DEF SchedulerIInv, PowerConserved, NodeIsSound, NodePower
<1> QED BY <1>1, InitScheduler, NextScheduler, PTL DEF SatelliteSpec

\* What a step of the scheduler does to the allocator is a step of the allocator.
LEMMA SchedulerStep ==
  ASSUME SchedulerIInv, SatelliteNext, vars' # vars
  PROVE  Next
<1>1. ASSUME UNCHANGED vars PROVE Next
  BY <1>1 DEF vars
<1>2. CASE Tick \/ RebalanceBegin \/ RebalanceRefused
  BY <1>1, <1>2 DEF Tick, RebalanceBegin, RebalanceRefused
<1>3. ASSUME NEW s \in Satellites, AddSatellite(s) PROVE Next
  BY <1>1, <1>3 DEF AddSatellite
<1>4. ASSUME NEW claim \in Claims, ScheduleClaim(claim) PROVE Next
  <2>1. PICK id \in Fresh : Allocate(id, AllocationFor(claim,
            [start |-> clock, end |-> clock + claim.duration]))
    BY <1>4 DEF ScheduleClaim
  <2>2. id \in Ids
    BY DEF Fresh
  <2>3. [start |-> clock, end |-> clock + claim.duration] \in Windows
    BY ScheduledWindows DEF SchedulerIInv
  <2>4. AllocationFor(claim, [start |-> clock, end |-> clock + claim.duration]) \in Allocations
    BY <2>3, ScheduledAllocation
  <2> QED BY <2>1, <2>2, <2>4 DEF Next
<1>5. ASSUME NEW id \in Ids, SchedulePreempt(id) PROVE Next
  BY <1>5 DEF SchedulePreempt, Next
<1>6. ASSUME NEW item \in worklist, RebalanceStays(item) PROVE Next
  BY <1>1, <1>6 DEF RebalanceStays
<1>7. ASSUME NEW item \in worklist, RebalanceRelease(item) PROVE Next
  <2>1. item.entry.id \in Ids
    BY DEF SchedulerIInv, NodeEntry
  <2>2. Release(item.entry.id) \/ UNCHANGED vars
    BY <1>7 DEF RebalanceRelease
  <2>3. CASE Release(item.entry.id)
    BY <2>1, <2>3 DEF Next
  <2>4. CASE UNCHANGED vars
    BY <1>1, <2>4
  <2> QED BY <2>2, <2>3, <2>4
<1>8. CASE RebalanceAllocate
  <2>1. PICK id \in Fresh : Allocate(id, MovedAllocation)
    BY <1>8 DEF RebalanceAllocate
  <2>2. id \in Ids
    BY DEF Fresh
  <2>3. moving.entry.claim \in Claims /\ moving.entry.window \in Windows
    BY <1>8 DEF RebalanceAllocate, SchedulerIInv, NodeEntry
  <2>4. MovedAllocation \in Allocations
    BY <2>3, ScheduledAllocation DEF MovedAllocation
  <2> QED BY <2>1, <2>2, <2>4 DEF Next
<1> QED BY <1>2, <1>3, <1>4, <1>5, <1>6, <1>7, <1>8 DEF SatelliteNext

\* The scheduler implements the allocator: the rebalance loop, whose releases by the
\* nodes' identifiers may fail, never gets round its indexes, conflicts or quotas.
THEOREM SchedulerImplementsAllocator == SatelliteSpec => AllocatorSpec
<1>1. SatelliteInit => Init
  BY DEF SatelliteInit
<1>2. SchedulerIInv /\ [SatelliteNext]_<<vars, nodeVars>> => [vars' # vars => Next]_vars
  BY SchedulerStep
<1> QED BY <1>1, <1>2, InitScheduler, NextScheduler, PTL DEF SatelliteSpec, AllocatorSpec

\* So no terminal is promised twice by the scheduler either.
THEOREM ScheduledTerminalsStayExclusive == SatelliteSpec => []TerminalsAreExclusive
<1>1. [vars' # vars => Next]_vars => [Next]_vars
  OBVIOUS
<1>2. AllocatorSpec => Spec
  BY <1>1, PTL DEF AllocatorSpec, Spec
<1> QED BY <1>2, SchedulerImplementsAllocator, TerminalsStayExclusive, PTL

-----------------------------------------------------------------------------
(* The constellation: elements and constants *)

BirdsIInv ==
  \A b \in DOMAIN birds : birds[b] = [epoch |-> birds[b].epoch, constants |-> birds[b].constants]

LEMMA OrbitalPreserves ==
  ASSUME BirdsIInv, StatesMatchTheirEpoch, OrbitalNext
  PROVE  BirdsIInv' /\ StatesMatchTheirEpoch'
<1> USE DEF BirdsIInv, StatesMatchTheirEpoch
<1>1. ASSUME NEW b \in Birds, NEW epoch \in Epochs, AddBird(b, epoch) PROVE BirdsIInv' /\ StatesMatchTheirEpoch'
  BY <1>1 DEF AddBird
<1>2. ASSUME NEW b \in Birds, RemoveBird(b) PROVE BirdsIInv' /\ StatesMatchTheirEpoch'
  BY <1>2 DEF RemoveBird
<1>3. ASSUME NEW done \in SUBSET Birds, InitializeAll(done) PROVE BirdsIInv' /\ StatesMatchTheirEpoch'
  <2>1. ASSUME NEW b \in DOMAIN birds'
        PROVE  birds'[b].constants \subseteq {birds'[b].epoch} \ Unusable
    <3>1. CASE b \in done
      <4>1. birds'[b] = InitializeConstants(b) /\ birds[b].epoch \notin Unusable
        BY <1>3, <2>1, <3>1 DEF InitializeAll
      <4>2. InitializeConstants(b).constants \subseteq {birds[b].epoch}
        BY DEF InitializeConstants
      <4>3. InitializeConstants(b).epoch = birds[b].epoch
        BY DEF InitializeConstants
      <4> QED BY <4>1, <4>2, <4>3
    <3>2. CASE b \notin done
      BY <1>3, <2>1, <3>2 DEF InitializeAll
    <3> QED BY <3>1, <3>2
  <2>2. UNCHANGED snapshot
    BY <1>3 DEF InitializeAll
  <2>3. BirdsIInv'
    BY <1>3 DEF InitializeAll, InitializeConstants
  <2> QED BY <2>1, <2>2, <2>3
<1>4. CASE Propagate
  <2>1. snapshot' = [b \in DOMAIN birds |-> StateOf(b)] /\ birds' = birds
        /\ \A b \in DOMAIN birds : birds[b].constants # {}
    BY <1>4 DEF Propagate
  <2>2. ASSUME NEW b \in DOMAIN birds
        PROVE  StateOf(b).from = StateOf(b).tle_epoch /\ StateOf(b).time = orbit_now
    <3>1. birds[b].constants = {birds[b].epoch}
      BY <2>1
    <3>2. (CHOOSE c \in birds[b].constants : TRUE) = birds[b].epoch
      BY <3>1
    <3> QED BY <3>2 DEF StateOf
  <2> QED BY <2>1, <2>2
<1>5. ASSUME NEW fetched \in SUBSET Birds, NEW epoch \in Epochs, BatchRefreshTles(fetched, epoch)
      PROVE  BirdsIInv' /\ StatesMatchTheirEpoch'
  BY <1>5 DEF BatchRefreshTles, RefreshTle
<1>6. CASE SaveAndLoad
  <2>1. DOMAIN birds' = DOMAIN birds /\ \A b \in DOMAIN birds : birds'[b] = [epoch |-> birds[b].epoch, constants |-> {}]
    <3>1. ASSUME NEW e, NEW c, NEW r, r = [epoch |-> e, constants |-> c]
          PROVE  [r EXCEPT !.constants = {}] = [epoch |-> e, constants |-> {}]
      BY <3>1
    <3>2. \A b \in DOMAIN birds : [birds[b] EXCEPT !.constants = {}] = [epoch |-> birds[b].epoch, constants |-> {}]
      BY <3>1, Zenon
    <3>3. birds' = [b \in DOMAIN birds |-> [birds[b] EXCEPT !.constants = {}]]
      BY <1>6 DEF SaveAndLoad
    <3> QED BY <3>2, <3>3, Zenon
  <2>2. \A b \in DOMAIN birds : birds'[b].constants \subseteq {}
    BY <2>1
  <2>3. UNCHANGED snapshot
    BY <1>6 DEF SaveAndLoad
  <2> QED BY <2>1, <2>2, <2>3
<1>7. CASE OrbitTimePasses
  BY <1>7 DEF OrbitTimePasses
<1> QED BY <1>1, <1>2, <1>3, <1>4, <1>5, <1>6, <1>7 DEF OrbitalNext

\* The elements, the constants and the snapshot are of known satellites and epochs.
OrbitIInv ==
  /\ DOMAIN birds \subseteq Birds
  /\ \A b \in DOMAIN birds : birds[b].epoch \in Epochs /\ birds[b].constants \subseteq Epochs
  /\ DOMAIN snapshot \subseteq Birds
  /\ orbit_now \in 0..MaxOrbitTime

LEMMA OrbitIsTyped == ASSUME BirdsIInv, OrbitIInv, OrbitalNext PROVE OrbitIInv'
<1> USE DEF BirdsIInv, OrbitIInv
<1>1. ASSUME NEW b \in Birds, NEW epoch \in Epochs, AddBird(b, epoch) PROVE OrbitIInv'
  BY <1>1 DEF AddBird
<1>2. ASSUME NEW b \in Birds, RemoveBird(b) PROVE OrbitIInv'
  BY <1>2 DEF RemoveBird
<1>3. ASSUME NEW done \in SUBSET Birds, InitializeAll(done) PROVE OrbitIInv'
  <2>1. /\ birds' = [b \in DOMAIN birds |-> IF b \in done THEN InitializeConstants(b) ELSE birds[b]]
        /\ UNCHANGED <<snapshot, orbit_now>>
    BY <1>3 DEF InitializeAll
  <2>2. ASSUME NEW b \in DOMAIN birds
        PROVE  InitializeConstants(b).epoch = birds[b].epoch /\ InitializeConstants(b).constants = {birds[b].epoch}
    BY <2>2 DEF InitializeConstants
  <2> QED BY <2>1, <2>2
<1>4. CASE Propagate
  BY <1>4 DEF Propagate
<1>5. ASSUME NEW fetched \in SUBSET Birds, NEW epoch \in Epochs, BatchRefreshTles(fetched, epoch)
      PROVE  OrbitIInv'
  BY <1>5 DEF BatchRefreshTles, RefreshTle
<1>6. CASE SaveAndLoad
  <2>1. birds' = [b \in DOMAIN birds |-> [birds[b] EXCEPT !.constants = {}]] /\ UNCHANGED <<snapshot, orbit_now>>
    BY <1>6 DEF SaveAndLoad
  <2>2. ASSUME NEW b \in DOMAIN birds
        PROVE  birds'[b].epoch = birds[b].epoch /\ birds'[b].constants = {}
    BY <2>1, <2>2
  <2> QED BY <2>1, <2>2
<1>7. CASE OrbitTimePasses
  BY <1>7, ConstellationAssumption DEF OrbitTimePasses
<1> QED BY <1>1, <1>2, <1>3, <1>4, <1>5, <1>6, <1>7 DEF OrbitalNext

-----------------------------------------------------------------------------
(* The constellation: the loop of predict_passes() *)

\* What the loop has gathered of the samples from i to j: the highest elevation, when
\* it was first reached, and the greatest range.
Gathered(i, j, elevation, time, range) ==
  /\ \A k \in i..j : samples[k].elevation <= elevation
  /\ \E k \in i..j : /\ samples[k].elevation = elevation /\ samples[k].time = time
                     /\ \A l \in i..j : samples[l].elevation = elevation => time <= samples[l].time
  /\ \A k \in i..j : samples[k].range <= range
  /\ \E k \in i..j : samples[k].range = range

\* The samples from i on, up to the last before a, belong to a pass, of which s holds
\* what was gathered.
OpenFrom(i, s, a) ==
  /\ \A k \in i..(a - 1) : Visible(samples[k])
  /\ i > 1 => ~ Visible(samples[i - 1])
  /\ s.rise = samples[i].time
  /\ Gathered(i, a - 1, s.best, s.best_time, s.range)

SamplesIInv ==
  /\ samples \in Seq([time : Nat, elevation : Int, range : Int]) /\ Len(samples) <= MaxSamples
  /\ \A k, l \in 1..Len(samples) : k < l => samples[k].time < samples[l].time

\* The passes p are those over the stretches that ended before the sample a.
FoundPasses(p, a) ==
  /\ \A n \in 1..Len(p) : \E i, j \in 1..Len(samples) :
       i <= j /\ j + 1 < a /\ OnePassOf(i, j) /\ p[n] = PassOver(i, j)
  /\ \A i, j \in 1..Len(samples) :
       i <= j /\ j + 1 < a /\ OnePassOf(i, j) => \E n \in 1..Len(p) : p[n] = PassOver(i, j)

\* What the loop variables s hold when it comes to the sample a.
Gathering(s, p, a) ==
  /\ s.in_pass => \E i \in 1..(a - 1) : OpenFrom(i, s, a)
  /\ ~ s.in_pass /\ a > 1 => ~ Visible(samples[a - 1])
  /\ \A n \in 1..Len(p) : a > 1 /\ p[n].set_time <= samples[a - 1].time
  /\ s.in_pass => \A n \in 1..Len(p) : p[n].set_time < s.rise

InOrder(p) == \A n \in 2..Len(p) : p[n - 1].set_time < p[n].rise_time

ScanType == [at : Nat, in_pass : BOOLEAN, rise : Int, best : Int, best_time : Int, range : Int]
PassType == [rise_time : Nat, set_time : Nat, max_elevation : Int, max_elevation_time : Nat, max_range : Int]

Loop(s, p) ==
  /\ s \in ScanType /\ p \in Seq(PassType)
  /\ s.at <= Len(samples) + 2
  /\ FoundPasses(p, s.at)
  /\ s.at \in 1..(Len(samples) + 1) => Gathering(s, p, s.at)
  /\ InOrder(p)

PredictionIInv == SamplesIInv /\ Loop(scan, passes)

LEMMA ElementsOfSeq ==
  ASSUME NEW S, NEW s \in Seq(S)
  PROVE  Len(s) \in Nat /\ DOMAIN s = 1..Len(s) /\ \A k \in 1..Len(s) : s[k] \in S
  OBVIOUS

LEMMA SampleFields ==
  ASSUME SamplesIInv
  PROVE  /\ Len(samples) \in Nat /\ DOMAIN samples = 1..Len(samples)
         /\ \A k \in 1..Len(samples) :
              samples[k].elevation \in Int /\ samples[k].time \in Nat /\ samples[k].range \in Int
<1>1. samples \in Seq([time : Nat, elevation : Int, range : Int])
  BY DEF SamplesIInv
<1>2. Len(samples) \in Nat /\ DOMAIN samples = 1..Len(samples)
  BY <1>1, ElementsOfSeq
<1>3. \A k \in 1..Len(samples) : samples[k] \in [time : Nat, elevation : Int, range : Int]
  BY <1>1, ElementsOfSeq
<1> QED BY <1>2, <1>3

LEMMA GatheredIsMost ==
  ASSUME SamplesIInv, NEW i \in 1..Len(samples), NEW j \in 1..Len(samples), i <= j,
         NEW e, NEW t, NEW r, Gathered(i, j, e, t, r)
  PROVE  /\ e = Highest(i, j) /\ e \in Int
         /\ t = Min({samples[k].time : k \in {k \in i..j : samples[k].elevation = Highest(i, j)}}) /\ t \in Nat
         /\ r = Max({samples[k].range : k \in i..j}) /\ r \in Int
<1>1. \A k \in i..j : samples[k].elevation \in Int /\ samples[k].time \in Nat /\ samples[k].range \in Int
  <2>1. Len(samples) \in Nat
    BY SampleFields
  <2>2. \A k \in i..j : k \in 1..Len(samples)
    BY <2>1
  <2> QED BY <2>2, SampleFields
<1> DEFINE E == {samples[k].elevation : k \in i..j}
           R == {samples[k].range : k \in i..j}
           T == {samples[k].time : k \in {k \in i..j : samples[k].elevation = e}}
<1>2. e \in E /\ \A y \in E : e >= y
  BY <1>1 DEF Gathered
<1>3. r \in R /\ \A y \in R : r >= y
  BY <1>1 DEF Gathered
<1>4. t \in T /\ \A y \in T : t <= y
  BY <1>1 DEF Gathered
<1>5. E \subseteq Int /\ R \subseteq Int /\ T \subseteq Nat
  BY <1>1
<1>6. Highest(i, j) = Max(E)
  BY DEF Highest
<1> HIDE DEF E, R, T
<1>7. Max(E) = e /\ Max(R) = r
  <2>1. Max(E) \in E /\ \A y \in E : Max(E) >= y
    BY <1>2, MaxIsOne
  <2>2. Max(R) \in R /\ \A y \in R : Max(R) >= y
    BY <1>3, MaxIsOne
  <2>3. Max(E) \in Int /\ e \in Int /\ Max(R) \in Int /\ r \in Int
    BY <1>2, <1>3, <1>5, <2>1, <2>2
  <2>4. Max(E) >= e /\ e >= Max(E) /\ Max(R) >= r /\ r >= Max(R)
    BY <1>2, <1>3, <2>1, <2>2
  <2> QED BY <2>3, <2>4
<1>8. Min(T) = t
  <2>1. Min(T) \in T /\ \A y \in T : Min(T) <= y
    BY <1>4, <1>5, MinIsLeast
  <2>2. Min(T) \in Nat /\ t \in Nat /\ Min(T) <= t /\ t <= Min(T)
    BY <1>4, <1>5, <2>1
  <2> QED BY <2>2
<1>9. T = {samples[k].time : k \in {k \in i..j : samples[k].elevation = Highest(i, j)}}
  BY <1>6, <1>7 DEF T
<1> QED BY <1>2, <1>3, <1>4, <1>5, <1>6, <1>7, <1>8, <1>9 DEF R

\* A stretch is described by what was gathered over it.
LEMMA ClosedIsThePass ==
  ASSUME SamplesIInv, NEW i \in 1..Len(samples), NEW j \in 1..Len(samples), i <= j,
         NEW s, s.rise = samples[i].time, Gathered(i, j, s.best, s.best_time, s.range),
         NEW t, t = samples[IF j < Len(samples) THEN j + 1 ELSE j].time,
         NEW c, c = [rise_time |-> s.rise, set_time |-> t, max_elevation |-> s.best,
                     max_elevation_time |-> s.best_time, max_range |-> s.range]
  PROVE  c = PassOver(i, j) /\ c \in PassType
<1> DEFINE last == IF j < Len(samples) THEN j + 1 ELSE j
<1>1. last \in 1..Len(samples)
  BY SampleFields
<1> HIDE DEF last
<1>2. samples[i].time \in Nat /\ samples[last].time \in Nat /\ t = samples[last].time
  BY <1>1, SampleFields DEF last
<1>3. /\ s.best = Highest(i, j) /\ s.best \in Int
      /\ s.best_time = Min({samples[k].time : k \in {k \in i..j : samples[k].elevation = Highest(i, j)}})
      /\ s.best_time \in Nat
      /\ s.range = Max({samples[k].range : k \in i..j}) /\ s.range \in Int
  BY GatheredIsMost
<1>4. c = PassOver(i, j)
  BY <1>3 DEF PassOver
<1> QED BY <1>2, <1>3, <1>4 DEF PassType

\* A sample more is gathered.
LEMMA GatherStarts ==
  ASSUME SamplesIInv, NEW a \in 1..Len(samples)
  PROVE  Gathered(a, a, samples[a].elevation, samples[a].time, samples[a].range)
<1>1. a..a = {a}
  BY SampleFields
<1>2. samples[a].elevation \in Int /\ samples[a].time \in Nat /\ samples[a].range \in Int
  BY SampleFields
<1> QED BY <1>1, <1>2 DEF Gathered

LEMMA GatherGoesOn ==
  ASSUME SamplesIInv, NEW a \in 1..Len(samples), NEW i \in 1..(a - 1),
         NEW e, NEW t, NEW r, Gathered(i, a - 1, e, t, r)
  PROVE  LET higher == samples[a].elevation > e IN
         Gathered(i, a, IF higher THEN samples[a].elevation ELSE e,
                        IF higher THEN samples[a].time ELSE t,
                        IF samples[a].range > r THEN samples[a].range ELSE r)
<1> DEFINE higher == samples[a].elevation > e
           f == IF higher THEN samples[a].elevation ELSE e
           u == IF higher THEN samples[a].time ELSE t
           q == IF samples[a].range > r THEN samples[a].range ELSE r
<1>1. Len(samples) \in Nat /\ a \in Nat /\ i \in Nat /\ i < a /\ a - 1 \in 1..Len(samples) /\ i <= a - 1
  BY SampleFields
<1> DEFINE D == i..(a - 1)
           B == i..a
<1>2. (\A k \in B : k \in D \/ k = a) /\ (\A k \in D : k \in B) /\ a \in B /\ B \subseteq 1..Len(samples)
  BY <1>1
<1>3. \A k \in B : samples[k].elevation \in Int /\ samples[k].time \in Nat /\ samples[k].range \in Int
  BY <1>2, SampleFields
<1>4. e \in Int /\ t \in Nat /\ r \in Int
  <2>1. i \in 1..Len(samples)
    BY <1>1
  <2> QED BY <1>1, <2>1, GatheredIsMost
<1>5. \A k \in D : samples[k].time < samples[a].time
  <2>1. \A k \in D : k \in 1..Len(samples) /\ k < a
    BY <1>1
  <2>2. \A k, l \in 1..Len(samples) : k < l => samples[k].time < samples[l].time
    BY DEF SamplesIInv
  <2> HIDE DEF D
  <2> QED BY <2>1, <2>2
<1> DEFINE el(k) == samples[k].elevation
           ti(k) == samples[k].time
           ra(k) == samples[k].range
<1>6. \A k \in B : el(k) \in Int /\ ti(k) \in Nat /\ ra(k) \in Int
  BY <1>3
<1>7. /\ \A k \in D : el(k) <= e
      /\ \E k \in D : /\ el(k) = e /\ ti(k) = t
                               /\ \A l \in D : el(l) = e => t <= ti(l)
      /\ \A k \in D : ra(k) <= r
      /\ \E k \in D : ra(k) = r
  BY DEF Gathered
<1>8. /\ f = IF el(a) > e THEN el(a) ELSE e
      /\ u = IF el(a) > e THEN ti(a) ELSE t
      /\ q = IF ra(a) > r THEN ra(a) ELSE r
  OBVIOUS
<1>9. \A k \in D : ti(k) < ti(a)
  BY <1>5
<1> HIDE DEF el, ti, ra, higher, f, u, q, D, B
<1>10. ASSUME NEW k \in B PROVE el(k) <= f /\ ra(k) <= q
  <2>1. el(a) \in Int /\ ra(a) \in Int /\ el(k) \in Int /\ ra(k) \in Int
    BY <1>2, <1>6
  <2>2. k \in D => el(k) <= e /\ ra(k) <= r
    BY <1>7
  <2>3. e <= f /\ el(a) <= f /\ f \in Int /\ r <= q /\ ra(a) <= q /\ q \in Int
    BY <1>4, <1>8, <2>1
  <2>4. CASE k = a
    BY <2>3, <2>4
  <2>5. CASE k \in D
    BY <1>4, <2>1, <2>2, <2>3, <2>5
  <2> QED BY <1>2, <2>4, <2>5
<1>12. \E k \in B : ra(k) = q
  BY <1>2, <1>7, <1>8
<1>13. \E k \in B : el(k) = f /\ ti(k) = u /\ \A l \in B : el(l) = f => u <= ti(l)
  <2>1. CASE el(a) > e
    <3>1. \A l \in D : el(l) # f
      BY <1>2, <1>4, <1>6, <1>7, <1>8, <2>1
    <3>2. \A l \in B : el(l) = f => u <= ti(l)
      BY <1>2, <1>6, <1>8, <2>1, <3>1
    <3> QED BY <1>2, <1>8, <2>1, <3>2
  <2>2. CASE ~ (el(a) > e)
    <3>1. PICK k \in D : el(k) = e /\ ti(k) = t /\ \A l \in D : el(l) = e => t <= ti(l)
      BY <1>7
    <3>2. k \in B /\ t <= ti(a)
      BY <1>2, <1>4, <1>6, <1>9, <3>1
    <3>3. \A l \in B : el(l) = f => u <= ti(l)
      BY <1>2, <1>8, <2>2, <3>1, <3>2
    <3> QED BY <1>8, <2>2, <3>1, <3>2, <3>3
  <2> QED BY <2>1, <2>2
<1>14. Gathered(i, a, f, u, q)
  BY <1>10, <1>12, <1>13 DEF Gathered, el, ti, ra, B
<1> QED BY <1>14 DEF f, u, q, higher

-----------------------------------------------------------------------------
(* The constellation: the steps of the loop *)

\* Only one stretch ends with a sample.
LEMMA OneStart ==
  ASSUME SamplesIInv, NEW j \in 1..Len(samples), NEW h \in 1..j, NEW i \in 1..j,
         \A k \in h..j : Visible(samples[k]), h > 1 => ~ Visible(samples[h - 1]),
         \A k \in i..j : Visible(samples[k]), i > 1 => ~ Visible(samples[i - 1])
  PROVE  h = i
<1>1. j \in Nat /\ h \in Nat /\ i \in Nat
  BY SampleFields
<1>2. ~ (h < i)
  <2> SUFFICES ASSUME h < i PROVE FALSE
    OBVIOUS
  <2>1. i - 1 \in h..j /\ i > 1
    BY <1>1
  <2> QED BY <2>1
<1>3. ~ (i < h)
  <2> SUFFICES ASSUME i < h PROVE FALSE
    OBVIOUS
  <2>1. h - 1 \in i..j /\ h > 1
    BY <1>1
  <2> QED BY <2>1
<1> QED BY <1>1, <1>2, <1>3

\* What there is to find depends on the samples alone.
LEMMA FoundIsOfTheSamples ==
  ASSUME UNCHANGED samples, NEW p, NEW a
  PROVE  FoundPasses(p, a)' <=> FoundPasses(p, a)
  BY DEF FoundPasses, OnePassOf, Visible, PassOver, Highest

\* The loop goes past the sample a, before which no pass ends.
LEMMA NothingFound ==
  ASSUME SamplesIInv, NEW a \in Nat, NEW p, FoundPasses(p, a),
         \A i, j \in 1..Len(samples) : j + 1 = a /\ i <= j => ~ OnePassOf(i, j)
  PROVE  FoundPasses(p, a + 1)
<1>1. Len(samples) \in Nat
  BY SampleFields
<1>2. ASSUME NEW n \in 1..Len(p)
      PROVE  \E i, j \in 1..Len(samples) :
               i <= j /\ j + 1 < a + 1 /\ OnePassOf(i, j) /\ p[n] = PassOver(i, j)
  <2>1. PICK i \in 1..Len(samples), j \in 1..Len(samples) :
               i <= j /\ j + 1 < a /\ OnePassOf(i, j) /\ p[n] = PassOver(i, j)
    BY DEF FoundPasses
  <2>2. j + 1 < a + 1
    BY <1>1, <2>1
  <2> QED BY <2>1, <2>2
<1>3. ASSUME NEW i \in 1..Len(samples), NEW j \in 1..Len(samples),
             i <= j, j + 1 < a + 1, OnePassOf(i, j)
      PROVE  \E n \in 1..Len(p) : p[n] = PassOver(i, j)
  <2>1. j + 1 # a
    BY <1>3
  <2>2. j + 1 < a
    BY <1>1, <1>3, <2>1
  <2> QED BY <1>3, <2>2 DEF FoundPasses
<1> QED BY <1>2, <1>3 DEF FoundPasses

\* One pass ends before the sample a, and is added.
LEMMA OneFound ==
  ASSUME SamplesIInv, NEW a \in Nat, NEW S, NEW p \in Seq(S), FoundPasses(p, a), a > 1,
         a - 1 \in 1..Len(samples),
         NEW h \in 1..(a - 1), OnePassOf(h, a - 1),
         NEW c \in S, c = PassOver(h, a - 1)
  PROVE  FoundPasses(Append(p, c), a + 1)
<1> DEFINE q == Append(p, c)
           N == Len(p)
<1>1. Len(samples) \in Nat /\ h \in 1..Len(samples)
  BY SampleFields
<1>2. N \in Nat /\ Len(q) = N + 1 /\ q[N + 1] = c /\ \A n \in 1..N : q[n] = p[n]
  OBVIOUS
<1> HIDE DEF q, N
<1>3. ASSUME NEW n \in 1..Len(q)
      PROVE  \E i, j \in 1..Len(samples) :
               i <= j /\ j + 1 < a + 1 /\ OnePassOf(i, j) /\ q[n] = PassOver(i, j)
  <2>1. CASE n \in 1..N
    <3>1. PICK i \in 1..Len(samples), j \in 1..Len(samples) :
                 i <= j /\ j + 1 < a /\ OnePassOf(i, j) /\ p[n] = PassOver(i, j)
      BY <2>1 DEF FoundPasses, N
    <3>2. j + 1 < a + 1
      BY <1>1, <3>1
    <3> QED BY <1>2, <2>1, <3>1, <3>2
  <2>2. CASE n = N + 1
    <3>1. h <= a - 1 /\ (a - 1) + 1 < a + 1
      OBVIOUS
    <3> QED BY <1>1, <1>2, <2>2, <3>1
  <2>3. n \in 1..N \/ n = N + 1
    BY <1>2
  <2> QED BY <2>1, <2>2, <2>3
<1>4. ASSUME NEW i \in 1..Len(samples), NEW j \in 1..Len(samples),
             i <= j, j + 1 < a + 1, OnePassOf(i, j)
      PROVE  \E n \in 1..Len(q) : q[n] = PassOver(i, j)
  <2>1. CASE j + 1 < a
    <3>1. PICK n \in 1..N : p[n] = PassOver(i, j)
      BY <1>4, <2>1 DEF FoundPasses, N
    <3> QED BY <1>2, <3>1
  <2>2. CASE j = a - 1
    <3>1. i \in 1..j /\ h \in 1..j
      BY <1>1, <1>4, <2>2
    <3>2. h = i
      BY <1>4, <2>2, <3>1, OneStart DEF OnePassOf
    <3>3. q[N + 1] = PassOver(i, j) /\ N + 1 \in 1..Len(q)
      BY <1>2, <2>2, <3>2
    <3> QED BY <3>3
  <2> QED BY <1>1, <1>4, <2>1, <2>2
<1>5. FoundPasses(q, a + 1)
  BY <1>3, <1>4 DEF FoundPasses
<1> QED BY <1>5 DEF q

\* What there is to gather depends on the samples alone.
LEMMA LoopIsOfTheSamples ==
  ASSUME UNCHANGED samples, NEW s, NEW p
  PROVE  Loop(s, p)' <=> Loop(s, p)
<1>1. FoundPasses(p, s.at)' <=> FoundPasses(p, s.at)
  BY FoundIsOfTheSamples
<1>2. Gathering(s, p, s.at)' <=> Gathering(s, p, s.at)
  BY DEF Gathering, OpenFrom, Gathered, Visible
<1> QED BY <1>1, <1>2 DEF Loop, InOrder

LEMMA LoopFields ==
  ASSUME NEW s, NEW p, Loop(s, p)
  PROVE  /\ s.at \in Nat /\ s.in_pass \in BOOLEAN /\ s.rise \in Int /\ s.best \in Int /\ s.best_time \in Int
         /\ s.range \in Int
         /\ Len(p) \in Nat /\ DOMAIN p = 1..Len(p) /\ p \in Seq(PassType)
         /\ \A n \in 1..Len(p) : p[n].set_time \in Nat /\ p[n].rise_time \in Nat
<1>1. p \in Seq(PassType)
  BY DEF Loop
<1>2. Len(p) \in Nat /\ DOMAIN p = 1..Len(p) /\ \A n \in 1..Len(p) : p[n] \in PassType
  BY <1>1, ElementsOfSeq
<1>3. \A n \in 1..Len(p) : p[n].set_time \in Nat /\ p[n].rise_time \in Nat
  BY <1>2 DEF PassType
<1> QED BY <1>1, <1>2, <1>3 DEF Loop, ScanType

\* The sample before is earlier.
LEMMA TimesGrow ==
  ASSUME SamplesIInv, NEW a \in 1..Len(samples), NEW k \in 1..(a - 1)
  PROVE  samples[k].time < samples[a].time
<1>1. k \in 1..Len(samples) /\ k < a
  BY SampleFields
<1> QED BY <1>1 DEF SamplesIInv

LEMMA FoundAreEarlier ==
  ASSUME SamplesIInv, NEW s, NEW p, Loop(s, p), s.at \in 1..Len(samples), NEW n \in 1..Len(p)
  PROVE  p[n].set_time < samples[s.at].time /\ p[n].set_time <= samples[s.at].time
<1> DEFINE a == s.at
           x == p[n].set_time
<1>1. Len(samples) \in Nat /\ a \in 1..Len(samples) /\ a \in Nat /\ x \in Nat
  BY SampleFields, LoopFields
<1>2. Gathering(s, p, a)
  BY <1>1 DEF Loop
<1>3. a > 1 /\ x <= samples[a - 1].time
  BY <1>2 DEF Gathering
<1> HIDE DEF a, x
<1>4. a - 1 \in 1..(a - 1) /\ a - 1 \in 1..Len(samples)
  BY <1>1, <1>3
<1> DEFINE y == samples[a - 1].time
           z == samples[a].time
<1>5. y < z /\ y \in Nat /\ z \in Nat
  BY <1>1, <1>4, TimesGrow, SampleFields
<1>6. x <= y
  BY <1>3
<1> HIDE DEF y, z
<1>7. x < z /\ x <= z
  BY <1>1, <1>5, <1>6
<1> QED BY <1>7 DEF x, z, a

LEMMA StartKeepsLoop ==
  ASSUME SamplesIInv, NEW s, NEW p, Loop(s, p), NEW a, a = s.at, a \in 1..Len(samples),
         Visible(samples[a]), ~ s.in_pass,
         NEW r, r = [at |-> a + 1, in_pass |-> TRUE, rise |-> samples[a].time, best |-> samples[a].elevation,
                     best_time |-> samples[a].time, range |-> samples[a].range]
  PROVE  Loop(r, p)
<1>1. Len(samples) \in Nat /\ a \in Nat
  BY SampleFields
<1>2. samples[a].elevation \in Int /\ samples[a].time \in Nat /\ samples[a].range \in Int
  BY SampleFields
<1>3. r \in ScanType /\ p \in Seq(PassType) /\ r.at = a + 1
  BY <1>1, <1>2, LoopFields DEF ScanType
<1>4. FoundPasses(p, a + 1)
  <2>1. FoundPasses(p, a)
    BY DEF Loop
  <2>2. ASSUME NEW i \in 1..Len(samples), NEW j \in 1..Len(samples), j + 1 = a PROVE ~ OnePassOf(i, j)
    BY <1>1, <2>2 DEF OnePassOf
  <2> QED BY <1>1, <2>1, <2>2, NothingFound
<1>5. Gathering(s, p, a)
  BY <1>1 DEF Loop
<1>6. OpenFrom(a, r, a + 1)
  <2>1. Gathered(a, (a + 1) - 1, r.best, r.best_time, r.range)
    <3>1. (a + 1) - 1 = a
      BY <1>1
    <3> QED BY <3>1, GatherStarts
  <2>2. \A k \in a..((a + 1) - 1) : Visible(samples[k])
    <3>1. a..((a + 1) - 1) = {a}
      BY <1>1
    <3> QED BY <3>1
  <2>3. a > 1 => ~ Visible(samples[a - 1])
    BY <1>5 DEF Gathering
  <2> QED BY <2>1, <2>2, <2>3 DEF OpenFrom
<1>7. \A n \in 1..Len(p) : p[n].set_time < samples[a].time
  BY FoundAreEarlier
<1>8. Gathering(r, p, a + 1)
  <2>1. (a + 1) - 1 = a /\ a \in 1..((a + 1) - 1) /\ a + 1 > 1
    BY <1>1
  <2>2. \A n \in 1..Len(p) : p[n].set_time <= samples[a].time
    BY FoundAreEarlier
  <2>3. r.in_pass /\ r.rise = samples[a].time
    OBVIOUS
  <2> QED BY <1>6, <1>7, <2>1, <2>2, <2>3 DEF Gathering
<1>9. InOrder(p) /\ a + 1 <= Len(samples) + 2
  BY <1>1 DEF Loop
<1> QED BY <1>3, <1>4, <1>8, <1>9 DEF Loop

LEMMA ContinuingKeepsLoop ==
  ASSUME SamplesIInv, NEW s, NEW p, Loop(s, p), NEW a, a = s.at, a \in 1..Len(samples),
         Visible(samples[a]), s.in_pass,
         NEW e, e = IF samples[a].elevation > s.best THEN samples[a].elevation ELSE s.best,
         NEW t, t = IF samples[a].elevation > s.best THEN samples[a].time ELSE s.best_time,
         NEW g, g = IF samples[a].range > s.range THEN samples[a].range ELSE s.range,
         NEW r, r = [at |-> a + 1, in_pass |-> TRUE, rise |-> s.rise, best |-> e, best_time |-> t, range |-> g]
  PROVE  Loop(r, p)
<1>1. Len(samples) \in Nat /\ a \in Nat
  BY SampleFields
<1>2. samples[a].elevation \in Int /\ samples[a].time \in Nat /\ samples[a].range \in Int
  BY SampleFields
<1>3. r \in ScanType /\ p \in Seq(PassType) /\ r.at = a + 1
  <2>1. s.rise \in Int /\ s.best \in Int /\ s.best_time \in Int /\ s.range \in Int /\ p \in Seq(PassType)
    BY LoopFields, Zenon
  <2>2. e \in Int /\ t \in Int /\ g \in Int /\ a + 1 \in Nat
    BY <1>1, <1>2, <2>1
  <2> QED BY <2>1, <2>2 DEF ScanType
<1>4. FoundPasses(p, a + 1)
  <2>1. FoundPasses(p, a)
    BY DEF Loop
  <2>2. ASSUME NEW i \in 1..Len(samples), NEW j \in 1..Len(samples), j + 1 = a PROVE ~ OnePassOf(i, j)
    BY <1>1, <2>2 DEF OnePassOf
  <2> QED BY <1>1, <2>1, <2>2, NothingFound
<1>5. Gathering(s, p, a)
  BY <1>1 DEF Loop
<1>6. PICK i \in 1..(a - 1) : OpenFrom(i, s, a)
  BY <1>5 DEF Gathering
<1>7. OpenFrom(i, r, a + 1)
  <2>1. Gathered(i, a, r.best, r.best_time, r.range)
    <3>1. Gathered(i, a - 1, s.best, s.best_time, s.range)
      BY <1>6 DEF OpenFrom
    <3> QED BY <3>1, GatherGoesOn
  <2>2. \A k \in i..a : Visible(samples[k])
    <3>1. \A k \in i..a : k \in i..(a - 1) \/ k = a
      BY <1>1
    <3> QED BY <1>6, <3>1 DEF OpenFrom
  <2>3. (a + 1) - 1 = a
    BY <1>1
  <2>4. r.rise = samples[i].time /\ (i > 1 => ~ Visible(samples[i - 1]))
    BY <1>6 DEF OpenFrom
  <2> QED BY <2>1, <2>2, <2>3, <2>4 DEF OpenFrom
<1>8. Gathering(r, p, a + 1)
  <2>1. (a + 1) - 1 = a /\ i \in 1..((a + 1) - 1) /\ a + 1 > 1
    BY <1>1
  <2>2. \A n \in 1..Len(p) : p[n].set_time <= samples[a].time
    BY FoundAreEarlier
  <2>3. r.in_pass /\ r.rise = s.rise
    OBVIOUS
  <2>4. \A n \in 1..Len(p) : p[n].set_time < r.rise
    BY <1>5, <2>3 DEF Gathering
  <2> QED BY <1>7, <2>1, <2>2, <2>3, <2>4 DEF Gathering
<1>9. InOrder(p) /\ a + 1 <= Len(samples) + 2
  BY <1>1 DEF Loop
<1> QED BY <1>3, <1>4, <1>8, <1>9 DEF Loop

\* A pass added after all others keeps the order.
LEMMA OrderIsKept ==
  ASSUME NEW p \in Seq(PassType), InOrder(p), NEW c \in PassType,
         \A n \in 1..Len(p) : p[n].set_time < c.rise_time
  PROVE  InOrder(Append(p, c))
<1> DEFINE q == Append(p, c)
           N == Len(p)
<1>1. N \in Nat /\ Len(q) = N + 1 /\ q[N + 1] = c /\ \A n \in 1..N : q[n] = p[n]
  OBVIOUS
<1> HIDE DEF q
<1>2. ASSUME NEW n \in 2..(N + 1) PROVE q[n - 1].set_time < q[n].rise_time
  <2>1. n - 1 \in 1..N /\ q[n - 1] = p[n - 1]
    BY <1>1
  <2>2. CASE n = N + 1
    BY <1>1, <2>1, <2>2
  <2>3. CASE n \in 2..N
    <3>1. n \in 1..N /\ q[n] = p[n]
      BY <1>1, <2>3
    <3> QED BY <2>1, <2>3, <3>1 DEF InOrder
  <2>4. n = N + 1 \/ n \in 2..N
    BY <1>1
  <2> QED BY <2>2, <2>3, <2>4
<1>3. InOrder(q)
  BY <1>1, <1>2 DEF InOrder
<1> QED BY <1>3 DEF q

\* The pass that is open before the sample a, closed at the time t.
LEMMA ClosingFinds ==
  ASSUME SamplesIInv, NEW s, NEW p, Loop(s, p), NEW a, a = s.at, a \in 1..(Len(samples) + 1), s.in_pass,
         a <= Len(samples) => ~ Visible(samples[a]),
         NEW t, t = samples[IF a <= Len(samples) THEN a ELSE Len(samples)].time,
         NEW c, c = [rise_time |-> s.rise, set_time |-> t, max_elevation |-> s.best,
                     max_elevation_time |-> s.best_time, max_range |-> s.range]
  PROVE  /\ Append(p, c) \in Seq(PassType)
         /\ FoundPasses(Append(p, c), a + 1)
         /\ InOrder(Append(p, c))
<1>1. Len(samples) \in Nat /\ a \in Nat
  BY SampleFields
<1>2. Gathering(s, p, a) /\ FoundPasses(p, a) /\ InOrder(p) /\ p \in Seq(PassType)
  BY DEF Loop
<1>3. PICK i \in 1..(a - 1) : OpenFrom(i, s, a)
  BY <1>2 DEF Gathering
<1>4. a - 1 \in 1..Len(samples) /\ i \in 1..Len(samples) /\ i <= a - 1 /\ a > 1
  <2>1. ASSUME NEW L \in Nat, NEW b \in 1..(L + 1), NEW h \in 1..(b - 1)
        PROVE  b - 1 \in 1..L /\ h \in 1..L /\ h <= b - 1 /\ b > 1
    BY <2>1
  <2> QED BY <1>1, <2>1
<1>5. t = samples[IF a - 1 < Len(samples) THEN (a - 1) + 1 ELSE a - 1].time
  BY <1>1, <1>4
<1>6. c = PassOver(i, a - 1) /\ c \in PassType
  <2> DEFINE j == a - 1
  <2>1. j \in 1..Len(samples) /\ i <= j /\ t = samples[IF j < Len(samples) THEN j + 1 ELSE j].time
    BY <1>4, <1>5
  <2>2. s.rise = samples[i].time /\ Gathered(i, j, s.best, s.best_time, s.range)
    BY <1>3 DEF OpenFrom
  <2> HIDE DEF j
  <2>3. c = PassOver(i, j) /\ c \in PassType
    BY <1>4, <2>1, <2>2, ClosedIsThePass
  <2> QED BY <2>3 DEF j
<1>7. OnePassOf(i, a - 1)
  <2>1. a - 1 < Len(samples) => ~ Visible(samples[(a - 1) + 1])
    BY <1>1
  <2> QED BY <1>3, <2>1 DEF OnePassOf, OpenFrom
<1>8. FoundPasses(Append(p, c), a + 1)
  BY <1>1, <1>2, <1>4, <1>6, <1>7, OneFound
<1>9. \A n \in 1..Len(p) : p[n].set_time < c.rise_time
  BY <1>2 DEF Gathering
<1>10. InOrder(Append(p, c))
  BY <1>2, <1>6, <1>9, OrderIsKept
<1>11. Append(p, c) \in Seq(PassType)
  BY <1>2, <1>6
<1> QED BY <1>8, <1>10, <1>11

\* PassEnds: the sample a is not visible.
LEMMA EndKeepsLoop ==
  ASSUME SamplesIInv, NEW s, NEW p, Loop(s, p), NEW a, a = s.at, a \in 1..Len(samples),
         ~ Visible(samples[a]),
         NEW c, c = [rise_time |-> s.rise, set_time |-> samples[a].time, max_elevation |-> s.best,
                     max_elevation_time |-> s.best_time, max_range |-> s.range],
         NEW q, q = IF s.in_pass THEN Append(p, c) ELSE p,
         NEW r, r = [at |-> a + 1, in_pass |-> FALSE, rise |-> s.rise, best |-> s.best,
                     best_time |-> s.best_time, range |-> s.range]
  PROVE  Loop(r, q)
<1>1. Len(samples) \in Nat /\ a \in Nat /\ a <= Len(samples) /\ a \in 1..(Len(samples) + 1)
  BY SampleFields
<1>2. r \in ScanType /\ r.at = a + 1 /\ r.in_pass = FALSE
  BY <1>1, LoopFields DEF ScanType
<1>3. q \in Seq(PassType) /\ FoundPasses(q, a + 1) /\ InOrder(q)
  <2>1. CASE s.in_pass
    <3> DEFINE t == samples[a].time
    <3>1. t = samples[IF a <= Len(samples) THEN a ELSE Len(samples)].time
      BY <1>1
    <3>2. c = [rise_time |-> s.rise, set_time |-> t, max_elevation |-> s.best,
               max_elevation_time |-> s.best_time, max_range |-> s.range]
      OBVIOUS
    <3> HIDE DEF t
    <3>3. Append(p, c) \in Seq(PassType) /\ FoundPasses(Append(p, c), a + 1) /\ InOrder(Append(p, c))
      BY <1>1, <2>1, <3>1, <3>2, ClosingFinds
    <3> QED BY <2>1, <3>3
  <2>2. CASE ~ s.in_pass
    <3>1. FoundPasses(p, a) /\ InOrder(p) /\ p \in Seq(PassType) /\ Gathering(s, p, a)
      BY <1>1 DEF Loop
    <3>2. a > 1 => ~ Visible(samples[a - 1])
      BY <2>2, <3>1 DEF Gathering
    <3>3. ASSUME NEW i \in 1..Len(samples), NEW j \in 1..Len(samples), j + 1 = a, i <= j
          PROVE  ~ OnePassOf(i, j)
      <4>1. j = a - 1 /\ a > 1 /\ j \in i..j
        <5>1. ASSUME NEW L \in Nat, NEW h \in 1..L, NEW k \in 1..L, NEW b, k + 1 = b, h <= k
              PROVE  k = b - 1 /\ b > 1 /\ k \in h..k
          BY <5>1
        <5> QED BY <1>1, <3>3, <5>1
      <4> QED BY <3>2, <4>1 DEF OnePassOf
    <3>4. FoundPasses(p, a + 1)
      BY <1>1, <3>1, <3>3, NothingFound
    <3> QED BY <2>2, <3>1, <3>4
  <2> QED BY <2>1, <2>2
<1>4. ASSUME NEW n \in 1..Len(q) PROVE q[n].set_time <= samples[a].time
  <2>1. \A m \in 1..Len(p) : p[m].set_time <= samples[a].time
    BY FoundAreEarlier
  <2>2. CASE s.in_pass
    <3>1. p \in Seq(PassType)
      BY LoopFields
    <3>2. ASSUME NEW u \in Seq(PassType), NEW d, NEW m \in 1..Len(Append(u, d))
          PROVE  (m \in 1..Len(u) /\ Append(u, d)[m] = u[m]) \/ Append(u, d)[m] = d
      OBVIOUS
    <3>3. (n \in 1..Len(p) /\ q[n] = p[n]) \/ q[n] = c
      BY <2>2, <3>1, <3>2
    <3>4. c.set_time = samples[a].time /\ samples[a].time \in Nat
      BY SampleFields
    <3>5. c.set_time <= samples[a].time
      BY <3>4
    <3> QED BY <2>1, <3>3, <3>5
  <2>3. CASE ~ s.in_pass
    BY <2>1, <2>3
  <2> QED BY <2>2, <2>3
<1>5. Gathering(r, q, a + 1)
  <2>1. (a + 1) - 1 = a /\ a + 1 > 1
    BY <1>1
  <2> QED BY <1>2, <1>4, <2>1 DEF Gathering
<1>6. a + 1 <= Len(samples) + 2
  BY <1>1
<1> QED BY <1>2, <1>3, <1>5, <1>6 DEF Loop

\* PredictionReturns: the pass that is still open ends with the last sample.
LEMMA ReturnKeepsLoop ==
  ASSUME SamplesIInv, NEW s, NEW p, Loop(s, p), s.at = Len(samples) + 1,
         NEW c, c = [rise_time |-> s.rise, set_time |-> samples[Len(samples)].time, max_elevation |-> s.best,
                     max_elevation_time |-> s.best_time, max_range |-> s.range],
         NEW q, q = IF s.in_pass THEN Append(p, c) ELSE p,
         NEW r, r = [at |-> Len(samples) + 2, in_pass |-> FALSE, rise |-> s.rise, best |-> s.best,
                     best_time |-> s.best_time, range |-> s.range]
  PROVE  Loop(r, q)
<1> DEFINE a == Len(samples) + 1
<1>1. Len(samples) \in Nat /\ a \in Nat /\ ~ (a <= Len(samples)) /\ a \in 1..(Len(samples) + 1)
      /\ a + 1 = Len(samples) + 2 /\ ~ (a + 1 <= Len(samples) + 1)
  BY SampleFields
<1>2. a = s.at
  OBVIOUS
<1> HIDE DEF a
<1>3. r \in ScanType /\ r.at = a + 1
  BY <1>1, LoopFields DEF ScanType
<1>4. q \in Seq(PassType) /\ FoundPasses(q, a + 1) /\ InOrder(q)
  <2>1. CASE s.in_pass
    <3> DEFINE t == samples[Len(samples)].time
    <3>1. t = samples[IF a <= Len(samples) THEN a ELSE Len(samples)].time
      BY <1>1
    <3>2. c = [rise_time |-> s.rise, set_time |-> t, max_elevation |-> s.best,
               max_elevation_time |-> s.best_time, max_range |-> s.range]
      OBVIOUS
    <3> HIDE DEF t
    <3>3. Append(p, c) \in Seq(PassType) /\ FoundPasses(Append(p, c), a + 1) /\ InOrder(Append(p, c))
      BY <1>1, <1>2, <2>1, <3>1, <3>2, ClosingFinds
    <3> QED BY <2>1, <3>3
  <2>2. CASE ~ s.in_pass
    <3>1. FoundPasses(p, a) /\ InOrder(p) /\ p \in Seq(PassType) /\ Gathering(s, p, a)
      BY <1>1, <1>2 DEF Loop
    <3>2. a > 1 => ~ Visible(samples[a - 1])
      BY <2>2, <3>1 DEF Gathering
    <3>3. ASSUME NEW i \in 1..Len(samples), NEW j \in 1..Len(samples), j + 1 = a, i <= j
          PROVE  ~ OnePassOf(i, j)
      <4>1. j = a - 1 /\ a > 1 /\ j \in i..j
        <5>1. ASSUME NEW L \in Nat, NEW h \in 1..L, NEW k \in 1..L, NEW b, k + 1 = b, h <= k
              PROVE  k = b - 1 /\ b > 1 /\ k \in h..k
          BY <5>1
        <5> QED BY <1>1, <3>3, <5>1
      <4> QED BY <3>2, <4>1 DEF OnePassOf
    <3>4. FoundPasses(p, a + 1)
      BY <1>1, <3>1, <3>3, NothingFound
    <3> QED BY <2>2, <3>1, <3>4
  <2> QED BY <2>1, <2>2
<1>5. ~ (r.at \in 1..(Len(samples) + 1)) /\ r.at <= Len(samples) + 2
  BY <1>1, <1>3
<1> QED BY <1>3, <1>4, <1>5 DEF Loop

LEMMA PredictKeepsLoop ==
  ASSUME ConstellationAssumption, PredictionIInv, NEW n \in 0..MaxSamples, NEW step \in StepSizes,
         NEW e \in [1..n -> Elevations], NEW g \in [1..n -> Ranges], PredictPasses(e, g, step)
  PROVE  PredictionIInv'
<1>1. n \in Nat /\ step \in Nat \ {0} /\ \A i \in 1..n : e[i] \in Int /\ g[i] \in Int
  <2>1. /\ MaxSamples \in Nat /\ StepSizes \subseteq Nat \ {0}
        /\ Elevations \subseteq Int /\ Ranges \subseteq Int
    BY DEF ConstellationAssumption
  <2>2. n \in Nat
    BY <2>1
  <2>3. \A i \in 1..n : e[i] \in Elevations /\ g[i] \in Ranges
    OBVIOUS
  <2> QED BY <2>1, <2>2, <2>3
<1> DEFINE x == [i \in 1..n |-> [time |-> (i - 1) * step, elevation |-> e[i], range |-> g[i]]]
<1>2. samples' = x /\ passes' = <<>> /\ scan' = [NotScanning EXCEPT !.at = 1]
  BY DEF PredictPasses
<1>3. \A i \in 1..n : (i - 1) * step \in Nat
  BY <1>1
<1>4. ASSUME NEW k \in 1..n, NEW l \in 1..n, k < l PROVE (k - 1) * step < (l - 1) * step
  <2>1. k \in Nat /\ l \in Nat /\ (l - 1) - (k - 1) >= 1
    BY <1>1, <1>4
  <2>2. ASSUME NEW u \in Nat, NEW v \in Nat, v - u >= 1 PROVE u * step < v * step
    BY <1>1, <2>2
  <2>3. k - 1 \in Nat /\ l - 1 \in Nat
    BY <1>1
  <2> QED BY <2>1, <2>2, <2>3
<1>5. \A i \in 1..n : x[i] \in [time : Nat, elevation : Int, range : Int]
  BY <1>1, <1>3
<1>6. \A k, l \in 1..n : k < l => x[k].time < x[l].time
  BY <1>4
<1>7. x \in Seq([time : Nat, elevation : Int, range : Int]) /\ Len(x) = n
  <2>1. DOMAIN x = 1..n
    OBVIOUS
  <2> DEFINE S == [time : Nat, elevation : Int, range : Int]
  <2>2. x \in [1..n -> S]
    BY <1>5
  <2> HIDE DEF x, S
  <2>3. ASSUME NEW T, NEW m \in Nat, NEW y \in [1..m -> T] PROVE y \in Seq(T) /\ Len(y) = m
    OBVIOUS
  <2>4. x \in Seq(S) /\ Len(x) = n
    BY <1>1, <2>2, <2>3
  <2> QED BY <2>4 DEF S
<1> HIDE DEF x
<1>8. SamplesIInv'
  <2>1. n <= MaxSamples
    BY <1>1 DEF ConstellationAssumption
  <2> QED BY <1>2, <1>6, <1>7, <2>1 DEF SamplesIInv
<1> DEFINE r == [at |-> 1, in_pass |-> FALSE, rise |-> 0, best |-> 0, best_time |-> 0, range |-> 0]
<1>9. scan' = r
  BY <1>2 DEF NotScanning
<1>10. r \in ScanType /\ r.at = 1 /\ r.in_pass = FALSE
  BY DEF ScanType
<1> HIDE DEF r
<1>11. <<>> \in Seq(PassType) /\ Len(<<>>) = 0
  OBVIOUS
<1>12. Len(samples') \in Nat
  BY <1>1, <1>2, <1>7
<1>13. FoundPasses(<<>>, 1)'
  BY <1>11, <1>12 DEF FoundPasses
<1>14. Gathering(r, <<>>, 1)'
  BY <1>10, <1>11 DEF Gathering
<1>15. InOrder(<<>>)
  BY <1>11 DEF InOrder
<1>16. Loop(r, <<>>)'
  BY <1>10, <1>11, <1>12, <1>13, <1>14, <1>15 DEF Loop
<1> QED BY <1>2, <1>8, <1>9, <1>16 DEF PredictionIInv

LEMMA PredictionPreserves ==
  ASSUME ConstellationAssumption, PredictionIInv, PredictionNext
  PROVE  PredictionIInv'
<1>1. SamplesIInv /\ Loop(scan, passes)
  BY DEF PredictionIInv
<1>2. DOMAIN samples = 1..Len(samples)
  BY <1>1, SampleFields
<1>3. scan \in ScanType
  BY <1>1 DEF Loop
<1> DEFINE a == scan.at
<1>4. ASSUME NEW r, NEW q, UNCHANGED samples, scan' = r, passes' = q, Loop(r, q)
      PROVE  PredictionIInv'
  <2>1. Loop(r, q)'
    BY <1>4, LoopIsOfTheSamples
  <2>2. SamplesIInv'
    BY <1>1, <1>4 DEF SamplesIInv
  <2> QED BY <1>4, <2>1, <2>2 DEF PredictionIInv
<1>5. CASE PassStarts
  <2> DEFINE r == [at |-> a + 1, in_pass |-> TRUE, rise |-> samples[a].time, best |-> samples[a].elevation,
                   best_time |-> samples[a].time, range |-> samples[a].range]
  <2>1. /\ a \in 1..Len(samples) /\ Visible(samples[a]) /\ ~ scan.in_pass
        /\ scan' = r /\ UNCHANGED <<samples, passes>>
    BY <1>2, <1>5 DEF PassStarts, Scanning, Current
  <2> HIDE DEF a
  <2>2. Loop(r, passes)
    BY <1>1, <2>1, StartKeepsLoop DEF a
  <2> HIDE DEF r
  <2> QED BY <1>4, <2>1, <2>2
<1>6. CASE PassContinues
  <2> DEFINE e == IF samples[a].elevation > scan.best THEN samples[a].elevation ELSE scan.best
             t == IF samples[a].elevation > scan.best THEN samples[a].time ELSE scan.best_time
             g == IF samples[a].range > scan.range THEN samples[a].range ELSE scan.range
             r == [at |-> a + 1, in_pass |-> TRUE, rise |-> scan.rise, best |-> e, best_time |-> t, range |-> g]
  <2>1. /\ a \in 1..Len(samples) /\ Visible(samples[a]) /\ scan.in_pass
        /\ UNCHANGED <<samples, passes>>
    BY <1>2, <1>6 DEF PassContinues, Scanning, Current
  <2>2. scan' = r
    BY <1>3, <1>6 DEF PassContinues, Scanning, Current, ScanType
  <2>3. Loop(r, passes)
    BY <1>1, <2>1, ContinuingKeepsLoop
  <2> HIDE DEF r
  <2> QED BY <1>4, <2>1, <2>2, <2>3
<1>7. CASE PassEnds
  <2> DEFINE c == [rise_time |-> scan.rise, set_time |-> samples[a].time, max_elevation |-> scan.best,
                   max_elevation_time |-> scan.best_time, max_range |-> scan.range]
             q == IF scan.in_pass THEN Append(passes, c) ELSE passes
             r == [at |-> a + 1, in_pass |-> FALSE, rise |-> scan.rise, best |-> scan.best,
                   best_time |-> scan.best_time, range |-> scan.range]
  <2>1. a \in 1..Len(samples) /\ ~ Visible(samples[a]) /\ UNCHANGED samples
    BY <1>2, <1>7 DEF PassEnds, Scanning, Current
  <2>2. scan' = r
    BY <1>3, <1>7 DEF PassEnds, ScanType
  <2>3. passes' = q
    BY <1>7 DEF PassEnds, Closed, Current
  <2>4. Loop(r, q)
    BY <1>1, <2>1, EndKeepsLoop
  <2> HIDE DEF r, q
  <2> QED BY <1>4, <2>1, <2>2, <2>3, <2>4
<1>8. CASE PredictionReturns
  <2> DEFINE c == [rise_time |-> scan.rise, set_time |-> samples[Len(samples)].time, max_elevation |-> scan.best,
                   max_elevation_time |-> scan.best_time, max_range |-> scan.range]
             q == IF scan.in_pass THEN Append(passes, c) ELSE passes
             r == [at |-> Len(samples) + 2, in_pass |-> FALSE, rise |-> scan.rise, best |-> scan.best,
                   best_time |-> scan.best_time, range |-> scan.range]
  <2>1. scan.at = Len(samples) + 1 /\ UNCHANGED samples
    BY <1>8 DEF PredictionReturns
  <2>2. scan' = r
    BY <1>3, <1>8 DEF PredictionReturns, ScanType
  <2>3. passes' = q
    BY <1>8 DEF PredictionReturns, Closed
  <2>4. Loop(r, q)
    BY <1>1, <2>1, ReturnKeepsLoop
  <2> HIDE DEF r, q
  <2> QED BY <1>4, <2>1, <2>2, <2>3, <2>4
<1> QED BY <1>5, <1>6, <1>7, <1>8, PredictKeepsLoop DEF PredictionNext

LEMMA PredictionInitially ==
  ASSUME ConstellationAssumption, ConstellationInit
  PROVE  PredictionIInv
<1>1. samples = <<>> /\ passes = <<>> /\ scan = NotScanning
  BY DEF ConstellationInit
<1>2. SamplesIInv
  BY <1>1 DEF SamplesIInv, ConstellationAssumption
<1>3. scan \in ScanType /\ scan.at = 0
  BY <1>1 DEF NotScanning, ScanType
<1>4. passes \in Seq(PassType) /\ Len(passes) = 0 /\ Len(samples) = 0
  BY <1>1
<1>5. FoundPasses(passes, 0)
  BY <1>4 DEF FoundPasses
<1>6. InOrder(passes)
  BY <1>4 DEF InOrder
<1> QED BY <1>2, <1>3, <1>4, <1>5, <1>6 DEF PredictionIInv, Loop

LEMMA LoopEndsExact ==
  ASSUME PredictionIInv
  PROVE  PredictionIsExact
<1> SUFFICES ASSUME scan.at = Len(samples) + 2
             PROVE  /\ {passes[n] : n \in DOMAIN passes} = {PassOver(ij[1], ij[2]) : ij \in Stretches}
                    /\ \A n \in 2..Len(passes) : passes[n - 1].set_time < passes[n].rise_time
  BY DEF PredictionIsExact
<1>1. SamplesIInv /\ Loop(scan, passes)
  BY DEF PredictionIInv
<1>2. Len(samples) \in Nat /\ DOMAIN samples = 1..Len(samples) /\ DOMAIN passes = 1..Len(passes)
  BY <1>1, SampleFields, LoopFields
<1>3. FoundPasses(passes, Len(samples) + 2) /\ InOrder(passes)
  BY <1>1 DEF Loop
<1>4. ASSUME NEW n \in 1..Len(passes) PROVE \E ij \in Stretches : passes[n] = PassOver(ij[1], ij[2])
  <2>1. PICK i \in 1..Len(samples), j \in 1..Len(samples) :
               i <= j /\ OnePassOf(i, j) /\ passes[n] = PassOver(i, j)
    BY <1>3 DEF FoundPasses
  <2>2. <<i, j>> \in Stretches
    BY <1>2, <2>1 DEF Stretches
  <2> QED BY <2>1, <2>2
<1>5. ASSUME NEW ij \in Stretches PROVE \E n \in 1..Len(passes) : passes[n] = PassOver(ij[1], ij[2])
  <2> DEFINE i == ij[1]
             j == ij[2]
  <2>1. i \in 1..Len(samples) /\ j \in 1..Len(samples) /\ i <= j /\ OnePassOf(i, j)
    BY <1>2 DEF Stretches
  <2> HIDE DEF i, j
  <2>2. j + 1 < Len(samples) + 2
    BY <1>2, <2>1
  <2>3. \E n \in 1..Len(passes) : passes[n] = PassOver(i, j)
    BY <1>3, <2>1, <2>2 DEF FoundPasses
  <2> QED BY <2>3 DEF i, j
<1>6. {passes[n] : n \in 1..Len(passes)} = {PassOver(ij[1], ij[2]) : ij \in Stretches}
  BY <1>4, <1>5
<1> QED BY <1>2, <1>3, <1>6 DEF InOrder

\* The inductive invariant of the constellation.
ConstellationIInv == BirdsIInv /\ OrbitIInv /\ StatesMatchTheirEpoch /\ PredictionIInv

LEMMA ConstellationInitially == ConstellationInit => ConstellationIInv
<1> USE ConstellationAssumption
<1> SUFFICES ASSUME ConstellationInit PROVE ConstellationIInv
  OBVIOUS
<1>1. OrbitIInv
  BY DEF ConstellationInit, OrbitIInv
<1> QED BY <1>1, PredictionInitially DEF ConstellationInit, ConstellationIInv, BirdsIInv, StatesMatchTheirEpoch

LEMMA ConstellationPreserves == ConstellationIInv /\ [ConstellationNext]_constellationStateVars => ConstellationIInv'
<1> USE ConstellationAssumption
<1> SUFFICES ASSUME ConstellationIInv, [ConstellationNext]_constellationStateVars PROVE ConstellationIInv'
  OBVIOUS
<1>0. BirdsIInv /\ OrbitIInv /\ StatesMatchTheirEpoch /\ PredictionIInv
  BY DEF ConstellationIInv
<1>1. ASSUME UNCHANGED predictionVars PROVE PredictionIInv'
  <2>1. UNCHANGED samples /\ Loop(scan, passes) /\ scan' = scan /\ passes' = passes
    BY <1>0, <1>1 DEF predictionVars, PredictionIInv
  <2>2. Loop(scan, passes)'
    BY <2>1, LoopIsOfTheSamples
  <2> QED BY <1>0, <2>1, <2>2 DEF PredictionIInv, SamplesIInv
<1>2. ASSUME UNCHANGED orbitalVars PROVE BirdsIInv' /\ OrbitIInv' /\ StatesMatchTheirEpoch'
  BY <1>0, <1>2 DEF orbitalVars, BirdsIInv, OrbitIInv, StatesMatchTheirEpoch
<1>3. CASE OrbitalNext /\ UNCHANGED predictionVars
  BY <1>0, <1>1, <1>3, OrbitalPreserves, OrbitIsTyped DEF ConstellationIInv
<1>4. CASE PredictionNext /\ UNCHANGED orbitalVars
  BY <1>0, <1>2, <1>4, PredictionPreserves DEF ConstellationIInv
<1>5. CASE UNCHANGED constellationStateVars
  BY <1>1, <1>2, <1>5 DEF constellationStateVars, ConstellationIInv
<1> QED BY <1>3, <1>4, <1>5 DEF ConstellationNext

\* The states propagate() returns were computed with the constants of the elements
\* they are stamped with, through refreshes that fail for some satellites and through
\* a save and load; and predict_passes() returns the stretches of visible samples,
\* each once and in order, with their highest elevation, when it was first reached,
\* and their greatest range: for any satellites, elements and samples.
THEOREM ConstellationStaysSound == ConstellationSpec => []ConstellationIsSound
<1>1. ConstellationIInv => ConstellationIsSound
  BY LoopEndsExact DEF ConstellationIInv, ConstellationIsSound
<1> QED BY <1>1, ConstellationInitially, ConstellationPreserves, PTL DEF ConstellationSpec

\* The satellites, epochs and samples are known ones and the loop is within them.
LEMMA ConstellationIsTyped == ConstellationIInv => ConstellationTypeOK
<1> SUFFICES ASSUME ConstellationIInv PROVE ConstellationTypeOK
  OBVIOUS
<1>1. OrbitIInv /\ SamplesIInv /\ Loop(scan, passes)
  BY DEF ConstellationIInv, PredictionIInv
<1>2. scan.at \in Nat /\ scan.in_pass \in BOOLEAN /\ scan.at <= Len(samples) + 2
  BY <1>1 DEF Loop, ScanType
<1>3. Len(samples) \in Nat /\ Len(samples) <= MaxSamples /\ MaxSamples \in Nat
  BY <1>1, SampleFields, ConstellationAssumption DEF SamplesIInv
<1>4. scan.at \in 0..(MaxSamples + 2)
  BY <1>2, <1>3
<1> QED BY <1>1, <1>2, <1>4 DEF ConstellationTypeOK, OrbitIInv

============================================================================
