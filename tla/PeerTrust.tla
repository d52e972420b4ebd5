------------------------------ MODULE PeerTrust ------------------------------
(***************************************************************************)
(* The peers of a federated station and the trust they have earned,        *)
(* federation/src/peer.rs, and the cross-verification of attestations that *)
(* moves it, federation/src/verification.rs.                               *)
(*                                                                         *)
(* A trust score of 1.0 is 320 units here, so that what one of the 32      *)
(* bytes of a digest adds to it (0.1 / 32) is one unit.  The code computes *)
(* in f64, where 0.1 is not exact: a score that on paper is a threshold    *)
(* lies an ulp below it on some paths and not on others (0.5 + 0.1 + 0.1 + *)
(* 0.1 < 0.8, but 1.0 - 0.2 >= 0.8), so at a threshold the status is       *)
(* either of the two.                                                      *)
(***************************************************************************)
EXTENDS Integers, Sequences, FiniteSets

CONSTANTS
  Peers,
  Proofs,                    \* BitemporalProofs that come up
  MAX_ATTESTATION_HISTORY,
  MAX_PASS_DURATION,         \* MAX_PASS_DURATION_SECS
  MAX_BITEMPORAL_DRIFT,      \* MAX_BITEMPORAL_DRIFT_MS
  MaxUpdates                 \* bound on the verdicts on one peer

ASSUME TrustAssumption ==
  /\ Proofs \subseteq [first_event : Int, last_event : Int, first_reception : Int,
                       last_reception : Int, sample_count : Nat]
  /\ MAX_ATTESTATION_HISTORY \in Nat \ {0}
  /\ MAX_PASS_DURATION \in Nat
  /\ MAX_BITEMPORAL_DRIFT \in Nat
  /\ MaxUpdates \in Nat

VARIABLES
  peers,    \* PeerManager.peers: score, status, history and total of the known
  recent,   \* history variable: up to three verdicts on a peer, latest first
  earned    \* history variable: verifications a peer passed since it was added

trustVars == <<peers, recent, earned>>

Unknown == [score |-> -1]

Known(p) == peers[p] # Unknown

PeerStatus == {"Trusted", "Untrusted", "Suspicious", "Blacklisted"}

TrustInit ==
  /\ peers = [p \in Peers |-> Unknown]
  /\ recent = [p \in Peers |-> <<>>]
  /\ earned = [p \in Peers |-> 0]

-----------------------------------------------------------------------------
(* AttestationVerification *)

\* proof_internally_consistent()
InternallyConsistent(proof) ==
  /\ proof.last_event >= proof.first_event
  /\ proof.last_reception >= proof.first_reception
  /\ proof.first_reception >= proof.first_event
  /\ proof.last_event - proof.first_event <= MAX_PASS_DURATION
  /\ proof.sample_count >= 1

\* The event windows overlap, give or take the drift.
WindowsMeet(peer, local) ==
  /\ peer.last_event + MAX_BITEMPORAL_DRIFT >= local.first_event
  /\ local.last_event >= peer.first_event - MAX_BITEMPORAL_DRIFT

\* check_bitemporal_consistency(), with both proofs there.
CheckBitemporalConsistency(peer, local) ==
  InternallyConsistent(peer) /\ WindowsMeet(peer, local)

\* new(): `matching` bytes of the 32 are the same in both digests; more than 95
\* percent have to be.  Without a capture of our own the match rate is 0.0, and
\* without a proof of our own only the peer's is looked at.
Verdicts ==
  {v \in [passed : BOOLEAN, matching : {0, 30, 31, 32}] :
     \E consistent \in BOOLEAN :
       /\ v.passed = (20 * v.matching > 19 * 32 /\ consistent)
       /\ \/ v.matching = 0
          \/ \E peer, local \in Proofs :
               consistent \in {CheckBitemporalConsistency(peer, local), InternallyConsistent(peer)}}

-----------------------------------------------------------------------------
(* PeerTrustScore *)

UpdatedSwapped(score, verdict) ==
  IF verdict.passed
  THEN IF score + 64 > 320 THEN 320 ELSE score + 64
  ELSE IF score < verdict.matching THEN 0 ELSE score - verdict.matching

\* update(): up by a tenth of the match rate, down by 0.2, within 0.0 .. 1.0.
Updated(score, verdict) ==
  IF verdict.passed
  THEN IF score + verdict.matching > 320 THEN 320 ELSE score + verdict.matching
  ELSE IF score < 64 THEN 0 ELSE score - 64

\* status(): `>=` at 0.8, 0.5 and 0.2.
StatusOf(score) ==
  (IF score >= 256 THEN {"Trusted"} ELSE {})
    \cup (IF 160 <= score /\ score <= 256 THEN {"Untrusted"} ELSE {})
    \cup (IF 64 <= score /\ score <= 160 THEN {"Suspicious"} ELSE {})
    \cup (IF score <= 64 THEN {"Blacklisted"} ELSE {})

-----------------------------------------------------------------------------
(* FederationPeer, PeerManager *)

\* new(): a score of 0.5, and Untrusted by assignment.
NewPeer == [score |-> 160, status |-> "Untrusted", history |-> <<>>, total |-> 0]

\* add_peer(): replaces the peer if the station already knows it.
AddPeer(p) ==
  /\ peers' = [peers EXCEPT ![p] = NewPeer]
  /\ recent' = [recent EXCEPT ![p] = <<>>]
  /\ earned' = [earned EXCEPT ![p] = 0]

RemovePeer(p) ==
  /\ Known(p)
  /\ peers' = [peers EXCEPT ![p] = Unknown]
  /\ recent' = [recent EXCEPT ![p] = <<>>]
  /\ earned' = [earned EXCEPT ![p] = 0]

\* The history variables: what a verdict adds to them.
Observe(p, verdict) ==
  /\ earned' = [earned EXCEPT ![p] = IF verdict.passed THEN @ + 1 ELSE @]
  /\ recent' = [recent EXCEPT ![p] =
       LET all == <<verdict.passed>> \o @ IN
       IF Len(all) > 3 THEN SubSeq(all, 1, 3) ELSE all]

RememberedLate(history, passed) ==
  LET all == Append(history, passed) IN
  IF Len(history) > MAX_ATTESTATION_HISTORY THEN Tail(all) ELSE all

\* The bounded history: the oldest record goes when it is full.
Remembered(history, passed) ==
  LET all == Append(history, passed) IN
  IF Len(history) >= MAX_ATTESTATION_HISTORY THEN Tail(all) ELSE all

\* update_peer_from_verification(), add_attestation()
AddAttestation(p, verdict) ==
  /\ Known(p)
  /\ peers[p].total < MaxUpdates
  /\ \E status \in StatusOf(Updated(peers[p].score, verdict)) :
       peers' = [peers EXCEPT ![p] =
         [score |-> Updated(@.score, verdict), status |-> status,
          history |-> Remembered(@.history, verdict.passed), total |-> @.total + 1]]
  /\ Observe(p, verdict)

\* update_trust(): a verdict that leaves no record.
UpdateTrust(p, verdict) ==
  /\ Known(p)
  /\ earned[p] < MaxUpdates
  /\ \E status \in StatusOf(Updated(peers[p].score, verdict)) :
       peers' = [peers EXCEPT ![p].score = Updated(@, verdict), ![p].status = status]
  /\ Observe(p, verdict)

TrustNext ==
  \E p \in Peers :
    \/ AddPeer(p)
    \/ RemovePeer(p)
    \/ \E verdict \in Verdicts : AddAttestation(p, verdict) \/ UpdateTrust(p, verdict)

TrustSpec == TrustInit /\ [][TrustNext]_trustVars

-----------------------------------------------------------------------------
(* Properties *)

IsTrusted(p) == Known(p) /\ peers[p].status = "Trusted"

\* Every field of a peer has its type, the score stays between 0.0 and 1.0 and
\* the history within its bound.
TrustTypeOK ==
  \A p \in Peers : Known(p) =>
    /\ peers[p].score \in 0..320
    /\ peers[p].status \in PeerStatus
    /\ Len(peers[p].history) <= MAX_ATTESTATION_HISTORY

\* Trust is earned and lost by evidence alone: no peer is trusted before it has
\* passed three verifications since it was added, in whatever order failures,
\* recordless verdicts and re-additions come.
TrustIsEarned == \A p \in Peers : IsTrusted(p) => earned[p] >= 3

\* Two failures among the last three verdicts end the trust in any peer, even in
\* one whose score was at its ceiling, and whatever the rounding at a threshold.
FailuresEndTrust ==
  \A p \in Peers :
    Cardinality({i \in DOMAIN recent[p] : ~ recent[p][i]}) >= 2 => ~ IsTrusted(p)

\* Two stations that cross-check their sound proofs of one pass come to the same
\* answer: neither trusts the other on evidence the other would reject.
VerificationIsMutual ==
  \A p, q \in Proofs :
    InternallyConsistent(p) /\ InternallyConsistent(q)
    => (CheckBitemporalConsistency(p, q) <=> CheckBitemporalConsistency(q, p))

\* Trust follows the evidence in both directions, and the evidence is judged
\* alike by both stations.
TrustFollowsEvidence == TrustIsEarned /\ FailuresEndTrust /\ VerificationIsMutual

==============================================================================
