---------------------------- MODULE MCFederation ----------------------------
(***************************************************************************)
(* What a federated station keeps of its peers and as evidence: their      *)
(* trust, the spectrum coordination with them, the log, the provenance     *)
(* chains and the licences it transmits under.  Trust reaches the coordination as one bit per peer (`trusted`  *)
(* there changes at any time); else they share no state, so a behaviour    *)
(* exercises one of them.                                                  *)
(***************************************************************************)
EXTENDS PeerTrust, SpectrumCoordination, BitemporalLog, Licensing, TLC

CONSTANTS a, b, h1, h2, h3, l1, l2

VARIABLE subject  \* the component a behaviour exercises

\* Sound proofs that overlap, meet only thanks to the drift, and miss each
\* other, and one that each check of a proof refuses.
Proof(first, last) ==
  [first_event |-> first, last_event |-> last, first_reception |-> first,
   last_reception |-> last, sample_count |-> 1]
MCProofs ==
  {Proof(f, l) : f \in 0..3, l \in 0..3}
    \cup {[Proof(0, 1) EXCEPT !.first_reception = -1], [Proof(0, 1) EXCEPT !.sample_count = 0],
          [Proof(0, 1) EXCEPT !.last_reception = -1]}

\* Passes that overlap, touch and miss each other, in time and in frequency.
Pass(start, end, low, high) == [start |-> start, end |-> end, low |-> low, high |-> high]
MCStations == {a, b}
MCSchedules ==
  [s \in MCStations |->
     IF s = a THEN {{}, {Pass(0, 2, 0, 2)}, {Pass(2, 4, 1, 3)}}
              ELSE {{}, {Pass(1, 3, 1, 3), Pass(2, 4, 0, 4), Pass(0, 1, 2, 3)}}]

MCHashes == {h1, h2, h3}
MCLinkHashes == {l1, l2}
HashSymmetry == Permutations(MCHashes) \cup Permutations(MCLinkHashes)

\* A licence for now, one for later with more power, a value that is none but has
\* a date, and a licence whose date only serde can parse.
\* The two bands meet at 2, which is a frequency of both; the name of a begins
\* with that of b and a colon.
MCGrants == {[valid_from |-> 0, valid_until |-> 2, max_power |-> 1, readable |-> TRUE, dated |-> TRUE],
             [valid_from |-> 1, valid_until |-> 3, max_power |-> 2, readable |-> TRUE, dated |-> TRUE],
             [valid_from |-> 0, valid_until |-> 3, max_power |-> 2, readable |-> FALSE, dated |-> TRUE],
             [valid_from |-> 0, valid_until |-> 2, max_power |-> 2, readable |-> TRUE, dated |-> FALSE]}
MCNested == [h \in MCStations |-> IF h = b THEN {a} ELSE {}]
MCBands == {"L-band", "S-band"}
MCLowest == [f \in MCBands |-> IF f = "L-band" THEN 1 ELSE 2]
MCHighest == [f \in MCBands |-> IF f = "L-band" THEN 2 ELSE 3]

FederationInit ==
  /\ subject \in {"trust", "spectrum", "log", "provenance", "licences"}
  /\ TrustInit
  /\ SpectrumInit
  /\ LogInit
  /\ ProvenanceInit
  /\ LicensingInit

FederationNext ==
  \/ subject = "trust" /\ TrustNext
     /\ UNCHANGED <<subject, spectrumVars, logVars, provenanceVars, licensingVars>>
  \/ subject = "spectrum" /\ SpectrumNext
     /\ UNCHANGED <<subject, trustVars, logVars, provenanceVars, licensingVars>>
  \/ subject = "log" /\ LogNext
     /\ UNCHANGED <<subject, trustVars, spectrumVars, provenanceVars, licensingVars>>
  \/ subject = "provenance" /\ ProvenanceNext
     /\ UNCHANGED <<subject, trustVars, spectrumVars, logVars, licensingVars>>
  \/ subject = "licences" /\ LicensingNext
     /\ UNCHANGED <<subject, trustVars, spectrumVars, logVars, provenanceVars>>

FederationSpec ==
  FederationInit
  /\ [][FederationNext]_<<subject, trustVars, spectrumVars, logVars, provenanceVars, licensingVars>>

\* The state of each part has its type.
FederationTypeOK == TrustTypeOK /\ SpectrumTypeOK /\ LogTypeOK /\ LicensingTypeOK

\* The records of the federation can be relied on: the log is one line without a
\* fork or a gap, its snapshots extend each other, and a provenance chain verifies
\* exactly when it is rooted.
RecordsAreSound == LogIsOneLine /\ SnapshotsExtendEachOther /\ ChainsAreSound

=============================================================================
