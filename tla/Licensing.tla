----------------------------- MODULE Licensing -----------------------------
(***************************************************************************)
(* Transmission under licences (regulatory/src).  Licences are kept under  *)
(* keys of a holder and a band, by a caller that builds both; one that was *)
(* taken out is a value of its own, which transmit() judges by itself.  A  *)
(* ComplianceChecker takes the store for good: nothing is added or removed *)
(* after that.                                                             *)
(*                                                                         *)
(* The band a licence was issued for is a type in Rust and is not part of  *)
(* what is stored, so a licence is read back as one of the band of its     *)
(* key.  A holder's keys are found by a prefix: Nested gives the holders   *)
(* whose names begin with another's name and a colon.                      *)
(*                                                                         *)
(* What is stored is raw JSON.  It is readable if it deserializes as a     *)
(* licence, and dated if its valid_until is a string in RFC 3339: the      *)
(* first is what get_license() asks, the second is all that the checker's  *)
(* check_license_validity() does, and neither implies the other.           *)
(***************************************************************************)
EXTENDS Integers, FiniteSets

CONSTANTS
  Licensees, Nested,
  FrequencyBands, Lowest, Highest,  \* Band::MIN_FREQUENCY and MAX_FREQUENCY
  Grants,                           \* values a caller may store
  Hertz, PowerLevels,
  MaxLicences,                      \* bound on the keys in use
  MaxLicenceTime

ASSUME LicensingAssumption ==
  /\ MaxLicences \in Nat /\ MaxLicenceTime \in Nat
  /\ \A h \in Licensees : Nested[h] \subseteq Licensees
  /\ \A b \in FrequencyBands : Lowest[b] <= Highest[b]

VARIABLES
  licenses,     \* LicenseStore: the value under each key, if any
  in_hand,      \* the License<B> a caller has taken out, and when
  checking,     \* does a ComplianceChecker own the store?
  sent,         \* the transmission just made
  licence_now

licensingVars == <<licenses, in_hand, checking, sent, licence_now>>

LicenceKeys == Licensees \X FrequencyBands

LicensingInit ==
  /\ licenses = [k \in LicenceKeys |-> {}]
  /\ in_hand = {}
  /\ checking = FALSE
  /\ sent = {}
  /\ licence_now = 0

-----------------------------------------------------------------------------
(* License and Frequency *)

is_valid(l) == licence_now >= l.valid_from /\ licence_now < l.valid_until
power_allowed(l, dbm) == dbm <= l.max_power

\* Frequency::new(): both ends belong to the band
InBand(b, hz) == hz >= Lowest[b] /\ hz <= Highest[b]

-----------------------------------------------------------------------------
(* LicenseStore *)

\* add_license(): whatever was under the key is replaced.  A value that is no
\* licence is stored as well.
AddLicense(k, l) ==
  /\ ~checking
  /\ Cardinality({x \in LicenceKeys : licenses[x] # {}} \cup {k}) <= MaxLicences
  /\ licenses' = [licenses EXCEPT ![k] = {l}]
  /\ sent' = {} /\ UNCHANGED <<in_hand, checking, licence_now>>

RemoveLicense(k) ==
  /\ ~checking
  /\ licenses[k] # {}
  /\ licenses' = [licenses EXCEPT ![k] = {}]
  /\ sent' = {} /\ UNCHANGED <<in_hand, checking, licence_now>>

get_license(k) == {l \in licenses[k] : l.readable}

\* A caller takes a licence out of the store.
TakeLicense(k) ==
  /\ ~checking
  /\ in_hand' = {[key |-> k, license |-> l, since |-> licence_now] : l \in get_license(k)}
  /\ sent' = {} /\ UNCHANGED <<licenses, checking, licence_now>>

\* check_license_validity(): the end only, of any value that has one
check_license_validity(k) == {l.valid_until > licence_now : l \in {v \in licenses[k] : v.dated}}

get_holder_licenses(h) == {k \in LicenceKeys : licenses[k] # {} /\ k[1] \in {h} \cup Nested[h]}

-----------------------------------------------------------------------------
(* transmit() *)

\* The checks made once, when the licence was taken out
AcceptsWhenTaken(t, dbm, coordinated, required) ==
  /\ t.since >= t.license.valid_from /\ t.since < t.license.valid_until
  /\ power_allowed(t.license, dbm)
  /\ required => coordinated

Accepts(t, dbm, coordinated, required) ==
  /\ is_valid(t.license)
  /\ power_allowed(t.license, dbm)
  /\ required => coordinated

\* With a frequency of the licence's band, which is checked when it is made;
\* transmit_no_coordination() and transmit_with_coordination() are the calls
\* with neither and with both of the flags.
Transmit(hz, dbm, coordinated, required) ==
  \E t \in in_hand :
    /\ InBand(t.key[2], hz)
    /\ Accepts(t, dbm, coordinated, required)
    /\ sent = {}
    /\ sent' = {[key |-> t.key, license |-> t.license, hz |-> hz, dbm |-> dbm, at |-> licence_now,
                 coordinated |-> coordinated, required |-> required]}
    /\ UNCHANGED <<licenses, in_hand, checking, licence_now>>

-----------------------------------------------------------------------------
(* ComplianceChecker *)

NewChecker == ~checking /\ checking' = TRUE /\ sent' = {} /\ UNCHANGED <<licenses, in_hand, licence_now>>

\* check_transmit_permission(): the violations it lists
Violations(k, hz, dbm) ==
  {v \in {"MissingLicense", "ExpiredLicense", "PowerExceedsLimit", "FrequencyOutsideBand"} :
     \/ v = "MissingLicense" /\ get_license(k) = {}
     \/ v = "ExpiredLicense" /\ \E l \in get_license(k) : ~is_valid(l)
     \/ v = "PowerExceedsLimit" /\ \E l \in get_license(k) : ~power_allowed(l, dbm)
     \/ v = "FrequencyOutsideBand" /\ ~InBand(k[2], hz)}

\* get_holder_compliance()
ComplianceReport(h) ==
  LET keys == get_holder_licenses(h)
      valid == {k \in keys : TRUE \in check_license_validity(k)}
      expired == {k \in keys : FALSE \in check_license_validity(k)}
  IN  [total |-> Cardinality(keys), valid |-> Cardinality(valid), expired |-> Cardinality(expired),
       compliant |-> keys # {} /\ expired = {} /\ valid # {}]

LicenceTimePasses ==
  /\ licence_now < MaxLicenceTime
  /\ licence_now' = licence_now + 1
  /\ sent' = {}
  /\ UNCHANGED <<licenses, in_hand, checking>>

LicensingNext ==
  \/ \E k \in LicenceKeys, l \in Grants : AddLicense(k, l)
  \/ \E k \in LicenceKeys : RemoveLicense(k)
  \/ \E k \in LicenceKeys : TakeLicense(k)
  \/ \E hz \in Hertz, dbm \in PowerLevels, coordinated, required \in BOOLEAN :
       Transmit(hz, dbm, coordinated, required)
  \/ NewChecker
  \/ LicenceTimePasses

LicensingSpec == LicensingInit /\ [][LicensingNext]_licensingVars

-----------------------------------------------------------------------------
(* What the licences promise *)

LicensingTypeOK ==
  /\ \A k \in LicenceKeys : licenses[k] \subseteq Grants /\ Cardinality(licenses[k]) <= 1
  /\ Cardinality(in_hand) <= 1 /\ Cardinality(sent) <= 1
  /\ checking \in BOOLEAN
  /\ licence_now \in 0..MaxLicenceTime

\* However long ago the licence was taken out, and whatever happened to the store
\* since, it was in force when the transmission was made, which kept within its
\* power and the band it was read as, and was coordinated where that was required.
TransmissionsAreLicensed ==
  \A s \in sent :
    /\ s.license.valid_from <= s.at /\ s.at < s.license.valid_until
    /\ s.dbm <= s.license.max_power
    /\ Lowest[s.key[2]] <= s.hz /\ s.hz <= Highest[s.key[2]]
    /\ s.required => s.coordinated

\* The checker lists no violation exactly when transmit(), given the licence it
\* looked at, would go ahead.  The report of a holder counts every licence that may
\* be used and has a date the report can parse, and a compliant one means that no
\* such licence of the holder has run out.  That what a report counts as valid is a
\* licence, or has begun, is not claimed.
CheckerAgrees ==
  \A k \in LicenceKeys, hz \in Hertz, dbm \in PowerLevels :
    LET allowed == Violations(k, hz, dbm) = {}
        report == ComplianceReport(k[1])
        taken == {[key |-> k, license |-> l, since |-> licence_now] : l \in get_license(k)}
    IN  /\ allowed <=> InBand(k[2], hz) /\ \E t \in taken : Accepts(t, dbm, FALSE, FALSE)
        /\ allowed /\ (\A t \in taken : t.license.dated) => report.valid > 0
        /\ report.compliant => \A t \in taken : t.license.dated => t.license.valid_until > licence_now

\* Transmissions are licensed, and what the checker permits is what would be sent.
LicensingIsSound == TransmissionsAreLicensed /\ CheckerAgrees

============================================================================
