---------------------------- MODULE ConsentLedger ----------------------------
(***************************************************************************)
(* compliance/consent.py: the index of disclaimer acceptances, tenant ->   *)
(* most recent acceptance.  Like TokenLedger a projection of the log:      *)
(* IndexConsent is ConsentLedger._index.                                   *)
(*                                                                         *)
(* A disclaimer version is a number: the text only moves forward.  The     *)
(* subject who accepted and the reason of a revocation are left out.       *)
(***************************************************************************)
EXTENDS Integers

CONSTANTS ConsentTenants,
          MaxVersion          \* bound: disclaimer versions ever deployed

ASSUME VersionBound == MaxVersion \in Nat \ {0}

Versions == 1..MaxVersion

DisclaimerAccepted(tenant, version) ==
    [event |-> "legal_disclaimer_accepted", tenant |-> tenant, version |-> version]
DisclaimerRevoked(tenant) ==
    [event |-> "legal_disclaimer_revoked", tenant |-> tenant]

ConsentFacts ==
    {DisclaimerAccepted(t, v) : t \in ConsentTenants, v \in Versions}
        \cup {DisclaimerRevoked(t) : t \in ConsentTenants}

-----------------------------------------------------------------------------
NoRecord == [version |-> 0, walSequence |-> 0]

(* Mutant: the record points at the entry after its own.                   *)
RecordOfSuccessor(version, sequence) ==
    [version |-> version, walSequence |-> sequence + 1]

ConsentRecord(version, sequence) == [version |-> version, walSequence |-> sequence]

NoConsents == [t \in ConsentTenants |-> NoRecord]

ConsentType == [ConsentTenants -> [version : 0..MaxVersion, walSequence : Nat]]

(* Mutant: revocations are logged and never indexed.                       *)
RevocationsNotIndexed(consents, entry) ==
    IF entry.fact.event = "legal_disclaimer_accepted"
      THEN [consents EXCEPT ![entry.fact.tenant] =
               ConsentRecord(entry.fact.version, entry.sequence)]
      ELSE consents

IndexConsent(consents, entry) ==
    CASE entry.fact.event = "legal_disclaimer_revoked" ->
           [consents EXCEPT ![entry.fact.tenant] = NoRecord]
      [] entry.fact.event = "legal_disclaimer_accepted" ->
           [consents EXCEPT ![entry.fact.tenant] =
               ConsentRecord(entry.fact.version, entry.sequence)]
      [] OTHER -> consents

HasAcceptedCurrentDisclaimer(consents, tenant, current) ==
    consents[tenant] # NoRecord /\ consents[tenant].version = current
=============================================================================
