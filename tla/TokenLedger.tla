----------------------------- MODULE TokenLedger -----------------------------
(***************************************************************************)
(* compliance/token_ledger.py: the index of token facts.                   *)
(*                                                                         *)
(* The class is a projection of the write-ahead log: each mutating method  *)
(* appends facts to the log and feeds each of them to _index.  `Index` is  *)
(* _index, on a record of the four sets the class holds; the operators     *)
(* named after methods return the ledger after the method.                 *)
(***************************************************************************)
EXTENDS Naturals, FiniteSets

CONSTANT Subjects       \* user e-mails, and the id of the demo client

-----------------------------------------------------------------------------
(* Facts: the four event types of the log that the ledger reads.           *)

TokenRevoked(jti)         == [event |-> "token_revoked", jti |-> jti]
RefreshTokenRedeemed(jti) == [event |-> "refresh_token_redeemed", jti |-> jti]
FamilyRevoked(family)     == [event |-> "token_family_revoked", family |-> family]
SessionStarted(s, family) ==
    [event |-> "session_started", subject |-> s, family |-> family]

-----------------------------------------------------------------------------
(* The index.                                                              *)

EmptyLedger ==
    [ revokedJtis         |-> {},
      redeemedRefreshJtis |-> {},
      revokedFamilies     |-> {},
      familiesBySubject   |-> [s \in Subjects |-> {}] ]

LedgerType(jtis, families) ==
    [ revokedJtis         : SUBSET jtis,
      redeemedRefreshJtis : SUBSET jtis,
      revokedFamilies     : SUBSET families,
      familiesBySubject   : [Subjects -> SUBSET families] ]

Index(ledger, fact) ==
    CASE fact.event = "token_family_revoked" ->
           [ledger EXCEPT !.revokedFamilies = @ \cup {fact.family}]
      [] fact.event = "session_started" ->
           [ledger EXCEPT !.familiesBySubject[fact.subject] = @ \cup {fact.family}]
      [] fact.event = "token_revoked" ->
           [ledger EXCEPT !.revokedJtis = @ \cup {fact.jti}]
      [] fact.event = "refresh_token_redeemed" ->
           [ledger EXCEPT !.redeemedRefreshJtis = @ \cup {fact.jti}]
      [] OTHER -> ledger

-----------------------------------------------------------------------------
(* Queries.                                                                *)

IsRevoked(ledger, jti)          == jti \in ledger.revokedJtis
IsFamilyRevoked(ledger, family) == family \in ledger.revokedFamilies
IsRedeemed(ledger, jti)         == jti \in ledger.redeemedRefreshJtis

-----------------------------------------------------------------------------
(* Methods, as the ledger they leave behind.                               *)

Revoke(ledger, jti)          == Index(ledger, TokenRevoked(jti))
RevokeFamily(ledger, family) == Index(ledger, FamilyRevoked(family))
RecordSessionStarted(ledger, s, family) ==
    Index(ledger, SessionStarted(s, family))

(* Mutant: only the first session found is revoked.                        *)
RevokeAllStopsAtFirst(ledger, s) ==
    IF ledger.familiesBySubject[s] = {} THEN ledger
    ELSE RevokeFamily(ledger, CHOOSE f \in ledger.familiesBySubject[s] : TRUE)

(* One family_revoked fact per session on record for the subject.          *)
RevokeAllSessionsForSubject(ledger, s) ==
    [ledger EXCEPT !.revokedFamilies = @ \cup ledger.familiesBySubject[s]]

(* Mutant: the family's own revocation is not looked at.                   *)
RedemptionIgnoresFamily(ledger, jti, family) ==
    IF IsRevoked(ledger, jti) THEN "refused"
    ELSE IF IsRedeemed(ledger, jti) THEN "reused"
    ELSE "redeemed"

(***************************************************************************)
(* redeem_refresh_token answers one of three things; only "redeemed" is    *)
(* True.  "reused" closes the session as a side effect.                    *)
(***************************************************************************)
RedemptionOutcome(ledger, jti, family) ==
    IF IsRevoked(ledger, jti) \/ IsFamilyRevoked(ledger, family) THEN "refused"
    ELSE IF IsRedeemed(ledger, jti) THEN "reused"
    ELSE "redeemed"

(* Mutant: a reused token is revoked, its family is not.                   *)
ReuseRevokesOneToken(ledger, jti, family) ==
    LET outcome == RedemptionOutcome(ledger, jti, family)
    IN  CASE outcome = "refused"  -> ledger
          [] outcome = "reused"   -> Revoke(ledger, jti)
          [] outcome = "redeemed" ->
               Index(ledger, RefreshTokenRedeemed(jti))

RedeemRefreshToken(ledger, jti, family) ==
    LET outcome == RedemptionOutcome(ledger, jti, family)
    IN  CASE outcome = "refused"  -> ledger
          [] outcome = "reused"   -> RevokeFamily(ledger, family)
          [] outcome = "redeemed" ->
               Index(ledger, RefreshTokenRedeemed(jti))
=============================================================================
