------------------------------- MODULE Sessions -------------------------------
(***************************************************************************)
(* Login sessions: the bearer tokens of api/security.py, the handlers of   *)
(* api/routes/auth.py that mint, rotate, spend and revoke them, and the    *)
(* TokenLedger those handlers write to.                                    *)
(*                                                                         *)
(* Login, rotation and logout do not await between reading the ledger and  *)
(* writing it, so on the one event loop of the process each is one step.   *)
(* Accepting an invite and resetting a password await the repository in    *)
(* between (auth.py:338-352, 535-547): the one of memory does not suspend  *)
(* them, so here they are one step too; the steps over SQL are those of    *)
(* module Accounts.                                                        *)
(* Which account may log in, and who may remove whom, is decided by the    *)
(* user directory (module Accounts); here a login or a removal of any      *)
(* subject may happen at any time.                                         *)
(*                                                                         *)
(* A token is a record of the claims the code reads back.  A uuid4 is a    *)
(* number taken from a counter: fresh, and never reused.  `tokens` holds   *)
(* the tokens that decode_token still accepts: signed, and not expired.    *)
(***************************************************************************)
EXTENDS TokenLedger

CONSTANTS Tenants,
          SinglePurposeTypes,   \* the kinds of token that open no session
          MaxTokens,      \* bound: tokens minted in a behaviour
          MaxSessions     \* bound: sessions opened in a behaviour

(* POST /verify-email asks the ledger nothing, so an e-mail token behaves *)
(* like an invite nobody accepts; an instance may leave that kind out.     *)
ASSUME TypesAssumption ==
    SinglePurposeTypes \subseteq {"invite", "password_reset", "email_verification"}

ASSUME BoundsAssumption == MaxTokens \in Nat /\ MaxSessions \in Nat

VARIABLES
    tokens,         \* the unexpired tokens, in the hands of their clients
    ledger,         \* app.state.token_ledger
    nextJti,        \* supply of uuids for jti
    nextFamily      \* supply of uuids for family_id

svars == <<tokens, ledger, nextJti, nextFamily>>

Jtis     == 1..MaxTokens
Families == 1..MaxSessions
OwnFamily == 0      \* a family_id of its own, shared with no other token

TokenTypes == {"access", "refresh"} \cup SinglePurposeTypes

Token(jti, type, s, t, family) ==
    [jti |-> jti, type |-> type, sub |-> s, tenant |-> t, family |-> family]

TokenSet == [jti : Jtis, type : TokenTypes, sub : Subjects,
             tenant : Tenants, family : Families \cup {OwnFamily}]

TypeOK ==
    /\ tokens \subseteq TokenSet
    /\ ledger \in LedgerType(Jtis, Families)
    /\ nextJti \in Nat \ {0}
    /\ nextFamily \in Nat \ {0}

-----------------------------------------------------------------------------
(* What the clients and the routes can tell about a token.                 *)

TokensOf(family) == {tok \in tokens : tok.family = family}

IsSessionToken(tok) == tok.type \in {"access", "refresh"}

(* _decode_bearer_token: the token is let through as a bearer token.       *)
Admitted(tok) ==
    /\ tok.type = "access"
    /\ ~ IsRevoked(ledger, tok.jti)
    /\ ~ IsFamilyRevoked(ledger, tok.family)

(* POST /refresh would rotate this token.                                  *)
Rotatable(tok) ==
    /\ tok.type = "refresh"
    /\ RedemptionOutcome(ledger, tok.jti, tok.family) = "redeemed"

-----------------------------------------------------------------------------
Init ==
    /\ tokens = {}
    /\ ledger = EmptyLedger
    /\ nextJti = 1
    /\ nextFamily = 1

(* create_token for a token that belongs to no session.                    *)
MintSinglePurpose(type, s, t) ==
    /\ nextJti <= MaxTokens
    /\ tokens' = tokens \cup {Token(nextJti, type, s, t, OwnFamily)}
    /\ nextJti' = nextJti + 1

(* The two create_token calls at the end of _issue_token_pair.             *)
MintPair(s, t, family) ==
    /\ nextJti + 1 <= MaxTokens
    /\ tokens' = tokens \cup {Token(nextJti, "access", s, t, family),
                              Token(nextJti + 1, "refresh", s, t, family)}
    /\ nextJti' = nextJti + 2

(* Mutant: the session starts without being put on record.                 *)
SessionNotRecorded(s, t, ledgerSoFar) ==
    /\ nextFamily <= MaxSessions
    /\ nextFamily' = nextFamily + 1
    /\ ledger' = ledgerSoFar
    /\ MintPair(s, t, nextFamily)

(* Mutant: every session gets the same family_id, a default evaluated once. *)
SharedFamilyId(s, t, ledgerSoFar) ==
    /\ ledger' = RecordSessionStarted(ledgerSoFar, s, nextFamily)
    /\ MintPair(s, t, nextFamily)
    /\ UNCHANGED nextFamily

(* _issue_token_pair with no family_id, on the ledger the handler has got  *)
(* so far: a new session, on record before its tokens exist.               *)
StartSession(s, t, ledgerSoFar) ==
    /\ nextFamily <= MaxSessions
    /\ nextFamily' = nextFamily + 1
    /\ ledger' = RecordSessionStarted(ledgerSoFar, s, nextFamily)
    /\ MintPair(s, t, nextFamily)

(* POST /token once the credentials are accepted, POST /register.          *)
Login(s, t) == StartSession(s, t, ledger)

(* POST /invite, POST /request-password-reset, the e-mail token of         *)
(* POST /register.                                                         *)
IssueSinglePurpose(type, s, t) ==
    /\ MintSinglePurpose(type, s, t)
    /\ UNCHANGED <<ledger, nextFamily>>

(* Mutant: rotation without recording the redemption.                      *)
RotationNotRecorded(tok) ==
    /\ tok.type = "refresh"
    /\ RedemptionOutcome(ledger, tok.jti, tok.family) = "redeemed"
    /\ MintPair(tok.sub, tok.tenant, tok.family)
    /\ UNCHANGED <<ledger, nextFamily>>

(* POST /refresh, by what the ledger answers.                              *)
RefreshRotates(tok) ==
    /\ tok.type = "refresh"
    /\ RedemptionOutcome(ledger, tok.jti, tok.family) = "redeemed"
    /\ ledger' = RedeemRefreshToken(ledger, tok.jti, tok.family)
    /\ MintPair(tok.sub, tok.tenant, tok.family)
    /\ UNCHANGED nextFamily

RefreshRejected(tok) ==
    /\ tok.type = "refresh"
    /\ RedemptionOutcome(ledger, tok.jti, tok.family) # "redeemed"
    /\ ledger' = RedeemRefreshToken(ledger, tok.jti, tok.family)
    /\ UNCHANGED <<tokens, nextJti, nextFamily>>

(* POST /revoke: any token, of whatever type.                              *)
RevokeToken(tok) ==
    /\ ledger' = Revoke(ledger, tok.jti)
    /\ UNCHANGED <<tokens, nextJti, nextFamily>>

(* The ledger calls of POST /accept-invite and what follows them.          *)
AcceptInvite(tok) ==
    /\ tok.type = "invite"
    /\ ~ IsRevoked(ledger, tok.jti)
    /\ StartSession(tok.sub, tok.tenant, Revoke(ledger, tok.jti))

(* The ledger calls of POST /reset-password.                               *)
ResetPassword(tok) ==
    /\ tok.type = "password_reset"
    /\ ~ IsRevoked(ledger, tok.jti)
    /\ ledger' = RevokeAllSessionsForSubject(Revoke(ledger, tok.jti), tok.sub)
    /\ UNCHANGED <<tokens, nextJti, nextFamily>>

(* The ledger call of DELETE /members/{email}.                             *)
RemoveMember(s) ==
    /\ ledger' = RevokeAllSessionsForSubject(ledger, s)
    /\ UNCHANGED <<tokens, nextJti, nextFamily>>

(* The token's exp passes: decode_token rejects it from now on.            *)
Expire(tok) ==
    /\ tokens' = tokens \ {tok}
    /\ UNCHANGED <<ledger, nextJti, nextFamily>>

Next ==
    \/ \E s \in Subjects, t \in Tenants : Login(s, t)
    \/ \E s \in Subjects, t \in Tenants, type \in SinglePurposeTypes :
         IssueSinglePurpose(type, s, t)
    \/ \E tok \in tokens : RefreshRotates(tok)
    \/ \E tok \in tokens : RefreshRejected(tok)
    \/ \E tok \in tokens : RevokeToken(tok)
    \/ \E tok \in tokens : AcceptInvite(tok)
    \/ \E tok \in tokens : ResetPassword(tok)
    \/ \E tok \in tokens : Expire(tok)
    \/ \E s \in Subjects : RemoveMember(s)

Spec == Init /\ [][Next]_svars

-----------------------------------------------------------------------------
(* Safety.                                                                 *)

(***************************************************************************)
(* Every token of a session can be reached from its subject: the session   *)
(* is on record under the token's own subject, and under nobody else.      *)
(* revoke_all_sessions_for_subject relies on it, through handlers that     *)
(* record (login) and handlers that do not (refresh).                      *)
(***************************************************************************)
SessionsAreTraceable ==
    \A tok \in tokens : IsSessionToken(tok) =>
        \A s \in Subjects :
            tok.family \in ledger.familiesBySubject[s] <=> s = tok.sub

(***************************************************************************)
(* Single-use rotation: however refreshes, revocations, replays and        *)
(* expiries follow each other, a session has at most one refresh token     *)
(* that has not been redeemed, so no two holders can both keep it alive.   *)
(***************************************************************************)
OneUnspentRefreshPerSession ==
    \A a, b \in tokens :
        /\ a.type = "refresh" /\ ~ IsRedeemed(ledger, a.jti)
        /\ b.type = "refresh" /\ ~ IsRedeemed(ledger, b.jti)
        /\ a.family = b.family
        => a = b

(***************************************************************************)
(* A closed session stays closed, and no token is minted into it: "every   *)
(* token, past and future, that shares" the family is dead                 *)
(* (token_ledger.py:22-24), through every later rotation or replay.        *)
(***************************************************************************)
ClosedSessionsStayClosed ==
    [][\A f \in ledger.revokedFamilies :
          /\ f \in ledger'.revokedFamilies
          /\ TokensOf(f)' \subseteq TokensOf(f)]_svars

(***************************************************************************)
(* A password reset and a removal end every session of the subject: right  *)
(* after the step no token of theirs is admitted, and none can be rotated  *)
(* into one that would be.                                                 *)
(***************************************************************************)
EndsAllSessions(s) ==
    \/ RemoveMember(s)
    \/ \E tok \in tokens : tok.sub = s /\ ResetPassword(tok)

CascadeEndsEverySession ==
    [][\A s \in Subjects : EndsAllSessions(s) =>
          \A tok \in tokens' : tok.sub = s => ~ (Admitted(tok) \/ Rotatable(tok))']_svars

(***************************************************************************)
(* A spent refresh token that comes back ends the session: the sibling     *)
(* access token dies with it.  The ledger answers "refused" first when the *)
(* token itself was revoked, so this is about the others.                  *)
(***************************************************************************)
ReuseEndsTheSession ==
    [][\A tok \in tokens :
          /\ RefreshRejected(tok)
          /\ IsRedeemed(ledger, tok.jti)
          /\ ~ IsRevoked(ledger, tok.jti)
          => \A other \in TokensOf(tok.family)' :
                 ~ (Admitted(other) \/ Rotatable(other))']_svars

(***************************************************************************)
(* The sessions implement the abstract session authority.  The live        *)
(* credential of a session is its rotatable refresh token.                 *)
(***************************************************************************)
LiveCredentials(f) ==
    {tok.jti : tok \in {r \in TokensOf(f) : Rotatable(r)}}

Authority == INSTANCE SessionAuthority WITH
    Holders    <- Subjects,
    SessionIds <- Families,
    sessionsOf <- ledger.familiesBySubject,
    closed     <- ledger.revokedFamilies,
    live       <- [f \in Families |-> LiveCredentials(f)],
    issued     <- nextJti - 1

ImplementsSessionAuthority == Authority!Spec
=============================================================================
