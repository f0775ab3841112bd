---------------------------- MODULE Sessions_proofs ----------------------------
(***************************************************************************)
(* Proofs about Sessions, for every set of subjects and tenants and every  *)
(* bound on tokens and sessions.                                           *)
(***************************************************************************)
EXTENDS Sessions, TLAPS

(***************************************************************************)
(* The inductive invariant.  Freshness is what carries it: no token, no    *)
(* fact of the ledger mentions a jti or a family that is still to come.    *)
(***************************************************************************)
TokensAreKnown ==
    \A tok \in tokens :
        /\ tok.jti < nextJti
        /\ tok.family < nextFamily
        /\ IsSessionToken(tok) => tok.family # OwnFamily

LedgerIsKnown ==
    /\ \A j \in ledger.revokedJtis \cup ledger.redeemedRefreshJtis : j < nextJti
    /\ \A f \in ledger.revokedFamilies : f < nextFamily
    /\ \A s \in Subjects : \A f \in ledger.familiesBySubject[s] : f < nextFamily

JtisAreUnique ==
    \A a, b \in tokens : a.jti = b.jti => a = b

IInv ==
    /\ TypeOK
    /\ TokensAreKnown
    /\ LedgerIsKnown
    /\ JtisAreUnique
    /\ SessionsAreTraceable
    /\ OneUnspentRefreshPerSession

-----------------------------------------------------------------------------
(* What the methods of the ledger do to its four sets.                     *)

(***************************************************************************)
(* revoke adds the one jti and touches nothing else.                       *)
(***************************************************************************)
LEMMA RevokeEffect ==
    ASSUME NEW L, NEW j
    PROVE  Revoke(L, j) = [L EXCEPT !.revokedJtis = L.revokedJtis \cup {j}]
BY DEF Revoke, Index, TokenRevoked

(***************************************************************************)
(* revoke_family closes the one session and touches nothing else.          *)
(***************************************************************************)
LEMMA RevokeFamilyEffect ==
    ASSUME NEW L, NEW f
    PROVE  RevokeFamily(L, f) = [L EXCEPT !.revokedFamilies = L.revokedFamilies \cup {f}]
BY DEF RevokeFamily, Index, FamilyRevoked

(***************************************************************************)
(* record_session_started files the session under its subject only.        *)
(***************************************************************************)
LEMMA RecordSessionStartedEffect ==
    ASSUME NEW L, NEW s, NEW f
    PROVE  RecordSessionStarted(L, s, f) =
             [L EXCEPT !.familiesBySubject[s] = L.familiesBySubject[s] \cup {f}]
BY DEF RecordSessionStarted, Index, SessionStarted

(***************************************************************************)
(* redeem_refresh_token, by its three answers.                             *)
(***************************************************************************)
LEMMA RedeemEffect ==
    ASSUME NEW L, NEW j, NEW f
    PROVE  /\ RedemptionOutcome(L, j, f) \in {"refused", "reused", "redeemed"}
           /\ RedemptionOutcome(L, j, f) = "refused" => RedeemRefreshToken(L, j, f) = L
           /\ RedemptionOutcome(L, j, f) = "reused" =>
                RedeemRefreshToken(L, j, f) = RevokeFamily(L, f)
           /\ RedemptionOutcome(L, j, f) = "redeemed" =>
                RedeemRefreshToken(L, j, f) =
                  [L EXCEPT !.redeemedRefreshJtis = L.redeemedRefreshJtis \cup {j}]
<1>1. Index(L, RefreshTokenRedeemed(j)) =
        [L EXCEPT !.redeemedRefreshJtis = L.redeemedRefreshJtis \cup {j}]
  BY DEF Index, RefreshTokenRedeemed
<1>2. RedemptionOutcome(L, j, f) \in {"refused", "reused", "redeemed"}
  BY DEF RedemptionOutcome
<1>3. QED
  BY <1>1, <1>2 DEF RedeemRefreshToken

-----------------------------------------------------------------------------
(* The steps, by what they do to tokens and ledger.                        *)

(***************************************************************************)
(* Revocations only mark: tokens and sessions on record stay as they are.  *)
(***************************************************************************)
LEMMA MarkingPreservesIInv ==
    ASSUME IInv,
           ledger' \in LedgerType(Jtis, Families),
           ledger'.familiesBySubject = ledger.familiesBySubject,
           ledger'.redeemedRefreshJtis = ledger.redeemedRefreshJtis,
           \A j \in ledger'.revokedJtis : j < nextJti,
           \A f \in ledger'.revokedFamilies : f < nextFamily,
           UNCHANGED <<tokens, nextJti, nextFamily>>
    PROVE  IInv'
<1>1. TypeOK'
  BY DEF IInv, TypeOK, LedgerType, Jtis, Families
<1>2. TokensAreKnown' /\ JtisAreUnique'
  BY DEF IInv, TokensAreKnown, JtisAreUnique, IsSessionToken
<1>3. LedgerIsKnown'
  BY DEF IInv, LedgerIsKnown
<1>4. SessionsAreTraceable'
  BY DEF IInv, SessionsAreTraceable, IsSessionToken
<1>5. OneUnspentRefreshPerSession'
  BY DEF IInv, OneUnspentRefreshPerSession, IsRedeemed
<1>6. QED
  BY <1>1, <1>2, <1>3, <1>4, <1>5 DEF IInv

(***************************************************************************)
(* A new session, started on a ledger that may hold one more revoked jti.  *)
(***************************************************************************)
LEMMA StartSessionPreservesIInv ==
    ASSUME IInv, BoundsAssumption,
           NEW s \in Subjects, NEW t \in Tenants, NEW L,
           L \in LedgerType(Jtis, Families),
           L.familiesBySubject = ledger.familiesBySubject,
           L.redeemedRefreshJtis = ledger.redeemedRefreshJtis,
           L.revokedFamilies = ledger.revokedFamilies,
           \A j \in L.revokedJtis : j < nextJti,
           StartSession(s, t, L)
    PROVE  IInv'
<1> DEFINE a == Token(nextJti, "access", s, t, nextFamily)
           r == Token(nextJti + 1, "refresh", s, t, nextFamily)
<1>1. /\ nextJti \in Nat \ {0} /\ nextFamily \in Nat \ {0}
      /\ nextJti + 1 <= MaxTokens /\ nextFamily <= MaxSessions
      /\ tokens' = tokens \cup {a, r}
      /\ nextJti' = nextJti + 2 /\ nextFamily' = nextFamily + 1
  BY DEF IInv, TypeOK, StartSession, MintPair
<1>2. /\ ledger' = [L EXCEPT !.familiesBySubject[s] = L.familiesBySubject[s] \cup {nextFamily}]
      /\ ledger'.redeemedRefreshJtis = ledger.redeemedRefreshJtis
      /\ ledger'.revokedFamilies = ledger.revokedFamilies
      /\ ledger'.revokedJtis = L.revokedJtis
      /\ \A h \in Subjects : ledger'.familiesBySubject[h] =
           IF h = s THEN ledger.familiesBySubject[s] \cup {nextFamily}
                    ELSE ledger.familiesBySubject[h]
  BY RecordSessionStartedEffect DEF StartSession, LedgerType
<1>3. /\ a \in TokenSet /\ r \in TokenSet
      /\ a.jti = nextJti /\ a.family = nextFamily /\ a.sub = s /\ a.type = "access"
      /\ r.jti = nextJti + 1 /\ r.family = nextFamily /\ r.sub = s /\ r.type = "refresh"
  BY <1>1, BoundsAssumption DEF Token, TokenSet, Jtis, Families, TokenTypes
<1>4. TypeOK'
  <2>1. ledger' \in LedgerType(Jtis, Families)
    BY <1>1, <1>2, BoundsAssumption DEF LedgerType, Families
  <2>2. QED
    BY <1>1, <1>3, <2>1 DEF IInv, TypeOK
<1>5. \A tok \in tokens : /\ tok.jti \in Nat /\ tok.jti < nextJti
                          /\ tok.family \in Nat /\ tok.family < nextFamily
                          /\ tok.sub \in Subjects
  BY BoundsAssumption
     DEF IInv, TypeOK, TokensAreKnown, TokenSet, Jtis, Families, OwnFamily
<1>6. TokensAreKnown'
  BY <1>1, <1>3, <1>5 DEF IInv, TokensAreKnown, IsSessionToken, OwnFamily
<1>7. JtisAreUnique'
  BY <1>1, <1>3, <1>5 DEF IInv, JtisAreUnique
<1>8. LedgerIsKnown'
  <2>1. /\ \A j \in ledger.redeemedRefreshJtis \cup L.revokedJtis : j \in Nat
        /\ \A f \in ledger.revokedFamilies : f \in Nat
        /\ \A h \in Subjects : \A f \in ledger.familiesBySubject[h] : f \in Nat
    BY DEF IInv, TypeOK, LedgerType, Jtis, Families
  <2>2. QED
    BY <1>1, <1>2, <2>1 DEF IInv, LedgerIsKnown
<1>9. SessionsAreTraceable'
  <2>1. ASSUME NEW tok \in tokens', IsSessionToken(tok), NEW h \in Subjects
        PROVE  tok.family \in ledger'.familiesBySubject[h] <=> h = tok.sub
    <3>1. CASE tok \in tokens
      <4>1. tok.family # nextFamily
        BY <3>1, <1>5, <1>1
      <4>2. QED
        BY <2>1, <3>1, <4>1, <1>2 DEF IInv, SessionsAreTraceable
    <3>2. CASE tok \in {a, r}
      <4>1. \A g \in Subjects : nextFamily \notin ledger.familiesBySubject[g]
        BY <1>1 DEF IInv, LedgerIsKnown
      <4>2. QED
        BY <3>2, <4>1, <1>2, <1>3
    <3>3. QED
      BY <3>1, <3>2, <1>1
  <2>2. QED
    BY <2>1 DEF SessionsAreTraceable, IsSessionToken
<1>10. OneUnspentRefreshPerSession'
  BY <1>1, <1>2, <1>3, <1>5
     DEF IInv, OneUnspentRefreshPerSession, IsRedeemed
<1>11. QED
  BY <1>4, <1>6, <1>7, <1>8, <1>9, <1>10 DEF IInv

(***************************************************************************)
(* A rotation: the old refresh token is spent in the step that mints the   *)
(* new pair, so the session still has one unspent refresh token.           *)
(***************************************************************************)
LEMMA RotationPreservesIInv ==
    ASSUME IInv, BoundsAssumption,
           NEW tok \in tokens, RefreshRotates(tok)
    PROVE  IInv'
<1> DEFINE f == tok.family
           a == Token(nextJti, "access", tok.sub, tok.tenant, f)
           r == Token(nextJti + 1, "refresh", tok.sub, tok.tenant, f)
<1>1. /\ nextJti \in Nat \ {0} /\ nextFamily \in Nat \ {0}
      /\ nextJti + 1 <= MaxTokens
      /\ tokens' = tokens \cup {a, r}
      /\ nextJti' = nextJti + 2
      /\ UNCHANGED nextFamily
      /\ tok.type = "refresh"
      /\ RedemptionOutcome(ledger, tok.jti, f) = "redeemed"
  BY DEF IInv, TypeOK, RefreshRotates, MintPair
<1>2. \A x \in tokens : /\ x.jti \in Jtis /\ x.jti \in Nat /\ x.jti < nextJti
                        /\ x.family \in Nat /\ x.family < nextFamily
                        /\ x.sub \in Subjects /\ x.tenant \in Tenants
                        /\ x.family \in Families \cup {OwnFamily}
  BY BoundsAssumption
     DEF IInv, TypeOK, TokensAreKnown, TokenSet, Jtis, Families, OwnFamily
<1>3. /\ ledger' = [ledger EXCEPT !.redeemedRefreshJtis =
                                     ledger.redeemedRefreshJtis \cup {tok.jti}]
      /\ ledger' \in LedgerType(Jtis, Families)
      /\ ledger'.redeemedRefreshJtis = ledger.redeemedRefreshJtis \cup {tok.jti}
      /\ ledger'.revokedJtis = ledger.revokedJtis
      /\ ledger'.revokedFamilies = ledger.revokedFamilies
      /\ ledger'.familiesBySubject = ledger.familiesBySubject
  <2>1. ledger' = [ledger EXCEPT !.redeemedRefreshJtis =
                                    ledger.redeemedRefreshJtis \cup {tok.jti}]
    BY <1>1, RedeemEffect DEF RefreshRotates
  <2>2. ledger \in LedgerType(Jtis, Families) /\ tok.jti \in Jtis
    BY <1>2 DEF IInv, TypeOK
  <2>3. QED
    BY <2>1, <2>2 DEF LedgerType
<1>4. /\ a \in TokenSet /\ r \in TokenSet
      /\ a.jti = nextJti /\ a.family = f /\ a.sub = tok.sub /\ a.type = "access"
      /\ r.jti = nextJti + 1 /\ r.family = f /\ r.sub = tok.sub /\ r.type = "refresh"
  BY <1>1, <1>2, BoundsAssumption DEF Token, TokenSet, Jtis, TokenTypes
<1>5. TypeOK'
  BY <1>1, <1>3, <1>4 DEF IInv, TypeOK
<1>6. TokensAreKnown'
  BY <1>1, <1>2, <1>4 DEF IInv, TokensAreKnown, IsSessionToken, OwnFamily
<1>7. JtisAreUnique'
  BY <1>1, <1>2, <1>4 DEF IInv, JtisAreUnique
<1>8. LedgerIsKnown'
  <2>1. \A j \in ledger.redeemedRefreshJtis \cup ledger.revokedJtis : j \in Nat
    BY DEF IInv, TypeOK, LedgerType, Jtis
  <2>2. QED
    BY <1>1, <1>2, <1>3, <2>1 DEF IInv, LedgerIsKnown
<1>9. SessionsAreTraceable'
  BY <1>1, <1>3, <1>4 DEF IInv, SessionsAreTraceable, IsSessionToken
<1>10. OneUnspentRefreshPerSession'
  <2>1. \A x \in tokens : /\ x.type = "refresh" /\ x.family = f
                          /\ ~ IsRedeemed(ledger, x.jti)
                          => x = tok
    BY <1>1 DEF IInv, OneUnspentRefreshPerSession, RedemptionOutcome
  <2>2. \A x \in tokens' : /\ x.type = "refresh" /\ x.family = f
                           /\ ~ IsRedeemed(ledger', x.jti)
                           => x = r
    BY <1>1, <1>3, <1>4, <2>1 DEF IsRedeemed
  <2>3. \A x \in tokens' : x.family # f => x \in tokens
    BY <1>1, <1>4
  <2>4. \A x \in tokens : IsRedeemed(ledger, x.jti) => IsRedeemed(ledger', x.jti)
    BY <1>3 DEF IsRedeemed
  <2>5. QED
    BY <2>2, <2>3, <2>4 DEF IInv, OneUnspentRefreshPerSession
<1>11. QED
  BY <1>5, <1>6, <1>7, <1>8, <1>9, <1>10 DEF IInv

(***************************************************************************)
(* Revoking one jti the ledger may know, and all sessions of a subject,    *)
(* leaves a ledger that MarkingPreservesIInv accepts.                      *)
(***************************************************************************)
LEMMA RevokeIsMarking ==
    ASSUME IInv, NEW tok \in tokens, NEW L, L = Revoke(ledger, tok.jti)
    PROVE  /\ L \in LedgerType(Jtis, Families)
           /\ L.familiesBySubject = ledger.familiesBySubject
           /\ L.redeemedRefreshJtis = ledger.redeemedRefreshJtis
           /\ L.revokedFamilies = ledger.revokedFamilies
           /\ L.revokedJtis = ledger.revokedJtis \cup {tok.jti}
           /\ \A j \in L.revokedJtis : j < nextJti
<1>1. ledger \in LedgerType(Jtis, Families) /\ tok.jti \in Jtis /\ tok.jti < nextJti
  BY DEF IInv, TypeOK, TokenSet, TokensAreKnown
<1>2. L = [ledger EXCEPT !.revokedJtis = ledger.revokedJtis \cup {tok.jti}]
  BY RevokeEffect
<1>3. /\ L \in LedgerType(Jtis, Families)
      /\ L.familiesBySubject = ledger.familiesBySubject
      /\ L.redeemedRefreshJtis = ledger.redeemedRefreshJtis
      /\ L.revokedFamilies = ledger.revokedFamilies
      /\ L.revokedJtis = ledger.revokedJtis \cup {tok.jti}
  BY <1>1, <1>2 DEF LedgerType
<1>4. QED
  BY <1>1, <1>3 DEF IInv, LedgerIsKnown

(***************************************************************************)
(* The cascade closes exactly the sessions on record for the subject.      *)
(***************************************************************************)
LEMMA CascadeEffect ==
    ASSUME NEW L, NEW M, NEW s \in Subjects,
           L \in LedgerType(Jtis, Families),
           M = RevokeAllSessionsForSubject(L, s)
    PROVE  /\ M \in LedgerType(Jtis, Families)
           /\ M.familiesBySubject = L.familiesBySubject
           /\ M.redeemedRefreshJtis = L.redeemedRefreshJtis
           /\ M.revokedJtis = L.revokedJtis
           /\ M.revokedFamilies = L.revokedFamilies \cup L.familiesBySubject[s]
BY DEF RevokeAllSessionsForSubject, LedgerType

-----------------------------------------------------------------------------
(* Inductiveness, one step per action.                                     *)

(***************************************************************************)
(* The empty ledger and no tokens satisfy the invariant.                   *)
(***************************************************************************)
LEMMA InitEstablishesIInv == Init => IInv
<1> SUFFICES ASSUME Init PROVE IInv
  OBVIOUS
<1>1. TypeOK
  BY DEF Init, TypeOK, EmptyLedger, LedgerType
<1>2. TokensAreKnown /\ JtisAreUnique
  BY DEF Init, TokensAreKnown, JtisAreUnique
<1>3. LedgerIsKnown
  BY DEF Init, LedgerIsKnown, EmptyLedger
<1>4. SessionsAreTraceable /\ OneUnspentRefreshPerSession
  BY DEF Init, SessionsAreTraceable, OneUnspentRefreshPerSession
<1>5. QED
  BY <1>1, <1>2, <1>3, <1>4 DEF IInv

(***************************************************************************)
(* No handler, and no expiry, breaks the invariant.                        *)
(***************************************************************************)
LEMMA NextPreservesIInv == BoundsAssumption /\ IInv /\ [Next]_svars => IInv'
<1> SUFFICES ASSUME BoundsAssumption, IInv, [Next]_svars PROVE IInv'
  OBVIOUS
<1>1. ledger \in LedgerType(Jtis, Families) /\ tokens \subseteq TokenSet
  BY DEF IInv, TypeOK
<1>2. \A s \in Subjects : \A f \in ledger.familiesBySubject[s] : f < nextFamily
  BY DEF IInv, LedgerIsKnown
<1>3. CASE \E s \in Subjects, t \in Tenants : Login(s, t)
  BY <1>1, <1>3, StartSessionPreservesIInv DEF Login, IInv, LedgerIsKnown
<1>4. CASE \E s \in Subjects, t \in Tenants, type \in SinglePurposeTypes :
             IssueSinglePurpose(type, s, t)
  <2>1. PICK s \in Subjects, t \in Tenants, type \in SinglePurposeTypes :
               IssueSinglePurpose(type, s, t)
    BY <1>4
  <2> DEFINE n == Token(nextJti, type, s, t, OwnFamily)
  <2>2. /\ nextJti \in Nat \ {0} /\ nextFamily \in Nat \ {0} /\ nextJti <= MaxTokens
        /\ tokens' = tokens \cup {n} /\ nextJti' = nextJti + 1
        /\ UNCHANGED <<ledger, nextFamily>>
    BY <2>1 DEF IssueSinglePurpose, MintSinglePurpose, IInv, TypeOK
  <2>3. /\ n \in TokenSet /\ n.jti = nextJti /\ n.family = 0
        /\ ~ IsSessionToken(n) /\ n.type # "refresh"
    BY <2>2, BoundsAssumption, TypesAssumption
       DEF Token, TokenSet, Jtis, TokenTypes, OwnFamily, IsSessionToken
  <2>4. \A x \in tokens : x.jti \in Nat /\ x.jti < nextJti
    BY <1>1 DEF IInv, TokensAreKnown, TokenSet, Jtis
  <2>5. TypeOK'
    BY <2>2, <2>3 DEF IInv, TypeOK, LedgerType, Jtis, Families
  <2>6. TokensAreKnown' /\ JtisAreUnique'
    BY <2>2, <2>3, <2>4 DEF IInv, TokensAreKnown, JtisAreUnique, IsSessionToken
  <2>7. LedgerIsKnown'
    <3>1. \A j \in ledger.redeemedRefreshJtis \cup ledger.revokedJtis : j \in Nat
      BY <1>1 DEF LedgerType, Jtis
    <3>2. QED
      BY <2>2, <3>1 DEF IInv, LedgerIsKnown
  <2>8. SessionsAreTraceable' /\ OneUnspentRefreshPerSession'
    BY <2>2, <2>3
       DEF IInv, SessionsAreTraceable, OneUnspentRefreshPerSession, IsSessionToken, IsRedeemed
  <2>9. QED
    BY <2>5, <2>6, <2>7, <2>8 DEF IInv
<1>5. CASE \E tok \in tokens : RefreshRotates(tok)
  BY <1>5, RotationPreservesIInv
<1>6. CASE \E tok \in tokens : RefreshRejected(tok)
  <2>1. PICK tok \in tokens : RefreshRejected(tok)
    BY <1>6
  <2>2. /\ tok.type = "refresh" /\ UNCHANGED <<tokens, nextJti, nextFamily>>
        /\ \/ ledger' = ledger
           \/ ledger' = [ledger EXCEPT !.revokedFamilies =
                                          ledger.revokedFamilies \cup {tok.family}]
    <3>1. RedemptionOutcome(ledger, tok.jti, tok.family) \in {"refused", "reused"}
      BY <2>1, RedeemEffect DEF RefreshRejected
    <3>2. ledger' = RedeemRefreshToken(ledger, tok.jti, tok.family)
      BY <2>1 DEF RefreshRejected
    <3>3. \/ ledger' = ledger
          \/ ledger' = RevokeFamily(ledger, tok.family)
      BY <3>1, <3>2, RedeemEffect
    <3>4. QED
      BY <2>1, <3>3, RevokeFamilyEffect DEF RefreshRejected
  <2>3. tok.family \in Families /\ tok.family < nextFamily
    BY <1>1, <2>2 DEF IInv, TokensAreKnown, IsSessionToken, TokenSet
  <2>4. /\ ledger' \in LedgerType(Jtis, Families)
        /\ ledger'.familiesBySubject = ledger.familiesBySubject
        /\ ledger'.redeemedRefreshJtis = ledger.redeemedRefreshJtis
        /\ ledger'.revokedJtis = ledger.revokedJtis
        /\ ledger'.revokedFamilies \subseteq ledger.revokedFamilies \cup {tok.family}
    BY <1>1, <2>2, <2>3 DEF LedgerType
  <2>5. QED
    BY <2>1, <2>2, <2>3, <2>4, MarkingPreservesIInv DEF RefreshRejected, IInv, LedgerIsKnown
<1>7. CASE \E tok \in tokens : RevokeToken(tok)
  <2>1. PICK tok \in tokens : RevokeToken(tok)
    BY <1>7
  <2>2. QED
    BY <1>1, <2>1, RevokeIsMarking, MarkingPreservesIInv DEF RevokeToken, IInv, LedgerIsKnown
<1>8. CASE \E tok \in tokens : AcceptInvite(tok)
  <2>1. PICK tok \in tokens : AcceptInvite(tok)
    BY <1>8
  <2>2. tok.sub \in Subjects /\ tok.tenant \in Tenants
    BY <1>1, <2>1 DEF TokenSet
  <2>3. QED
    BY <2>1, <2>2, RevokeIsMarking, StartSessionPreservesIInv DEF AcceptInvite
<1>9. CASE \E tok \in tokens : ResetPassword(tok)
  <2>1. PICK tok \in tokens : ResetPassword(tok)
    BY <1>9
  <2> DEFINE L == Revoke(ledger, tok.jti)
  <2>2. tok.sub \in Subjects
    BY <1>1 DEF TokenSet
  <2>3. /\ L \in LedgerType(Jtis, Families)
        /\ L.familiesBySubject = ledger.familiesBySubject
        /\ L.redeemedRefreshJtis = ledger.redeemedRefreshJtis
        /\ L.revokedFamilies = ledger.revokedFamilies
        /\ \A j \in L.revokedJtis : j < nextJti
    BY RevokeIsMarking
  <2>4. ledger' = RevokeAllSessionsForSubject(L, tok.sub)
        /\ UNCHANGED <<tokens, nextJti, nextFamily>>
    BY <2>1 DEF ResetPassword
  <2> HIDE DEF L
  <2>5. /\ ledger' \in LedgerType(Jtis, Families)
        /\ ledger'.familiesBySubject = ledger.familiesBySubject
        /\ ledger'.redeemedRefreshJtis = ledger.redeemedRefreshJtis
        /\ ledger'.revokedJtis = L.revokedJtis
        /\ ledger'.revokedFamilies =
             ledger.revokedFamilies \cup ledger.familiesBySubject[tok.sub]
    BY <2>2, <2>3, <2>4, CascadeEffect
  <2>6. \A f \in ledger'.revokedFamilies : f < nextFamily
    BY <1>2, <2>2, <2>5 DEF IInv, LedgerIsKnown
  <2>7. QED
    BY <1>1, <2>3, <2>4, <2>5, <2>6, MarkingPreservesIInv
<1>10. CASE \E tok \in tokens : Expire(tok)
  <2>1. /\ tokens' \subseteq tokens
        /\ UNCHANGED <<ledger, nextJti, nextFamily>>
    BY <1>10 DEF Expire
  <2>2. TypeOK'
    BY <2>1 DEF IInv, TypeOK, LedgerType, Jtis, Families
  <2>3. TokensAreKnown' /\ JtisAreUnique' /\ LedgerIsKnown'
    BY <2>1 DEF IInv, TokensAreKnown, JtisAreUnique, LedgerIsKnown, IsSessionToken
  <2>4. SessionsAreTraceable' /\ OneUnspentRefreshPerSession'
    BY <2>1 DEF IInv, SessionsAreTraceable, OneUnspentRefreshPerSession,
                IsSessionToken, IsRedeemed
  <2>5. QED
    BY <2>2, <2>3, <2>4 DEF IInv
<1>11. CASE \E s \in Subjects : RemoveMember(s)
  <2>1. PICK s \in Subjects : RemoveMember(s)
    BY <1>11
  <2>2. /\ ledger' \in LedgerType(Jtis, Families)
        /\ ledger'.familiesBySubject = ledger.familiesBySubject
        /\ ledger'.redeemedRefreshJtis = ledger.redeemedRefreshJtis
        /\ ledger'.revokedJtis = ledger.revokedJtis
        /\ ledger'.revokedFamilies = ledger.revokedFamilies \cup ledger.familiesBySubject[s]
    BY <1>1, <2>1, CascadeEffect DEF RemoveMember
  <2>3. QED
    BY <1>1, <1>2, <2>1, <2>2, MarkingPreservesIInv DEF RemoveMember, IInv, LedgerIsKnown
<1>12. CASE UNCHANGED svars
  BY <1>1, <1>2, <1>12, MarkingPreservesIInv DEF svars, IInv, LedgerIsKnown
<1>13. QED
  BY <1>3, <1>4, <1>5, <1>6, <1>7, <1>8, <1>9, <1>10, <1>11, <1>12 DEF Next

(***************************************************************************)
(* The inductive invariant holds in every reachable state.                 *)
(***************************************************************************)
THEOREM InvariantHolds == Spec => []IInv
<1>1. BoundsAssumption
  BY BoundsAssumption
<1>2. QED
  BY <1>1, InitEstablishesIInv, NextPreservesIInv, PTL DEF Spec

(***************************************************************************)
(* Tokens, ledger and uuid supplies keep their types.                      *)
(***************************************************************************)
THEOREM TypeCorrect == Spec => []TypeOK
BY InvariantHolds, PTL DEF IInv

(***************************************************************************)
(* Every session token can be reached from its own subject and from no     *)
(* other one, which is what the cascades of _issue_token_pair's callers    *)
(* rely on.                                                                *)
(***************************************************************************)
THEOREM Traceability == Spec => []SessionsAreTraceable
BY InvariantHolds, PTL DEF IInv

(***************************************************************************)
(* Single-use rotation leaves one unspent refresh token per session.       *)
(***************************************************************************)
THEOREM SingleUseRotation == Spec => []OneUnspentRefreshPerSession
BY InvariantHolds, PTL DEF IInv

-----------------------------------------------------------------------------
(* Action properties.                                                      *)

(***************************************************************************)
(* What can be said of a token's family and subject under the invariant.   *)
(***************************************************************************)
LEMMA SessionTokenFacts ==
    ASSUME IInv, BoundsAssumption, NEW tok \in tokens
    PROVE  /\ tok.jti \in Nat /\ tok.jti < nextJti
           /\ tok.sub \in Subjects /\ tok.tenant \in Tenants
           /\ tok.family \in Nat /\ tok.family < nextFamily
           /\ IsSessionToken(tok) =>
                tok.family \in Families /\ tok.family \in ledger.familiesBySubject[tok.sub]
           /\ nextJti \in Nat \ {0} /\ nextFamily \in Nat \ {0}
BY DEF IInv, TypeOK, TokensAreKnown, TokenSet, SessionsAreTraceable, IsSessionToken,
       Jtis, Families, OwnFamily, BoundsAssumption

(***************************************************************************)
(* A session closed in some state is closed in the next one, and every     *)
(* token it has there it had before: the step form of                      *)
(* ClosedSessionsStayClosed.                                               *)
(***************************************************************************)
LEMMA ClosedSessionsStep ==
    ASSUME IInv, BoundsAssumption, [Next]_svars, NEW f \in ledger.revokedFamilies
    PROVE  f \in ledger'.revokedFamilies /\ TokensOf(f)' \subseteq TokensOf(f)
<1>1. f \in Families /\ f # OwnFamily /\ f < nextFamily /\ ledger \in LedgerType(Jtis, Families)
  BY DEF IInv, TypeOK, LedgerType, LedgerIsKnown, Families, OwnFamily
<1>2. ASSUME NEW s \in Subjects, NEW t \in Tenants, NEW L,
             L.revokedFamilies = ledger.revokedFamilies, L \in LedgerType(Jtis, Families),
             StartSession(s, t, L)
      PROVE  f \in ledger'.revokedFamilies /\ TokensOf(f)' \subseteq TokensOf(f)
  <2>1. ledger'.revokedFamilies = ledger.revokedFamilies
    BY <1>2, RecordSessionStartedEffect DEF StartSession, LedgerType
  <2>2. \A x \in tokens' : x \in tokens \/ x.family = nextFamily
    BY <1>2 DEF StartSession, MintPair, Token
  <2>3. f # nextFamily
    BY <1>1 DEF IInv, TypeOK, Families
  <2>4. QED
    BY <2>1, <2>2, <2>3 DEF TokensOf
<1>3. CASE \E s \in Subjects, t \in Tenants : Login(s, t)
  BY <1>1, <1>2, <1>3 DEF Login
<1>4. CASE \E s \in Subjects, t \in Tenants, type \in SinglePurposeTypes :
             IssueSinglePurpose(type, s, t)
  <2>1. ledger' = ledger /\ \A x \in tokens' : x \in tokens \/ x.family = OwnFamily
    BY <1>4 DEF IssueSinglePurpose, MintSinglePurpose, Token
  <2>2. QED
    BY <1>1, <2>1 DEF TokensOf
<1>5. CASE \E tok \in tokens : RefreshRotates(tok)
  <2>1. PICK tok \in tokens : RefreshRotates(tok)
    BY <1>5
  <2>2. RedemptionOutcome(ledger, tok.jti, tok.family) = "redeemed"
    BY <2>1 DEF RefreshRotates
  <2>3. tok.family # f
    BY <2>2 DEF RedemptionOutcome, IsFamilyRevoked
  <2>4. ledger'.revokedFamilies = ledger.revokedFamilies
    <3>1. ledger' = [ledger EXCEPT !.redeemedRefreshJtis =
                                      ledger.redeemedRefreshJtis \cup {tok.jti}]
      BY <2>1, <2>2, RedeemEffect DEF RefreshRotates
    <3>2. QED
      BY <1>1, <3>1 DEF LedgerType
  <2>5. \A x \in tokens' : x \in tokens \/ x.family = tok.family
    BY <2>1 DEF RefreshRotates, MintPair, Token
  <2>6. QED
    BY <2>3, <2>4, <2>5 DEF TokensOf
<1>6. CASE \E tok \in tokens : RefreshRejected(tok)
  <2>1. PICK tok \in tokens : RefreshRejected(tok)
    BY <1>6
  <2>2. RedemptionOutcome(ledger, tok.jti, tok.family) \in {"refused", "reused"}
    BY <2>1, RedeemEffect DEF RefreshRejected
  <2>3. ledger' = RedeemRefreshToken(ledger, tok.jti, tok.family) /\ tokens' = tokens
    BY <2>1 DEF RefreshRejected
  <2>4. ledger' = ledger \/ ledger' = RevokeFamily(ledger, tok.family)
    BY <2>2, <2>3, RedeemEffect
  <2>5. f \in ledger'.revokedFamilies
    BY <1>1, <2>4, RevokeFamilyEffect DEF LedgerType
  <2>6. QED
    BY <2>3, <2>5 DEF TokensOf
<1>7. CASE \E tok \in tokens : RevokeToken(tok)
  BY <1>7, RevokeIsMarking DEF RevokeToken, TokensOf
<1>8. CASE \E tok \in tokens : AcceptInvite(tok)
  <2>1. PICK tok \in tokens : AcceptInvite(tok)
    BY <1>8
  <2>2. QED
    BY <1>2, <2>1, RevokeIsMarking, SessionTokenFacts DEF AcceptInvite
<1>9. CASE \E tok \in tokens : ResetPassword(tok)
  <2>1. PICK tok \in tokens : ResetPassword(tok)
    BY <1>9
  <2>2. QED
    BY <2>1, RevokeIsMarking, SessionTokenFacts, CascadeEffect DEF ResetPassword, TokensOf
<1>10. CASE \E tok \in tokens : Expire(tok)
  BY <1>10 DEF Expire, TokensOf
<1>11. CASE \E s \in Subjects : RemoveMember(s)
  BY <1>1, <1>11, CascadeEffect DEF RemoveMember, TokensOf
<1>12. CASE UNCHANGED svars
  BY <1>12 DEF svars, TokensOf
<1>13. QED
  BY <1>3, <1>4, <1>5, <1>6, <1>7, <1>8, <1>9, <1>10, <1>11, <1>12 DEF Next

(***************************************************************************)
(* Closed sessions stay closed and mint nothing, along every behaviour.    *)
(***************************************************************************)
THEOREM ClosedForGood == Spec => ClosedSessionsStayClosed
<1>1. BoundsAssumption /\ IInv /\ [Next]_svars =>
        [\A f \in ledger.revokedFamilies :
            /\ f \in ledger'.revokedFamilies
            /\ TokensOf(f)' \subseteq TokensOf(f)]_svars
  BY ClosedSessionsStep
<1>2. BoundsAssumption
  BY BoundsAssumption
<1>3. QED
  BY <1>1, <1>2, InvariantHolds, PTL DEF Spec, ClosedSessionsStayClosed

(***************************************************************************)
(* A reset or a removal leaves the subject with no usable session token.   *)
(***************************************************************************)
LEMMA CascadeStep ==
    ASSUME IInv, BoundsAssumption, NEW s \in Subjects, EndsAllSessions(s),
           NEW tok \in tokens', tok.sub = s
    PROVE  ~ (Admitted(tok) \/ Rotatable(tok))'
<1>1. ledger \in LedgerType(Jtis, Families)
  BY DEF IInv, TypeOK
<1>2. tokens' = tokens /\ ledger.familiesBySubject[s] \subseteq ledger'.revokedFamilies
  <2>1. CASE RemoveMember(s)
    BY <1>1, <2>1, CascadeEffect DEF RemoveMember
  <2>2. CASE \E x \in tokens : x.sub = s /\ ResetPassword(x)
    <3>1. PICK x \in tokens : x.sub = s /\ ResetPassword(x)
      BY <2>2
    <3>2. /\ Revoke(ledger, x.jti) \in LedgerType(Jtis, Families)
          /\ Revoke(ledger, x.jti).familiesBySubject = ledger.familiesBySubject
      BY RevokeIsMarking
    <3>3. QED
      BY <3>1, <3>2, CascadeEffect DEF ResetPassword
  <2>3. QED
    BY <2>1, <2>2 DEF EndsAllSessions
<1>3. IsSessionToken(tok) => tok.family \in ledger'.revokedFamilies
  BY <1>2, SessionTokenFacts
<1>4. QED
  BY <1>3 DEF Admitted, Rotatable, IsSessionToken, IsFamilyRevoked, RedemptionOutcome

(***************************************************************************)
(* Cascades reach every session of the subject, along every behaviour.     *)
(***************************************************************************)
THEOREM CascadesAreComplete == Spec => CascadeEndsEverySession
<1>1. BoundsAssumption /\ IInv /\ [Next]_svars =>
        [\A s \in Subjects : EndsAllSessions(s) =>
            \A tok \in tokens' : tok.sub = s => ~ (Admitted(tok) \/ Rotatable(tok))']_svars
  BY CascadeStep
<1>2. BoundsAssumption
  BY BoundsAssumption
<1>3. QED
  BY <1>1, <1>2, InvariantHolds, PTL DEF Spec, CascadeEndsEverySession

(***************************************************************************)
(* A reused token that was not itself revoked closes its session.          *)
(***************************************************************************)
LEMMA ReuseStep ==
    ASSUME IInv, NEW tok \in tokens,
           RefreshRejected(tok), IsRedeemed(ledger, tok.jti), ~ IsRevoked(ledger, tok.jti),
           NEW other \in TokensOf(tok.family)'
    PROVE  ~ (Admitted(other) \/ Rotatable(other))'
<1>1. ledger \in LedgerType(Jtis, Families)
  BY DEF IInv, TypeOK
<1>2. tok.family \in ledger'.revokedFamilies
  <2>1. ledger' = RedeemRefreshToken(ledger, tok.jti, tok.family)
    BY DEF RefreshRejected
  <2>2. \/ /\ RedemptionOutcome(ledger, tok.jti, tok.family) = "refused"
           /\ tok.family \in ledger.revokedFamilies
        \/ RedemptionOutcome(ledger, tok.jti, tok.family) = "reused"
    BY DEF RedemptionOutcome, IsFamilyRevoked
  <2>3. QED
    BY <1>1, <2>1, <2>2, RedeemEffect, RevokeFamilyEffect DEF LedgerType
<1>3. other.family = tok.family
  BY DEF TokensOf
<1>4. QED
  BY <1>2, <1>3 DEF Admitted, Rotatable, IsFamilyRevoked, RedemptionOutcome

(***************************************************************************)
(* Replay detection works along every behaviour.                           *)
(***************************************************************************)
THEOREM ReplayDetection == Spec => ReuseEndsTheSession
<1>1. IInv /\ [Next]_svars =>
        [\A tok \in tokens :
            /\ RefreshRejected(tok)
            /\ IsRedeemed(ledger, tok.jti)
            /\ ~ IsRevoked(ledger, tok.jti)
            => \A other \in TokensOf(tok.family)' :
                   ~ (Admitted(other) \/ Rotatable(other))']_svars
  BY ReuseStep
<1>2. QED
  BY <1>1, InvariantHolds, PTL DEF Spec, ReuseEndsTheSession

-----------------------------------------------------------------------------
(* Sessions implements SessionAuthority.                                   *)

LiveMap == [f \in Families |-> LiveCredentials(f)]

(***************************************************************************)
(* A token is a live credential exactly when it is its session's rotatable *)
(* refresh token.                                                          *)
(***************************************************************************)
LEMMA LiveMembership ==
    ASSUME NEW f, NEW c
    PROVE  c \in LiveCredentials(f) <=>
             \E tok \in tokens : tok.family = f /\ Rotatable(tok) /\ c = tok.jti
BY DEF LiveCredentials, TokensOf

(***************************************************************************)
(* The same, in the next state.                                            *)
(***************************************************************************)
LEMMA LiveMembershipNext ==
    ASSUME NEW f, NEW c
    PROVE  c \in LiveCredentials(f)' <=>
             \E tok \in tokens' : tok.family = f /\ Rotatable(tok)' /\ c = tok.jti
BY DEF LiveCredentials, TokensOf

(***************************************************************************)
(* The initial states map to the abstract initial state.                   *)
(***************************************************************************)
LEMMA InitImplements == Init => Authority!Init
BY DEF Init, Authority!Init, EmptyLedger, LiveCredentials, TokensOf

(***************************************************************************)
(* Starting a session opens it.                                            *)
(***************************************************************************)
LEMMA StartSessionImplementsOpen ==
    ASSUME IInv, BoundsAssumption,
           NEW s \in Subjects, NEW t \in Tenants, NEW L,
           L \in LedgerType(Jtis, Families),
           L.familiesBySubject = ledger.familiesBySubject,
           L.redeemedRefreshJtis = ledger.redeemedRefreshJtis,
           L.revokedFamilies = ledger.revokedFamilies,
           \A j \in L.revokedJtis : j < nextJti,
           \A tok \in tokens : tok.type = "refresh" =>
               (IsRevoked(L, tok.jti) <=> IsRevoked(ledger, tok.jti)),
           StartSession(s, t, L)
    PROVE  Authority!Open(s, nextFamily)
<1> DEFINE a == Token(nextJti, "access", s, t, nextFamily)
           r == Token(nextJti + 1, "refresh", s, t, nextFamily)
<1>1. /\ nextJti \in Nat \ {0} /\ nextFamily \in Families
      /\ tokens' = tokens \cup {a, r} /\ nextJti' = nextJti + 2
  BY DEF IInv, TypeOK, StartSession, MintPair, Families
<1>2. /\ ledger'.redeemedRefreshJtis = ledger.redeemedRefreshJtis
      /\ ledger'.revokedFamilies = ledger.revokedFamilies
      /\ ledger'.revokedJtis = L.revokedJtis
      /\ ledger'.familiesBySubject =
           [ledger.familiesBySubject EXCEPT ![s] = ledger.familiesBySubject[s] \cup {nextFamily}]
  BY RecordSessionStartedEffect DEF StartSession, LedgerType
<1>3. /\ a.type = "access" /\ a.family = nextFamily
      /\ r.type = "refresh" /\ r.family = nextFamily /\ r.jti = nextJti + 1
  BY DEF Token
<1>4. \A tok \in tokens : tok.family # nextFamily
  BY SessionTokenFacts
<1>5. \A tok \in tokens : Rotatable(tok)' <=> Rotatable(tok)
  BY <1>2 DEF Rotatable, RedemptionOutcome, IsRevoked, IsRedeemed, IsFamilyRevoked
<1>6. \A x \in {a, r} : Rotatable(x)' <=> x = r
  <2>1. /\ ~ IsRevoked(ledger', r.jti) /\ ~ IsRedeemed(ledger', r.jti)
        /\ ~ IsFamilyRevoked(ledger', r.family)
    <3>1. /\ \A j \in L.revokedJtis \cup ledger.redeemedRefreshJtis : j \in Nat /\ j < nextJti
          /\ \A f \in ledger.revokedFamilies : f \in Nat /\ f < nextFamily
      BY DEF IInv, TypeOK, LedgerIsKnown, LedgerType, Jtis, Families
    <3>2. QED
      BY <1>1, <1>2, <1>3, <3>1 DEF IsRevoked, IsRedeemed, IsFamilyRevoked
  <2>2. QED
    BY <1>3, <2>1 DEF Rotatable, RedemptionOutcome
<1>7. ASSUME NEW f \in Families, f = nextFamily
      PROVE  LiveCredentials(f)' = {nextJti + 1}
  <2>1. \A tok \in tokens' : tok.family = f /\ Rotatable(tok)' <=> tok = r
    BY <1>1, <1>3, <1>4, <1>6, <1>7
  <2>2. \A c : c \in LiveCredentials(f)' <=> c = nextJti + 1
    BY <1>1, <1>3, <2>1, LiveMembershipNext
  <2>3. QED
    BY <2>2
<1>8. ASSUME NEW f \in Families, f # nextFamily
      PROVE  LiveCredentials(f)' = LiveCredentials(f)
  <2>1. \A tok \in tokens' : tok.family = f => tok \in tokens
    BY <1>1, <1>3, <1>8
  <2>2. \A c : c \in LiveCredentials(f)' <=> c \in LiveCredentials(f)
    BY <1>1, <1>5, <2>1, LiveMembership, LiveMembershipNext
  <2>3. QED
    BY <2>2
<1>9. LiveMap' = [LiveMap EXCEPT ![nextFamily] = {nextJti' - 1}]
  <2>1. nextJti' - 1 = nextJti + 1
    BY <1>1
  <2>2. \A f \in Families : LiveCredentials(f)' =
          IF f = nextFamily THEN {nextJti' - 1} ELSE LiveCredentials(f)
    BY <1>7, <1>8, <2>1
  <2>3. QED
    BY <2>2 DEF LiveMap
<1>10. \A h \in Subjects : nextFamily \notin ledger.familiesBySubject[h]
  BY <1>1 DEF IInv, LedgerIsKnown, Families
<1>11. QED
  BY <1>1, <1>2, <1>9, <1>10 DEF Authority!Open, Authority!HandOut, LiveMap

(***************************************************************************)
(* A rotation replaces the live credential of its session.                 *)
(***************************************************************************)
LEMMA RotationImplementsRotate ==
    ASSUME IInv, BoundsAssumption, NEW tok \in tokens, RefreshRotates(tok)
    PROVE  tok.family \in Families /\ Authority!Rotate(tok.family)
<1> DEFINE k == tok.family
           a == Token(nextJti, "access", tok.sub, tok.tenant, k)
           r == Token(nextJti + 1, "refresh", tok.sub, tok.tenant, k)
<1>1. /\ nextJti \in Nat \ {0} /\ k \in Families
      /\ tokens' = tokens \cup {a, r} /\ nextJti' = nextJti + 2
      /\ tok.type = "refresh" /\ RedemptionOutcome(ledger, tok.jti, k) = "redeemed"
  BY SessionTokenFacts DEF RefreshRotates, MintPair, IsSessionToken
<1>2. /\ ledger'.redeemedRefreshJtis = ledger.redeemedRefreshJtis \cup {tok.jti}
      /\ ledger'.revokedJtis = ledger.revokedJtis
      /\ ledger'.revokedFamilies = ledger.revokedFamilies
      /\ ledger'.familiesBySubject = ledger.familiesBySubject
  <2>1. ledger \in LedgerType(Jtis, Families)
    BY DEF IInv, TypeOK
  <2>2. ledger' = [ledger EXCEPT !.redeemedRefreshJtis =
                                    ledger.redeemedRefreshJtis \cup {tok.jti}]
    BY <1>1, RedeemEffect DEF RefreshRotates
  <2>3. QED
    BY <2>1, <2>2 DEF LedgerType
<1>3. /\ a.type = "access" /\ a.family = k
      /\ r.type = "refresh" /\ r.family = k /\ r.jti = nextJti + 1
  BY DEF Token
<1>4. \A x \in {a, r} : Rotatable(x)' <=> x = r
  <2>1. /\ \A j \in ledger.revokedJtis \cup ledger.redeemedRefreshJtis : j \in Nat /\ j < nextJti
        /\ tok.jti \in Nat /\ tok.jti < nextJti
        /\ k \notin ledger.revokedFamilies
    BY <1>1, SessionTokenFacts
       DEF IInv, TypeOK, LedgerIsKnown, LedgerType, Jtis, RedemptionOutcome, IsFamilyRevoked
  <2>2. /\ ~ IsRevoked(ledger', r.jti) /\ ~ IsRedeemed(ledger', r.jti)
        /\ ~ IsFamilyRevoked(ledger', r.family)
    BY <1>1, <1>2, <1>3, <2>1 DEF IsRevoked, IsRedeemed, IsFamilyRevoked
  <2>3. QED
    BY <1>3, <2>2 DEF Rotatable, RedemptionOutcome
<1>5. \A x \in tokens : x.family = k => ~ Rotatable(x)'
  <2>1. \A x \in tokens : /\ x.type = "refresh" /\ x.family = k
                          /\ ~ IsRedeemed(ledger, x.jti)
                          => x = tok
    BY <1>1 DEF IInv, OneUnspentRefreshPerSession, RedemptionOutcome
  <2>2. \A x \in tokens : x.type = "refresh" /\ x.family = k => IsRedeemed(ledger', x.jti)
    BY <1>2, <2>1 DEF IsRedeemed
  <2>3. QED
    BY <2>2 DEF Rotatable, RedemptionOutcome
<1>6. ASSUME NEW f \in Families, f = k
      PROVE  LiveCredentials(f)' = {nextJti + 1}
  <2>1. \A x \in tokens' : x.family = f /\ Rotatable(x)' <=> x = r
    BY <1>1, <1>3, <1>4, <1>5, <1>6
  <2>2. \A c : c \in LiveCredentials(f)' <=> c = nextJti + 1
    BY <1>1, <1>3, <2>1, LiveMembershipNext
  <2>3. QED
    BY <2>2
<1>7. ASSUME NEW f \in Families, f # k
      PROVE  LiveCredentials(f)' = LiveCredentials(f)
  <2>1. \A x \in tokens' : x.family = f => x \in tokens
    BY <1>1, <1>3, <1>7
  <2>2. \A x \in tokens : x.family = f => (Rotatable(x)' <=> Rotatable(x))
    <3>1. \A x \in tokens : x.family = f => x.jti # tok.jti
      BY <1>7 DEF IInv, JtisAreUnique
    <3>2. QED
      BY <1>2, <3>1 DEF Rotatable, RedemptionOutcome, IsRevoked, IsRedeemed, IsFamilyRevoked
  <2>3. \A c : c \in LiveCredentials(f)' <=> c \in LiveCredentials(f)
    BY <1>1, <2>1, <2>2, LiveMembership, LiveMembershipNext
  <2>4. QED
    BY <2>3
<1>8. LiveMap' = [LiveMap EXCEPT ![k] = {nextJti' - 1}]
  <2>1. nextJti' - 1 = nextJti + 1
    BY <1>1
  <2>2. \A f \in Families : LiveCredentials(f)' =
          IF f = k THEN {nextJti' - 1} ELSE LiveCredentials(f)
    BY <1>6, <1>7, <2>1
  <2>3. QED
    BY <2>2 DEF LiveMap
<1>9. LiveMap[k] # {}
  <2>1. Rotatable(tok)
    BY <1>1 DEF Rotatable
  <2>2. tok.jti \in LiveCredentials(k)
    BY <2>1, LiveMembership
  <2>3. QED
    BY <1>1, <2>2 DEF LiveMap
<1>10. QED
  BY <1>1, <1>2, <1>8, <1>9 DEF Authority!Rotate, Authority!HandOut, LiveMap

(***************************************************************************)
(* Closing a set of sessions of one subject, with jtis of no refresh token *)
(* revoked on the way, is the abstract Close.                              *)
(***************************************************************************)
LEMMA ClosingImplementsClose ==
    ASSUME IInv, NEW F \in SUBSET Families,
           ledger'.familiesBySubject = ledger.familiesBySubject,
           ledger'.redeemedRefreshJtis = ledger.redeemedRefreshJtis,
           ledger'.revokedFamilies = ledger.revokedFamilies \cup F,
           \A tok \in tokens : tok.type = "refresh" =>
               (IsRevoked(ledger', tok.jti) <=> IsRevoked(ledger, tok.jti)),
           UNCHANGED <<tokens, nextJti>>
    PROVE  Authority!Close(F)
<1>1. \A tok \in tokens : Rotatable(tok)' <=> Rotatable(tok) /\ tok.family \notin F
  BY DEF Rotatable, RedemptionOutcome, IsRedeemed, IsFamilyRevoked
<1>2. ASSUME NEW f \in Families
      PROVE  LiveCredentials(f)' = IF f \in F THEN {} ELSE LiveCredentials(f)
  <2>1. \A c : c \in LiveCredentials(f)' <=> f \notin F /\ c \in LiveCredentials(f)
    BY <1>1, LiveMembership, LiveMembershipNext
  <2>2. QED
    BY <2>1
<1>3. LiveMap' = [f \in Families |-> IF f \in F THEN {} ELSE LiveMap[f]]
  BY <1>2 DEF LiveMap
<1>4. QED
  BY <1>3 DEF Authority!Close, LiveMap

(***************************************************************************)
(* A token that stops being usable, because it was revoked or expired, is  *)
(* the abstract Lapse of its session or changes nothing the abstraction    *)
(* sees.                                                                   *)
(***************************************************************************)
LEMMA LosingATokenImplementsLapse ==
    ASSUME IInv, BoundsAssumption, NEW tok \in tokens,
           ledger'.familiesBySubject = ledger.familiesBySubject,
           ledger'.revokedFamilies = ledger.revokedFamilies,
           UNCHANGED nextJti,
           \A x \in tokens' : x \in tokens,
           \A x \in tokens' : Rotatable(x)' <=> Rotatable(x) /\ x # tok,
           \A x \in tokens : x # tok => x \in tokens'
    PROVE  [Authority!Next]_(Authority!avars)
<1>1. ASSUME NEW f \in Families, ~ (Rotatable(tok) /\ f = tok.family)
      PROVE  LiveCredentials(f)' = LiveCredentials(f)
  <2>1. \A c : c \in LiveCredentials(f)' <=> c \in LiveCredentials(f)
    BY <1>1, LiveMembership, LiveMembershipNext
  <2>2. QED
    BY <2>1
<1>2. CASE Rotatable(tok)
  <2>1. tok.family \in Families
    BY <1>2, SessionTokenFacts DEF Rotatable, IsSessionToken
  <2>2. \A x \in tokens : x.family = tok.family /\ Rotatable(x) => x = tok
    BY <1>2 DEF IInv, OneUnspentRefreshPerSession, Rotatable, RedemptionOutcome
  <2>3. ASSUME NEW f \in Families, f = tok.family
        PROVE  LiveCredentials(f)' = {}
    <3>1. \A c : c \notin LiveCredentials(f)'
      BY <2>2, <2>3, LiveMembershipNext
    <3>2. QED
      BY <3>1
  <2>4. LiveMap' = [LiveMap EXCEPT ![tok.family] = {}]
    BY <1>1, <2>3 DEF LiveMap
  <2>5. Authority!Lapse(tok.family)
    BY <2>4 DEF Authority!Lapse, LiveMap
  <2>6. QED
    BY <2>1, <2>5 DEF Authority!Next
<1>3. CASE ~ Rotatable(tok)
  <2>1. LiveMap' = LiveMap
    BY <1>1, <1>3 DEF LiveMap
  <2>2. QED
    BY <2>1 DEF Authority!avars, LiveMap
<1>4. QED
  BY <1>2, <1>3

(***************************************************************************)
(* Every step of Sessions is a step of the session authority or leaves it  *)
(* alone.                                                                  *)
(***************************************************************************)
LEMMA NextImplements ==
    ASSUME IInv, BoundsAssumption, [Next]_svars
    PROVE  [Authority!Next]_(Authority!avars)
<1>1. ledger \in LedgerType(Jtis, Families) /\ tokens \subseteq TokenSet
      /\ \A s \in Subjects : ledger.familiesBySubject[s] \subseteq Families
  BY DEF IInv, TypeOK, LedgerType
<1>2. \A j \in ledger.revokedJtis : j < nextJti
  BY DEF IInv, LedgerIsKnown
<1>3. CASE \E s \in Subjects, t \in Tenants : Login(s, t)
  <2>1. PICK s \in Subjects, t \in Tenants : StartSession(s, t, ledger)
    BY <1>3 DEF Login
  <2>2. nextFamily \in Families
    BY <2>1 DEF StartSession, IInv, TypeOK, Families
  <2>3. Authority!Open(s, nextFamily)
    BY <1>1, <1>2, <2>1, StartSessionImplementsOpen
  <2>4. QED
    BY <2>2, <2>3 DEF Authority!Next
<1>4. CASE \E s \in Subjects, t \in Tenants, type \in SinglePurposeTypes :
             IssueSinglePurpose(type, s, t)
  <2>1. PICK s \in Subjects, t \in Tenants, type \in SinglePurposeTypes :
               IssueSinglePurpose(type, s, t)
    BY <1>4
  <2> DEFINE n == Token(nextJti, type, s, t, OwnFamily)
  <2>2. /\ tokens' = tokens \cup {n} /\ n.family = OwnFamily
        /\ nextJti' = nextJti + 1 /\ nextJti \in Nat /\ ledger' = ledger
    BY <2>1 DEF IssueSinglePurpose, MintSinglePurpose, Token, IInv, TypeOK
  <2>3. ASSUME NEW f \in Families
        PROVE  LiveCredentials(f)' = LiveCredentials(f)
    <3>1. f # OwnFamily
      BY DEF Families, OwnFamily
    <3>2. \A x \in tokens' : x.family = f => x \in tokens
      BY <2>2, <3>1
    <3>3. \A x \in tokens : Rotatable(x)' <=> Rotatable(x)
      BY <2>2 DEF Rotatable
    <3>4. \A c : c \in LiveCredentials(f)' <=> c \in LiveCredentials(f)
      BY <2>2, <3>2, <3>3, LiveMembership, LiveMembershipNext
    <3>5. QED
      BY <3>4
  <2>4. LiveMap' = LiveMap
    BY <2>3 DEF LiveMap
  <2>5. Authority!Skip
    BY <2>2, <2>4 DEF Authority!Skip, LiveMap
  <2>6. QED
    BY <2>5 DEF Authority!Next
<1>5. CASE \E tok \in tokens : RefreshRotates(tok)
  BY <1>5, RotationImplementsRotate DEF Authority!Next
<1>6. CASE \E tok \in tokens : RefreshRejected(tok)
  <2>1. PICK tok \in tokens : RefreshRejected(tok)
    BY <1>6
  <2>2. tok.family \in Families /\ tok.sub \in Subjects
        /\ tok.family \in ledger.familiesBySubject[tok.sub]
    BY <2>1, SessionTokenFacts DEF RefreshRejected, IsSessionToken
  <2>3. UNCHANGED <<tokens, nextJti>>
        /\ \/ ledger' = ledger
           \/ ledger' = RevokeFamily(ledger, tok.family)
    <3>1. RedemptionOutcome(ledger, tok.jti, tok.family) \in {"refused", "reused"}
      BY <2>1, RedeemEffect DEF RefreshRejected
    <3>2. ledger' = RedeemRefreshToken(ledger, tok.jti, tok.family)
      BY <2>1 DEF RefreshRejected
    <3>3. QED
      BY <2>1, <3>1, <3>2, RedeemEffect DEF RefreshRejected
  <2>4. PICK F \in {{}, {tok.family}} :
          /\ ledger'.familiesBySubject = ledger.familiesBySubject
          /\ ledger'.redeemedRefreshJtis = ledger.redeemedRefreshJtis
          /\ ledger'.revokedJtis = ledger.revokedJtis
          /\ ledger'.revokedFamilies = ledger.revokedFamilies \cup F
    BY <1>1, <2>3, RevokeFamilyEffect DEF LedgerType
  <2>5. Authority!Close(F)
    BY <2>2, <2>3, <2>4, ClosingImplementsClose DEF IsRevoked
  <2>6. F \in SUBSET ledger.familiesBySubject[tok.sub]
    BY <2>2, <2>4
  <2>7. QED
    BY <2>2, <2>5, <2>6 DEF Authority!Next
<1>7. CASE \E tok \in tokens : RevokeToken(tok)
  <2>1. PICK tok \in tokens : RevokeToken(tok)
    BY <1>7
  <2>2. /\ ledger'.familiesBySubject = ledger.familiesBySubject
        /\ ledger'.redeemedRefreshJtis = ledger.redeemedRefreshJtis
        /\ ledger'.revokedFamilies = ledger.revokedFamilies
        /\ ledger'.revokedJtis = ledger.revokedJtis \cup {tok.jti}
        /\ UNCHANGED <<tokens, nextJti>>
    BY <2>1, RevokeIsMarking DEF RevokeToken
  <2>3. \A x \in tokens : Rotatable(x)' <=> Rotatable(x) /\ x # tok
    <3>1. \A x \in tokens : x.jti = tok.jti <=> x = tok
      BY DEF IInv, JtisAreUnique
    <3>2. QED
      BY <2>2, <3>1 DEF Rotatable, RedemptionOutcome, IsRevoked, IsRedeemed, IsFamilyRevoked
  <2>4. QED
    BY <2>2, <2>3, LosingATokenImplementsLapse
<1>8. CASE \E tok \in tokens : AcceptInvite(tok)
  <2>1. PICK tok \in tokens : AcceptInvite(tok)
    BY <1>8
  <2> DEFINE L == Revoke(ledger, tok.jti)
  <2>2. tok.sub \in Subjects /\ tok.tenant \in Tenants
    BY <1>1 DEF TokenSet
  <2>3. /\ L \in LedgerType(Jtis, Families)
        /\ L.familiesBySubject = ledger.familiesBySubject
        /\ L.redeemedRefreshJtis = ledger.redeemedRefreshJtis
        /\ L.revokedFamilies = ledger.revokedFamilies
        /\ L.revokedJtis = ledger.revokedJtis \cup {tok.jti}
        /\ \A j \in L.revokedJtis : j < nextJti
    BY RevokeIsMarking
  <2>4. tok.type = "invite" /\ StartSession(tok.sub, tok.tenant, L)
    BY <2>1 DEF AcceptInvite
  <2>5. \A x \in tokens : x.type = "refresh" =>
          (IsRevoked(L, x.jti) <=> IsRevoked(ledger, x.jti))
    BY <2>3, <2>4 DEF IInv, JtisAreUnique, IsRevoked
  <2> HIDE DEF L
  <2>6. nextFamily \in Families
    BY <2>4 DEF StartSession, IInv, TypeOK, Families
  <2>7. Authority!Open(tok.sub, nextFamily)
    BY <2>2, <2>3, <2>4, <2>5, StartSessionImplementsOpen
  <2>8. QED
    BY <2>2, <2>6, <2>7 DEF Authority!Next
<1>9. CASE \E tok \in tokens : ResetPassword(tok)
  <2>1. PICK tok \in tokens : ResetPassword(tok)
    BY <1>9
  <2> DEFINE L == Revoke(ledger, tok.jti)
  <2>2. tok.sub \in Subjects /\ tok.type = "password_reset"
    BY <1>1, <2>1 DEF TokenSet, ResetPassword
  <2>3. /\ L \in LedgerType(Jtis, Families)
        /\ L.familiesBySubject = ledger.familiesBySubject
        /\ L.redeemedRefreshJtis = ledger.redeemedRefreshJtis
        /\ L.revokedFamilies = ledger.revokedFamilies
        /\ L.revokedJtis = ledger.revokedJtis \cup {tok.jti}
    BY RevokeIsMarking
  <2>4. ledger' = RevokeAllSessionsForSubject(L, tok.sub)
        /\ UNCHANGED <<tokens, nextJti>>
    BY <2>1 DEF ResetPassword
  <2> HIDE DEF L
  <2>5. /\ ledger'.familiesBySubject = ledger.familiesBySubject
        /\ ledger'.redeemedRefreshJtis = ledger.redeemedRefreshJtis
        /\ ledger'.revokedJtis = ledger.revokedJtis \cup {tok.jti}
        /\ ledger'.revokedFamilies =
             ledger.revokedFamilies \cup ledger.familiesBySubject[tok.sub]
    BY <2>2, <2>3, <2>4, CascadeEffect
  <2>6. \A x \in tokens : x.type = "refresh" =>
          (IsRevoked(ledger', x.jti) <=> IsRevoked(ledger, x.jti))
    BY <2>2, <2>5 DEF IInv, JtisAreUnique, IsRevoked
  <2>7. Authority!Close(ledger.familiesBySubject[tok.sub])
    BY <1>1, <2>2, <2>4, <2>5, <2>6, ClosingImplementsClose
  <2>8. QED
    BY <2>2, <2>7 DEF Authority!Next
<1>10. CASE \E tok \in tokens : Expire(tok)
  <2>1. PICK tok \in tokens : Expire(tok)
    BY <1>10
  <2>2. /\ ledger' = ledger /\ nextJti' = nextJti
        /\ tokens' = tokens \ {tok}
    BY <2>1 DEF Expire
  <2>3. \A x \in tokens' : Rotatable(x)' <=> Rotatable(x) /\ x # tok
    BY <2>2 DEF Rotatable
  <2>4. QED
    BY <2>2, <2>3, LosingATokenImplementsLapse
<1>11. CASE \E s \in Subjects : RemoveMember(s)
  <2>1. PICK s \in Subjects : RemoveMember(s)
    BY <1>11
  <2>2. /\ ledger'.familiesBySubject = ledger.familiesBySubject
        /\ ledger'.redeemedRefreshJtis = ledger.redeemedRefreshJtis
        /\ ledger'.revokedJtis = ledger.revokedJtis
        /\ ledger'.revokedFamilies = ledger.revokedFamilies \cup ledger.familiesBySubject[s]
        /\ UNCHANGED <<tokens, nextJti>>
    BY <1>1, <2>1, CascadeEffect DEF RemoveMember
  <2>3. Authority!Close(ledger.familiesBySubject[s])
    BY <1>1, <2>2, ClosingImplementsClose DEF IsRevoked
  <2>4. QED
    BY <2>1, <2>3 DEF Authority!Next
<1>12. CASE UNCHANGED svars
  <2>1. LiveMap' = LiveMap
    BY <1>12 DEF svars, LiveMap, LiveCredentials, TokensOf, Rotatable
  <2>2. QED
    BY <1>12, <2>1 DEF svars, Authority!avars, LiveMap
<1>13. QED
  BY <1>3, <1>4, <1>5, <1>6, <1>7, <1>8, <1>9, <1>10, <1>11, <1>12 DEF Next

(***************************************************************************)
(* The login sessions of the API implement the abstract session authority: *)
(* one live credential per session, never handed out twice, and no session *)
(* reopened or passed from one subject to another.                         *)
(***************************************************************************)
THEOREM SessionsImplementAuthority == Spec => ImplementsSessionAuthority
<1>1. BoundsAssumption
  BY BoundsAssumption
<1>2. BoundsAssumption /\ IInv /\ [Next]_svars => [Authority!Next]_(Authority!avars)
  BY NextImplements
<1>3. QED
  BY <1>1, <1>2, InitImplements, InvariantHolds, PTL
     DEF Spec, ImplementsSessionAuthority, Authority!Spec
=============================================================================
