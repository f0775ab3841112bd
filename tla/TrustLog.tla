------------------------------- MODULE TrustLog -------------------------------
(***************************************************************************)
(* The log of WriteAheadLog with the two projections that api/main.py      *)
(* builds over it, ConsentLedger and TokenLedger, and the handlers that    *)
(* write through them.                                                     *)
(*                                                                         *)
(* A handler appends its facts one after the other and updates the index   *)
(* after each; nothing else runs in between, but a write may fail, which   *)
(* ends the handler with an error, and the process may die.  `handler` is  *)
(* what the running handler has still to do.                               *)
(*                                                                         *)
(* Clients keep their refresh tokens through restarts.  A uuid is the      *)
(* number of the append that is about to record it.                        *)
(***************************************************************************)
EXTENDS WriteAheadLog, ConsentLedger, TokenLedger

VARIABLES
    consents,   \* app.state.consent_ledger
    ledger,     \* app.state.token_ledger
    current,    \* DISCLAIMER_VERSION of the deployed code
    handler,    \* the handler in progress: facts to append, what it hands out
    held,       \* refresh tokens the clients hold
    spent,      \* history: refresh jtis whose rotation was acknowledged
    ended       \* history: sessions whose cascade was acknowledged

Jtis     == 1..MaxAppends
Families == 1..MaxAppends

TokenFacts ==
    {TokenRevoked(j) : j \in Jtis} \cup {RefreshTokenRedeemed(j) : j \in Jtis}
        \cup {FamilyRevoked(f) : f \in Families}
        \cup {SessionStarted(s, f) : s \in Subjects, f \in Families}

TrustFacts == ConsentFacts \cup TokenFacts

ASSUME TheLogTakesThem == TrustFacts \subseteq Facts

vars == <<wvars, consents, ledger, current, handler, held, spent, ended>>

Held == [jti : Jtis, family : Families, sub : Subjects]

Idle == [facts |-> <<>>, issues |-> {}, spends |-> {}, ends |-> {}]

-----------------------------------------------------------------------------
(* Rebuilding the indexes: each __init__ feeds wal.entries() to its        *)
(* _index.  `skipped` are entries that do not count.                       *)

Indexed(indexes, entry) ==
    [consents |-> IndexConsent(indexes.consents, entry),
     ledger   |-> Index(indexes.ledger, entry.fact)]

Replay(log, skipped) ==
    LET after[n \in 0..Len(log)] ==
            IF n = 0 THEN [consents |-> NoConsents, ledger |-> EmptyLedger]
            ELSE IF log[n] \in skipped THEN after[n - 1]
            ELSE Indexed(after[n - 1], log[n])
    IN  after[Len(log)]

-----------------------------------------------------------------------------
Init ==
    /\ LogInit
    /\ consents = NoConsents
    /\ ledger = EmptyLedger
    /\ current = 1
    /\ handler = Idle
    /\ held = {} /\ spent = {} /\ ended = {}

(***************************************************************************)
(* A request arrives: the handler has checked what it checks and is about  *)
(* to append `facts`.  When all are written it answers, handing out the    *)
(* refresh tokens `issues`; `spends` and `ends` record what it claims.     *)
(***************************************************************************)
Begin(facts, issues, spends, ends) ==
    /\ up
    /\ handler = Idle
    /\ facts # <<>>
    /\ handler' = [facts |-> facts, issues |-> issues, spends |-> spends, ends |-> ends]
    /\ UNCHANGED <<wvars, consents, ledger, current, held, spent, ended>>

NewUuid == clock + 1

RefreshToken(jti, family, s) == [jti |-> jti, family |-> family, sub |-> s]

(* POST /legal/accept.                                                     *)
AcceptDisclaimer(t) ==
    /\ ~ HasAcceptedCurrentDisclaimer(consents, t, current)
    /\ Begin(<<DisclaimerAccepted(t, current)>>, {}, {}, {})

(* POST /legal/revoke.                                                     *)
RevokeAcceptance(t) ==
    Begin(<<DisclaimerRevoked(t)>>, {}, {}, {})

(* POST /token, POST /register.                                            *)
Login(s) ==
    /\ clock < MaxAppends
    /\ Begin(<<SessionStarted(s, NewUuid)>>, {RefreshToken(NewUuid, NewUuid, s)}, {}, {})

(* POST /accept-invite: the letter is used up before the session opens.    *)
AcceptInvite(s) ==
    LET second == NewUuid + 1 IN
    /\ clock + 1 < MaxAppends
    /\ Begin(<<TokenRevoked(NewUuid), SessionStarted(s, second)>>,
             {RefreshToken(second, second, s)}, {}, {})

(* POST /refresh.                                                          *)
Refresh(tok) ==
    LET outcome == RedemptionOutcome(ledger, tok.jti, tok.family)
    IN  \/ /\ outcome = "redeemed"
           /\ clock < MaxAppends
           /\ Begin(<<RefreshTokenRedeemed(tok.jti)>>,
                    {RefreshToken(NewUuid, tok.family, tok.sub)}, {tok.jti}, {})
        \/ /\ outcome = "reused"
           /\ Begin(<<FamilyRevoked(tok.family)>>, {}, {}, {tok.family})

(* POST /revoke of a refresh token.                                        *)
RevokeToken(tok) ==
    Begin(<<TokenRevoked(tok.jti)>>, {}, {}, {})

(* The cascade, in the order a Python set happens to have, after what the  *)
(* handler appends before it.                                              *)
Orders(S) ==
    {order \in [1..Cardinality(S) -> S] : \A x \in S : \E i \in DOMAIN order : order[i] = x}

EndAllSessions(s, before) ==
    \E families \in Orders(ledger.familiesBySubject[s]) :
        Begin(before \o [i \in 1..Len(families) |-> FamilyRevoked(families[i])],
              {}, {}, ledger.familiesBySubject[s])

(* DELETE /members/{email}.                                                *)
RemoveMember(s) == EndAllSessions(s, <<>>)

(* POST /reset-password: the letter is used up before the cascade.         *)
ResetPassword(s) ==
    /\ clock < MaxAppends
    /\ EndAllSessions(s, <<TokenRevoked(NewUuid)>>)

(***************************************************************************)
(* The next append of the handler returns, and _index takes the entry.     *)
(***************************************************************************)
AppendNext ==
    /\ handler.facts # <<>>
    /\ LET fact == Head(handler.facts)
           done == Len(handler.facts) = 1
       IN  /\ AppendOk(fact)
           /\ consents' = IndexConsent(consents, NextEntry(fact))
           /\ ledger' = Index(ledger, fact)
           /\ handler' = IF done THEN Idle ELSE [handler EXCEPT !.facts = Tail(@)]
           /\ held' = IF done THEN held \cup handler.issues ELSE held
           /\ spent' = IF done THEN spent \cup handler.spends ELSE spent
           /\ ended' = IF done THEN ended \cup handler.ends ELSE ended
    /\ UNCHANGED current

(* Mutant: the index is updated before the entry is written.               *)
IndexedBeforeWritten ==
    /\ handler.facts # <<>>
    /\ \E how \in WriteFailures :
         AppendFails(Head(handler.facts), how)
    /\ consents' = IndexConsent(consents, NextEntry(Head(handler.facts)))
    /\ handler' = Idle
    /\ UNCHANGED <<ledger, current, held, spent, ended>>

(* The append raises: the handler answers 500, _index is never called.     *)
AppendRaises ==
    /\ handler.facts # <<>>
    /\ \E how \in WriteFailures :
         AppendFails(Head(handler.facts), how)
    /\ handler' = Idle
    /\ UNCHANGED <<consents, ledger, current, held, spent, ended>>

(* The signer raises before anything is written or remembered.             *)
SigningRaises ==
    /\ handler.facts # <<>>
    /\ handler' = Idle
    /\ UNCHANGED <<wvars, consents, ledger, current, held, spent, ended>>

Crash ==
    /\ CrashLog
    /\ handler' = Idle
    /\ UNCHANGED <<consents, ledger, current, held, spent, ended>>

(* Mutants: an index is created and its log never replayed.                *)
TokensNotReplayed ==
    /\ StartLog
    /\ consents' = Replay(entries', {}).consents
    /\ ledger' = EmptyLedger
    /\ current' \in current..MaxVersion
    /\ UNCHANGED <<handler, held, spent, ended>>

ConsentsNotReplayed ==
    /\ StartLog
    /\ consents' = NoConsents
    /\ ledger' = Replay(entries', {}).ledger
    /\ current' \in current..MaxVersion
    /\ UNCHANGED <<handler, held, spent, ended>>

(* lifespan: the log is loaded, then both indexes are built from it.  The  *)
(* code deployed may be newer.                                             *)
Start ==
    /\ StartLog
    /\ consents' = Replay(entries', {}).consents
    /\ ledger' = Replay(entries', {}).ledger
    /\ current' \in current..MaxVersion
    /\ UNCHANGED <<handler, held, spent, ended>>

Next ==
    \/ \E t \in ConsentTenants : AcceptDisclaimer(t)
    \/ \E t \in ConsentTenants : RevokeAcceptance(t)
    \/ \E s \in Subjects : Login(s)
    \/ \E s \in Subjects : AcceptInvite(s)
    \/ \E tok \in held : Refresh(tok)
    \/ \E tok \in held : RevokeToken(tok)
    \/ \E s \in Subjects : RemoveMember(s)
    \/ \E s \in Subjects : ResetPassword(s)
    \/ AppendNext
    \/ AppendRaises
    \/ SigningRaises
    \/ Crash
    \/ Start

Spec == Init /\ [][Next]_vars

-----------------------------------------------------------------------------
TypeOK ==
    /\ LogTypeOK
    /\ consents \in ConsentType
    /\ ledger \in LedgerType(Jtis, Families)
    /\ current \in Versions
    /\ held \subseteq Held
    /\ spent \subseteq Jtis
    /\ ended \subseteq Families

(* The entries whose append() returned, or that a restart read back.       *)
Effective(i) == i \in 1..Len(entries) /\ entries[i] \notin lost

(***************************************************************************)
(* Both indexes are what a replay of the log gives, except for the entries *)
(* whose write failed: interrupted cascades, failed writes and restarts    *)
(* never leave an index ahead of the log or behind it.                     *)
(***************************************************************************)
IndexesMatchTheLog ==
    up => /\ consents = Replay(entries, lost).consents
          /\ ledger = Replay(entries, lost).ledger

(***************************************************************************)
(* What the docstrings say without that exception: an index is exactly     *)
(* re-derivable by replaying wal.entries() from scratch (consent.py:79-81, *)
(* token_ledger.py:3-4).  It is not: append() keeps in memory the entry it *)
(* could not write, and no index takes it.                                 *)
(***************************************************************************)
IndexesAreRederivable ==
    up => /\ consents = Replay(entries, {}).consents
          /\ ledger = Replay(entries, {}).ledger

(***************************************************************************)
(* What was answered stays true in every later process: a rotated refresh  *)
(* token is spent, and a session ended by a cascade or by a reuse is       *)
(* closed.                                                                 *)
(***************************************************************************)
AnswersOutliveTheProcess ==
    up => /\ spent \subseteq ledger.redeemedRefreshJtis
          /\ ended \subseteq ledger.revokedFamilies

(***************************************************************************)
(* Keeping only the latest acceptance is enough (consent.py:85-92): the    *)
(* gate lets a tenant through exactly when the log holds an acceptance of  *)
(* the version in force that no later revocation took back.                *)
(***************************************************************************)
LatestAcceptanceIsEnough ==
    up => \A t \in ConsentTenants :
        HasAcceptedCurrentDisclaimer(consents, t, current) <=>
            \E i \in 1..Len(entries) :
                /\ Effective(i)
                /\ entries[i].fact = DisclaimerAccepted(t, current)
                /\ \A k \in i..Len(entries) :
                       Effective(k) => entries[k].fact # DisclaimerRevoked(t)

(***************************************************************************)
(* A cached acceptance leads back to the log entry it was derived from     *)
(* (consent.py:58-64), as long as the chain verifies.                      *)
(***************************************************************************)
ConsentIsTraceable ==
    up /\ Verify(entries) =>
        \A t \in ConsentTenants :
            LET record == consents[t]
            IN  record # NoRecord =>
                  /\ record.walSequence < Len(entries)
                  /\ entries[record.walSequence + 1].fact =
                         DisclaimerAccepted(t, record.version)

(***************************************************************************)
(* The consent gate implements the consent register.  A change is doubtful *)
(* while its line, whose write failed, can still be read back.             *)
(***************************************************************************)
DoubtfulEntries ==
    IF Loadable THEN {e \in lost : \E i \in 1..Len(disk) : disk[i] = e} ELSE {}

ChangeOf(fact) ==
    [party |-> fact.tenant,
     value |-> IF fact \in {DisclaimerRevoked(t) : t \in ConsentTenants}
                 THEN 0 ELSE fact.version]

Register == INSTANCE ConsentRegister WITH
    Parties    <- ConsentTenants,
    Standings  <- 0..MaxVersion,
    Unaccepted <- 0,
    standing   <- [t \in ConsentTenants |-> consents[t].version],
    doubtful   <- {ChangeOf(e.fact) : e \in {d \in DoubtfulEntries : d.fact \in ConsentFacts}},
    serving    <- up

ImplementsConsentRegister == Register!Spec
=============================================================================
