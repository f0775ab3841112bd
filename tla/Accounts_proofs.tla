---------------------------- MODULE Accounts_proofs ----------------------------
(***************************************************************************)
(* What the account routes keep for any number of accounts, requests,      *)
(* mails and sessions: everything, as long as no two handlers overlapped   *)
(* and no append to the log raised.  Over the repository in memory they    *)
(* never overlap; over SQL this is exactly what overlapping may cost.      *)
(***************************************************************************)
EXTENDS Accounts, TLAPS

Real(account) == account \in AccountSet \ {NoAccount}

(***************************************************************************)
(* Which requests get where, and what they carry by then.                  *)
(***************************************************************************)
Shape(r) ==
    /\ r.kind = "none" <=> r.pc = "idle"
    /\ r.pc = "admitted" => r.kind \in {"invite", "role", "remove"}
    /\ r.pc = "target" => r.kind \in {"invite", "role", "remove"}
    /\ r.pc = "owners" => r.kind \in {"role", "remove"}
    /\ r.pc = "read" => r.kind \in {"accept", "reset"}
    /\ r.pc \in {"add", "merge"} => r.kind \in {"register", "verify", "accept", "reset", "role"}
    /\ r.pc = "remove" => r.kind = "remove"
    /\ r.pc = "finish" => r.kind \in {"register", "login", "accept", "reset", "remove"}
    /\ r.pc # "idle" => r.email \in Subjects
    /\ r.pc = "admitted" => r.caller \in Subjects
    /\ r.kind = "role" => r.role \in Roles
    /\ r.kind \in {"accept", "reset", "invite"} => r.tenant \in Uuids
    /\ r.kind \in {"accept", "reset"} => r.jti \in Uuids
    /\ r.pc \in {"add", "merge"} \/ (r.pc = "finish" /\ r.kind # "remove")
         \/ (r.pc = "owners" /\ r.kind = "role") => Real(r.row)

(***************************************************************************)
(* True whatever overlaps and whatever fails.                              *)
(***************************************************************************)
BaseInv ==
    /\ TypeOK
    /\ \A w \in Workers : Shape(requests[w])
    /\ \A s \in sessions : s.family \in ledger.familiesBySubject[s.sub]
    /\ \A a \in redeemed : a.jti \in ledger.revokedJtis
    /\ SqlBackend \/ ~ overlapped
    /\ logFailures <= MaxLogFailures

(***************************************************************************)
(* Every password hash is new, and a registration on its way to the        *)
(* repository is alone to carry its own.                                   *)
(***************************************************************************)
Registering(r) == r.kind = "register" /\ r.pc \in {"add", "merge"}

HashesAreFresh ==
    /\ \A e \in Subjects : users[e].hash < nextHash
    /\ \A w \in Workers : requests[w].row.hash < nextHash
    /\ \A w \in Workers : Registering(requests[w]) =>
         /\ \A e \in Subjects : users[e].hash # requests[w].row.hash
         /\ \A v \in Workers \ {w} : requests[v].row.hash # requests[w].row.hash
         /\ requests[w].pc = "merge" => requests[w].seen.hash # requests[w].row.hash

OneHandler ==
    \A v, w \in Workers : InHandler(v) /\ InHandler(w) => v = w

AnotherOwner(t, e) ==
    \E other \in Subjects \ {e} : IsMember(other, t) /\ users[other].role = "owner"

(***************************************************************************)
(* A handler that runs alone finds the repository as it read it: what each *)
(* was told by its checks is still so when it writes.                      *)
(***************************************************************************)
Undisturbed(r) ==
    LET account == users[r.email] IN
    /\ r.pc \in {"add", "merge"} /\ r.kind \in {"register", "accept"} => account = NoAccount
    /\ r.pc \in {"add", "merge"} /\ r.kind = "register" => r.row.role = "owner"
    /\ r.pc \in {"add", "merge"} /\ r.kind = "verify" =>
         Real(account) /\ r.row = [account EXCEPT !.verified = TRUE]
    /\ r.pc \in {"add", "merge"} /\ r.kind = "reset" =>
         Real(account) /\ r.row = [account EXCEPT !.hash = r.row.hash]
    /\ r.kind = "role" /\ r.pc \in {"owners", "add", "merge"} =>
         Real(account) /\ account.tenant = r.tenant /\ r.row = [account EXCEPT !.role = r.role]
    /\ r.pc \in {"add", "merge"} /\ r.kind = "role" /\ account.role = "owner" /\ r.role # "owner" =>
         AnotherOwner(r.tenant, r.email)
    /\ r.kind = "remove" /\ r.pc \in {"owners", "remove"} =>
         Real(account) /\ account.tenant = r.tenant
    /\ r.pc = "remove" /\ account.role = "owner" => AnotherOwner(r.tenant, r.email)
    /\ r.pc = "merge" => r.seen = account
    /\ r.kind \in {"accept", "reset"} => r.jti \notin ledger.revokedJtis
    /\ r.pc = "finish" /\ r.kind # "remove" => account = r.row
    /\ r.pc = "finish" /\ r.kind = "remove" => account = NoAccount

BeingRemoved(e) ==
    \E w \in Workers : requests[w].kind = "remove" /\ requests[w].pc = "finish"
                          /\ requests[w].email = e

BeingReset(e) ==
    \E w \in Workers : requests[w].kind = "reset" /\ requests[w].pc = "finish"
                          /\ requests[w].email = e

(***************************************************************************)
(* A session that works fits its holder's account, except while the        *)
(* handler that ends it is on its way to the ledger.                       *)
(***************************************************************************)
Fits(s) ==
    \/ BeingRemoved(s.sub)
    \/ /\ Real(users[s.sub])
       /\ users[s.sub].tenant = s.tenant
       /\ users[s.sub].hash = s.hash \/ BeingReset(s.sub)

SessionsFit == \A s \in sessions : Live(s) => Fits(s)

(* What holds while no two handlers have overlapped.                       *)
AloneInv ==
    /\ OneHandler
    /\ \A w \in Workers : InHandler(w) => Undisturbed(requests[w])
    /\ TenantsKeepAnOwner
    /\ MailIsSingleUse
    /\ logFailures = 0 => SessionsFit

AccountsInv ==
    /\ BaseInv
    /\ HashesAreFresh
    /\ ~ overlapped => AloneInv

-----------------------------------------------------------------------------
(***************************************************************************)
(* Accounts, requests and the ledger as data.                              *)
(***************************************************************************)

LEMMA AccountsAreReal ==
    ASSUME NEW t \in Uuids, NEW role \in Roles, NEW h \in Uuids
    PROVE  /\ Account(t, role, h) \in AccountSet
           /\ Account(t, role, h) # NoAccount
  BY DEF Account, AccountSet, NoAccount, Uuids

LEMMA RealAccounts ==
    ASSUME NEW a \in AccountSet, a # NoAccount
    PROVE  /\ a \in [tenant : Uuids, role : Roles, hash : Uuids, verified : BOOLEAN]
           /\ [a EXCEPT !.verified = TRUE] \in AccountSet \ {NoAccount}
           /\ \A h \in Uuids : [a EXCEPT !.hash = h] \in AccountSet \ {NoAccount}
           /\ \A role \in Roles : [a EXCEPT !.role = role] \in AccountSet \ {NoAccount}
  BY DEF AccountSet, NoAccount, Uuids

LEMMA NoAccountIsTyped == NoAccount \in AccountSet
  BY DEF AccountSet

LEMMA NobodyIsIdle == Idle \in RequestSet /\ Shape(Idle)
  BY DEF Idle, RequestSet, Shape, AccountSet, Pcs, Real

(* The ledger only grows, and keeps its type.                              *)
Grows(old, new) ==
    /\ new \in LedgerType(Uuids, Uuids)
    /\ old.revokedJtis \subseteq new.revokedJtis
    /\ old.revokedFamilies \subseteq new.revokedFamilies
    /\ \A s \in Subjects : old.familiesBySubject[s] \subseteq new.familiesBySubject[s]

LEMMA GrowsInSteps ==
    ASSUME NEW a, NEW b, NEW c, Grows(a, b), Grows(b, c)
    PROVE  Grows(a, c)
  BY DEF Grows

LEMMA RevokeGrows ==
    ASSUME NEW l \in LedgerType(Uuids, Uuids), NEW j \in Uuids
    PROVE  /\ Grows(l, Revoke(l, j))
           /\ Revoke(l, j).revokedJtis = l.revokedJtis \cup {j}
           /\ Revoke(l, j).revokedFamilies = l.revokedFamilies
           /\ Revoke(l, j).familiesBySubject = l.familiesBySubject
  BY DEF LedgerType, Revoke, Index, TokenRevoked, Grows

LEMMA SessionStartedGrows ==
    ASSUME NEW l \in LedgerType(Uuids, Uuids), NEW s \in Subjects, NEW f \in Uuids
    PROVE  /\ Grows(l, RecordSessionStarted(l, s, f))
           /\ RecordSessionStarted(l, s, f).revokedJtis = l.revokedJtis
           /\ RecordSessionStarted(l, s, f).revokedFamilies = l.revokedFamilies
           /\ f \in RecordSessionStarted(l, s, f).familiesBySubject[s]
  BY DEF LedgerType, RecordSessionStarted, Index, SessionStarted, Grows

LEMMA CascadeGrows ==
    ASSUME NEW l \in LedgerType(Uuids, Uuids), NEW s \in Subjects
    PROVE  /\ Grows(l, RevokeAllSessionsForSubject(l, s))
           /\ RevokeAllSessionsForSubject(l, s).revokedJtis = l.revokedJtis
           /\ RevokeAllSessionsForSubject(l, s).revokedFamilies
                = l.revokedFamilies \cup l.familiesBySubject[s]
           /\ RevokeAllSessionsForSubject(l, s).familiesBySubject = l.familiesBySubject
  BY DEF LedgerType, RevokeAllSessionsForSubject, Grows

LEMMA BrokenCascadesGrow ==
    ASSUME NEW l \in LedgerType(Uuids, Uuids), NEW s \in Subjects,
           NEW m \in BrokenCascades(l, s)
    PROVE  Grows(l, m) /\ m.revokedJtis = l.revokedJtis
  <1>1. PICK some \in SUBSET l.familiesBySubject[s] :
             m = [l EXCEPT !.revokedFamilies = l.revokedFamilies \cup some]
    BY DEF BrokenCascades
  <1>2. some \subseteq Uuids
    BY DEF LedgerType
  <1> QED
    BY <1>1, <1>2 DEF LedgerType, Grows

-----------------------------------------------------------------------------
(***************************************************************************)
(* One request at a time: an action moves the request it is about, to a    *)
(* request of the right shape, and no other.                               *)
(***************************************************************************)
Moves(w) ==
    /\ requests' = [requests EXCEPT ![w] = requests'[w]]
    /\ requests'[w] \in RequestSet
    /\ Shape(requests'[w])

LEMMA BecomesMoves ==
    ASSUME TypeOK, NEW w \in Workers, NEW r, Becomes(w, r), r \in RequestSet, Shape(r)
    PROVE  Moves(w)
  BY DEF Becomes, Moves, TypeOK

LEMMA AnswersMoves ==
    ASSUME TypeOK, NEW w \in Workers, Answers(w)
    PROVE  Moves(w) /\ requests'[w] = Idle
  BY NobodyIsIdle DEF Answers, Becomes, Moves, TypeOK

LEMMA StaysMoves ==
    ASSUME BaseInv, NEW w \in Workers, UNCHANGED requests
    PROVE  Moves(w)
  BY DEF BaseInv, TypeOK, Moves

LEMMA ArrivalsMove ==
    ASSUME BaseInv, NEW w \in Workers, Request(w)
    PROVE  Moves(w)
  <1> USE DEF BaseInv
  <1> SUFFICES ASSUME TypeOK PROVE Moves(w)
    OBVIOUS
  <1>1. ASSUME NEW e \in Subjects, Register(w, e) PROVE Moves(w)
    <2> DEFINE r == [Idle EXCEPT !.kind = "register", !.pc = "add", !.email = e,
                                 !.row = Account(nextHash, "owner", nextHash)]
    <2>1. Becomes(w, r)
      BY <1>1 DEF Register
    <2>2. nextHash \in Uuids /\ "owner" \in Roles
      BY DEF TypeOK, Roles
    <2>3. r \in RequestSet /\ Shape(r)
      BY <2>2, AccountsAreReal, NoAccountIsTyped DEF Idle, RequestSet, Shape, Pcs, Kinds, Real
    <2> QED
      BY <2>1, <2>3, BecomesMoves
  <1>2. ASSUME NEW e \in Subjects, Login(w, e) PROVE Moves(w)
    <2> DEFINE r == [Idle EXCEPT !.kind = "login", !.pc = "finish", !.email = e,
                                 !.row = users[e]]
    <2>1. Becomes(w, r) /\ users[e] \in AccountSet /\ users[e] # NoAccount
      BY <1>2 DEF Login, TypeOK
    <2>2. r \in RequestSet /\ Shape(r)
      BY <2>1, NoAccountIsTyped DEF Idle, RequestSet, Shape, Pcs, Kinds, Real
    <2> QED
      BY <2>1, <2>2, BecomesMoves
  <1>3. ASSUME NEW e \in Subjects, RequestPasswordReset(w, e) PROVE Moves(w)
    BY <1>3, StaysMoves DEF RequestPasswordReset
  <1>4. ASSUME NEW tok \in mail, VerifyEmail(w, tok) PROVE Moves(w)
    <2> DEFINE r == [Idle EXCEPT !.kind = "verify", !.pc = "add", !.email = tok.sub,
                                 !.row = [users[tok.sub] EXCEPT !.verified = TRUE]]
    <2>1. Becomes(w, r) /\ tok.sub \in Subjects
      BY <1>4 DEF VerifyEmail, TypeOK
    <2>2. users[tok.sub] \in AccountSet /\ users[tok.sub] # NoAccount
      BY <1>4, <2>1 DEF VerifyEmail, TypeOK
    <2>3. [users[tok.sub] EXCEPT !.verified = TRUE] \in AccountSet \ {NoAccount}
      BY <2>2, RealAccounts
    <2>4. r \in RequestSet /\ Shape(r)
      BY <2>1, <2>3, NoAccountIsTyped DEF Idle, RequestSet, Shape, Pcs, Kinds, Real
    <2> QED
      BY <2>1, <2>4, BecomesMoves
  <1>5. ASSUME NEW tok \in mail, NEW kind \in {"accept", "reset"}, NEW type,
               PresentToken(w, tok, kind, type)
        PROVE  Moves(w)
    <2> DEFINE r == [Idle EXCEPT !.kind = kind, !.pc = "read", !.email = tok.sub,
                                 !.tenant = tok.tenant, !.jti = tok.jti]
    <2>1. Becomes(w, r) /\ tok.sub \in Subjects /\ tok.tenant \in Uuids /\ tok.jti \in Uuids
      BY <1>5 DEF PresentToken, TypeOK
    <2>2. r \in RequestSet /\ Shape(r)
      BY <2>1 DEF Idle, RequestSet, Shape, Pcs, Kinds, AccountSet, Uuids
    <2> QED
      BY <2>1, <2>2, BecomesMoves
  <1>6. ASSUME NEW tok \in mail, RevokeMail(w, tok) PROVE Moves(w)
    BY <1>6, StaysMoves DEF RevokeMail
  <1>7. ASSUME NEW session \in sessions, NEW e \in Subjects,
               NEW kind \in {"invite", "remove"}, Admit(w, session, kind, e, "none")
        PROVE  Moves(w)
    <2> DEFINE r == [Idle EXCEPT !.kind = kind, !.pc = "admitted",
                                 !.caller = session.sub, !.tenant = session.tenant,
                                 !.email = e, !.role = "none"]
    <2>1. Becomes(w, r) /\ session.sub \in Subjects /\ session.tenant \in Uuids
      BY <1>7 DEF Admit, TypeOK
    <2>2. r \in RequestSet /\ Shape(r)
      BY <2>1 DEF Idle, RequestSet, Shape, Pcs, Kinds, AccountSet, Uuids
    <2> QED
      BY <2>1, <2>2, BecomesMoves
  <1>8. ASSUME NEW session \in sessions, NEW e \in Subjects, NEW role \in Roles,
               Admit(w, session, "role", e, role)
        PROVE  Moves(w)
    <2> DEFINE r == [Idle EXCEPT !.kind = "role", !.pc = "admitted",
                                 !.caller = session.sub, !.tenant = session.tenant,
                                 !.email = e, !.role = role]
    <2>1. Becomes(w, r) /\ session.sub \in Subjects /\ session.tenant \in Uuids
      BY <1>8 DEF Admit, TypeOK
    <2>2. r \in RequestSet /\ Shape(r)
      BY <2>1 DEF Idle, RequestSet, Shape, Pcs, Kinds, AccountSet, Uuids
    <2> QED
      BY <2>1, <2>2, BecomesMoves
  <1> QED
    BY <1>1, <1>2, <1>3, <1>4, <1>5, <1>6, <1>7, <1>8
       DEF Request, AcceptInvite, ResetPassword

LEMMA RequestsAreTyped ==
    ASSUME BaseInv, NEW w \in Workers
    PROVE  /\ requests[w] \in RequestSet
           /\ Shape(requests[w])
           /\ requests[w].row \in AccountSet
           /\ requests[w].pc # "idle" =>
                /\ requests[w].email \in Subjects
                /\ users[requests[w].email] \in AccountSet
  BY DEF BaseInv, TypeOK, Shape, RequestSet

(* Only the program counter, and perhaps the account, change.              *)
LEMMA GoesToMoves ==
    ASSUME BaseInv, NEW w \in Workers, NEW pc \in Pcs, GoesTo(w, pc),
           Shape([requests[w] EXCEPT !.pc = pc])
    PROVE  Moves(w)
  <1>1. [requests[w] EXCEPT !.pc = pc] \in RequestSet
    BY RequestsAreTyped DEF RequestSet
  <1> QED
    BY <1>1, BecomesMoves DEF GoesTo, BaseInv

LEMMA WritesMoves ==
    ASSUME BaseInv, NEW w \in Workers, NEW pc \in {"owners", "add"},
           NEW account \in AccountSet \ {NoAccount},
           Writes(w, pc, account),
           requests[w].kind \in {"accept", "reset", "role"},
           pc = "owners" => requests[w].kind = "role",
           requests[w].pc # "idle"
    PROVE  Moves(w)
  <1> DEFINE r == [requests[w] EXCEPT !.pc = pc, !.row = account]
  <1>1. requests[w] \in RequestSet /\ Shape(requests[w])
    BY RequestsAreTyped
  <1>2. r \in RequestSet
    BY <1>1 DEF RequestSet, Pcs
  <1>3. Shape(r)
    BY <1>1 DEF RequestSet, Shape, Real
  <1> QED
    BY <1>2, <1>3, BecomesMoves DEF Writes, BaseInv

LEMMA AfterAddMoves ==
    ASSUME BaseInv, NEW w \in Workers, requests[w].pc \in {"add", "merge"}, AfterAdd(w)
    PROVE  Moves(w)
  <1>1. requests[w] \in RequestSet /\ Shape(requests[w])
    BY RequestsAreTyped
  <1>2. CASE requests[w].kind \in {"role", "verify"}
    BY <1>2, AnswersMoves DEF AfterAdd, BaseInv
  <1>3. CASE requests[w].kind \notin {"role", "verify"}
    <2> DEFINE r == [requests[w] EXCEPT !.pc = "finish", !.seen = NoAccount]
    <2>1. Becomes(w, r)
      BY <1>3 DEF AfterAdd
    <2>2. r \in RequestSet
      BY <1>1 DEF RequestSet, Pcs, AccountSet
    <2>3. Shape(r)
      BY <1>1, <1>3 DEF RequestSet, Shape, Real
    <2> QED
      BY <2>1, <2>2, <2>3, BecomesMoves DEF BaseInv
  <1> QED
    BY <1>2, <1>3

LEMMA ContinuationsMove ==
    ASSUME BaseInv, NEW w \in Workers, Step(w)
    PROVE  Moves(w)
  <1>0. /\ requests[w] \in RequestSet /\ Shape(requests[w])
        /\ requests[w].row \in AccountSet
        /\ TypeOK
    BY RequestsAreTyped DEF BaseInv
  <1>e. requests[w].pc # "idle" =>
          requests[w].email \in Subjects /\ users[requests[w].email] \in AccountSet
    BY RequestsAreTyped
  <1> USE AnswersMoves, <1>0
  <1>1. CASE OwnerGate(w)
    <2>1. GoesTo(w, "target") => Moves(w)
      BY <1>1, GoesToMoves DEF OwnerGate, Shape, RequestSet, Pcs
    <2> QED
      BY <1>1, <2>1 DEF OwnerGate
  <1>2. CASE Invite(w)
    BY <1>2 DEF Invite
  <1>3. CASE RoleTarget(w)
    <2>0. requests[w].kind = "role" /\ requests[w].pc = "target"
      BY <1>3 DEF RoleTarget, At
    <2>1. CASE IsMember(requests[w].email, requests[w].tenant)
      <3>1. /\ requests[w].role \in Roles
            /\ users[requests[w].email] \in AccountSet \ {NoAccount}
        BY <2>0, <2>1, <1>e DEF Shape, IsMember
      <3>2. [users[requests[w].email] EXCEPT !.role = requests[w].role]
                \in AccountSet \ {NoAccount}
        BY <3>1, RealAccounts
      <3>3. \E pc \in {"owners", "add"} :
               Writes(w, pc, [users[requests[w].email] EXCEPT !.role = requests[w].role])
        BY <1>3, <2>1 DEF RoleTarget
      <3> QED
        BY <2>0, <3>2, <3>3, WritesMoves
    <2>2. CASE ~ IsMember(requests[w].email, requests[w].tenant)
      BY <1>3, <2>2 DEF RoleTarget
    <2> QED
      BY <2>1, <2>2
  <1>4. CASE RemoveTarget(w)
    <2>1. \A pc \in {"owners", "remove"} : GoesTo(w, pc) => Moves(w)
      BY <1>4, GoesToMoves DEF RemoveTarget, At, Shape, RequestSet, Pcs
    <2> QED
      BY <1>4, <2>1 DEF RemoveTarget
  <1>5. CASE CountOwners(w)
    <2>0. requests[w].pc = "owners" /\ requests[w].kind \in {"role", "remove"}
      BY <1>5 DEF CountOwners, Shape
    <2>1. GoesTo(w, IF requests[w].kind = "role" THEN "add" ELSE "remove") => Moves(w)
      <3>1. CASE requests[w].kind = "role"
        BY <2>0, <3>1, GoesToMoves DEF Shape, RequestSet, Pcs
      <3>2. CASE requests[w].kind = "remove"
        BY <2>0, <3>2, GoesToMoves DEF Shape, RequestSet, Pcs
      <3> QED
        BY <2>0, <3>1, <3>2
    <2> QED
      BY <1>5, <2>1 DEF CountOwners
  <1>6. CASE InviteeIsNew(w)
    <2>0. requests[w].kind = "accept" /\ requests[w].pc = "read"
      BY <1>6 DEF InviteeIsNew, At
    <2>1. Account(requests[w].tenant, "member", nextHash) \in AccountSet \ {NoAccount}
      BY <2>0, AccountsAreReal DEF Shape, TypeOK, Roles
    <2>2. Writes(w, "add", Account(requests[w].tenant, "member", nextHash)) => Moves(w)
      BY <2>0, <2>1, WritesMoves
    <2> QED
      BY <1>6, <2>2 DEF InviteeIsNew
  <1>7. CASE AccountStillExists(w)
    <2>0. requests[w].kind = "reset" /\ requests[w].pc = "read"
      BY <1>7 DEF AccountStillExists, At
    <2>1. CASE users[requests[w].email] # NoAccount
      <3>1. [users[requests[w].email] EXCEPT !.hash = nextHash] \in AccountSet \ {NoAccount}
        BY <2>0, <2>1, <1>e, RealAccounts DEF TypeOK
      <3> QED
        BY <1>7, <2>0, <2>1, <3>1, WritesMoves DEF AccountStillExists
    <2>2. CASE users[requests[w].email] = NoAccount
      BY <1>7, <2>2 DEF AccountStillExists
    <2> QED
      BY <2>1, <2>2
  <1>8. CASE AddInMemory(w)
    BY <1>8, AfterAddMoves DEF AddInMemory, Stored
  <1>9. CASE MergeLoads(w)
    <2> DEFINE r == [requests[w] EXCEPT !.pc = "merge", !.seen = users[requests[w].email]]
    <2>1. Becomes(w, r) /\ requests[w].pc = "add"
      BY <1>9 DEF MergeLoads
    <2>2. r \in RequestSet
      BY <2>1, <1>e DEF RequestSet, Pcs
    <2>3. Shape(r)
      BY <2>1 DEF RequestSet, Shape
    <2> QED
      BY <2>1, <2>2, <2>3, BecomesMoves
  <1>10. CASE MergeCommits(w)
    BY <1>10, AfterAddMoves DEF MergeCommits, Stored
  <1>11. CASE RemoveAccount(w)
    BY <1>11, GoesToMoves DEF RemoveAccount, At, Shape, RequestSet, Pcs
  <1>12. CASE FinishRegister(w) \/ FinishLogin(w) \/ FinishAccept(w) \/ FinishReset(w)
                \/ FinishRemove(w) \/ LogRaises(w)
    BY <1>12 DEF FinishRegister, FinishLogin, FinishAccept, FinishReset, FinishRemove, LogRaises
  <1> QED
    BY <1>1, <1>2, <1>3, <1>4, <1>5, <1>6, <1>7, <1>8, <1>9, <1>10, <1>11, <1>12 DEF Step

-----------------------------------------------------------------------------
(***************************************************************************)
(* What holds whatever overlaps and whatever fails.                        *)
(***************************************************************************)

(* An action that changes at most what requests carry and what was mailed. *)
Quiet(w) ==
    /\ Moves(w) /\ Runs(w)
    /\ UNCHANGED <<users, sessions, ledger, nextFamily, history>>
    /\ mail' \subseteq [jti : Uuids, type : MailTypes, sub : Subjects, tenant : Uuids]
    /\ nextJti' \in Uuids /\ nextHash' \in Uuids

LEMMA MailIsTyped ==
    ASSUME TypeOK, NEW type \in MailTypes, NEW s \in Subjects, NEW t \in Uuids,
           MintMail(type, s, t)
    PROVE  /\ mail' \subseteq [jti : Uuids, type : MailTypes, sub : Subjects, tenant : Uuids]
           /\ nextJti' \in Uuids
  BY DEF TypeOK, MintMail, Uuids

LEMMA HashesAreTyped ==
    ASSUME TypeOK, TakesHash \/ UNCHANGED nextHash
    PROVE  nextHash' \in Uuids
  BY DEF TypeOK, TakesHash, Uuids

LEMMA ArrivalsAreQuiet ==
    ASSUME BaseInv, NEW w \in Workers, Request(w),
           \A tok \in mail : ~ RevokeMail(w, tok)
    PROVE  Quiet(w) /\ requests[w] = Idle
  <1>0. TypeOK /\ Moves(w)
    BY ArrivalsMove DEF BaseInv
  <1>1. ASSUME NEW e \in Subjects, Register(w, e) PROVE Quiet(w) /\ requests[w] = Idle
    BY <1>0, <1>1, HashesAreTyped DEF Register, Quiet, Arrives, TypeOK
  <1>2. ASSUME NEW e \in Subjects, Login(w, e) PROVE Quiet(w) /\ requests[w] = Idle
    BY <1>0, <1>2 DEF Login, Quiet, Arrives, TypeOK, uuids
  <1>3. ASSUME NEW e \in Subjects, RequestPasswordReset(w, e)
        PROVE  Quiet(w) /\ requests[w] = Idle
    <2>1. users[e] \in AccountSet /\ users[e] # NoAccount
      BY <1>0, <1>3 DEF TypeOK, RequestPasswordReset
    <2>2. users[e].tenant \in Uuids
      BY <2>1, RealAccounts
    <2>3. /\ mail' \subseteq [jti : Uuids, type : MailTypes, sub : Subjects, tenant : Uuids]
          /\ nextJti' \in Uuids
      BY <1>0, <1>3, <2>2, MailIsTyped DEF RequestPasswordReset, MailTypes
    <2> QED
      BY <1>0, <1>3, <2>3, HashesAreTyped DEF RequestPasswordReset, Quiet, Arrives
  <1>4. ASSUME NEW tok \in mail, VerifyEmail(w, tok) PROVE Quiet(w) /\ requests[w] = Idle
    BY <1>0, <1>4 DEF VerifyEmail, Quiet, Arrives, TypeOK, uuids
  <1>5. ASSUME NEW tok \in mail, AcceptInvite(w, tok) \/ ResetPassword(w, tok)
        PROVE  Quiet(w) /\ requests[w] = Idle
    BY <1>0, <1>5 DEF AcceptInvite, ResetPassword, PresentToken, Quiet, Arrives, TypeOK, uuids
  <1>6. ASSUME NEW session \in sessions, NEW e \in Subjects, NEW kind, NEW role,
               Admit(w, session, kind, e, role)
        PROVE  Quiet(w) /\ requests[w] = Idle
    BY <1>0, <1>6 DEF Admit, Quiet, Arrives, TypeOK, uuids
  <1> QED
    BY <1>1, <1>2, <1>3, <1>4, <1>5, <1>6 DEF Request

(* The continuations that only read.                                       *)
Reads(w) ==
    \/ OwnerGate(w) \/ Invite(w) \/ RoleTarget(w) \/ RemoveTarget(w) \/ CountOwners(w)
    \/ InviteeIsNew(w) \/ AccountStillExists(w) \/ MergeLoads(w)

LEMMA ReadsAreQuiet ==
    ASSUME BaseInv, NEW w \in Workers, Reads(w)
    PROVE  Quiet(w) /\ requests[w].pc \notin {"idle", "finish"}
  <1>0. TypeOK /\ Moves(w)
    BY ContinuationsMove DEF BaseInv, Reads, Step
  <1>1. CASE OwnerGate(w)
    BY <1>0, <1>1 DEF OwnerGate, Quiet, TypeOK, uuids
  <1>2. CASE Invite(w)
    <2>1. requests[w].email \in Subjects /\ requests[w].tenant \in Uuids
      BY <1>2, RequestsAreTyped DEF Invite, At, Shape
    <2>2. /\ mail' \subseteq [jti : Uuids, type : MailTypes, sub : Subjects, tenant : Uuids]
          /\ nextJti' \in Uuids
      <3>1. CASE users[requests[w].email] = NoAccount
        BY <1>0, <1>2, <2>1, <3>1, MailIsTyped DEF Invite, MailTypes
      <3>2. CASE users[requests[w].email] # NoAccount
        BY <1>0, <1>2, <3>2 DEF Invite, NoMail, TypeOK
      <3> QED
        BY <3>1, <3>2
    <2> QED
      BY <1>0, <1>2, <2>2, HashesAreTyped DEF Invite, Quiet, At
  <1>3. CASE RoleTarget(w)
    BY <1>0, <1>3 DEF RoleTarget, At, Quiet, TypeOK, uuids
  <1>4. CASE RemoveTarget(w)
    BY <1>0, <1>4 DEF RemoveTarget, At, Quiet, TypeOK, uuids
  <1>5. CASE CountOwners(w)
    BY <1>0, <1>5 DEF CountOwners, Quiet, TypeOK, uuids
  <1>6. CASE InviteeIsNew(w)
    <2>1. nextHash' \in Uuids
      BY <1>0, <1>6, HashesAreTyped DEF InviteeIsNew
    <2> QED
      BY <1>0, <1>6, <2>1 DEF InviteeIsNew, At, Quiet, TypeOK
  <1>7. CASE AccountStillExists(w)
    <2>1. nextHash' \in Uuids
      BY <1>0, <1>7, HashesAreTyped DEF AccountStillExists
    <2> QED
      BY <1>0, <1>7, <2>1 DEF AccountStillExists, At, Quiet, TypeOK
  <1>8. CASE MergeLoads(w)
    BY <1>0, <1>8 DEF MergeLoads, Quiet, TypeOK, uuids
  <1> QED
    BY <1>1, <1>2, <1>3, <1>4, <1>5, <1>6, <1>7, <1>8 DEF Reads

LEMMA MovesKeepRequests ==
    ASSUME BaseInv, NEW w \in Workers, Moves(w), Runs(w)
    PROVE  /\ requests' \in [Workers -> RequestSet]
           /\ \A v \in Workers : Shape(requests[v])'
           /\ \A v \in Workers \ {w} : requests'[v] = requests[v]
           /\ overlapped' \in BOOLEAN
           /\ SqlBackend \/ ~ overlapped'
  <1>1. requests \in [Workers -> RequestSet] /\ overlapped \in BOOLEAN
    BY DEF BaseInv, TypeOK
  <1>2. \A v \in Workers \ {w} : requests'[v] = requests[v]
    BY <1>1 DEF Moves
  <1>3. \A v \in Workers : Shape(requests'[v])
    BY <1>2 DEF Moves, BaseInv
  <1>4. \A v \in Workers : Shape(requests[v])'
    BY <1>3 DEF Shape, Real
  <1> QED
    BY <1>1, <1>2, <1>4 DEF Moves, Runs, BaseInv

LEMMA QuietKeepsBase ==
    ASSUME BaseInv, NEW w \in Workers, Quiet(w)
    PROVE  BaseInv'
  <1>1. /\ requests' \in [Workers -> RequestSet]
        /\ \A v \in Workers : Shape(requests[v])'
        /\ overlapped' \in BOOLEAN
        /\ SqlBackend \/ ~ overlapped'
    BY MovesKeepRequests DEF Quiet
  <1>2. TypeOK'
    BY <1>1 DEF Quiet, BaseInv, TypeOK, history
  <1> QED
    BY <1>1, <1>2 DEF Quiet, BaseInv, history

(* A step of a handler that leaves the ledger and the sessions alone.      *)
LEMMA UsersKeepBase ==
    ASSUME BaseInv, NEW w \in Workers, Moves(w), Runs(w),
           users' \in [Subjects -> AccountSet], founded' \subseteq Uuids,
           UNCHANGED <<sessions, mail, ledger, uuids, redeemed, logFailures>>
    PROVE  BaseInv'
  <1>1. /\ requests' \in [Workers -> RequestSet]
        /\ \A v \in Workers : Shape(requests[v])'
        /\ overlapped' \in BOOLEAN
        /\ SqlBackend \/ ~ overlapped'
    BY MovesKeepRequests
  <1>2. TypeOK'
    BY <1>1 DEF BaseInv, TypeOK, uuids
  <1> QED
    BY <1>1, <1>2 DEF BaseInv

LEMMA UpdatedIsAnAccount ==
    ASSUME NEW row \in AccountSet, row # NoAccount, NEW seen \in AccountSet,
           NEW current \in AccountSet, current # NoAccount \/ row = seen
    PROVE  /\ Updated(row, seen, current) \in AccountSet
           /\ current # NoAccount => Updated(row, seen, current) # NoAccount
           /\ Updated(row, seen, current).hash \in {row.hash, current.hash}
           /\ seen = current => Updated(row, seen, current) = row
  <1>0. /\ row \in [tenant : Uuids, role : Roles, hash : Uuids, verified : BOOLEAN]
        /\ DOMAIN row = {"tenant", "role", "hash", "verified"}
    BY RealAccounts
  <1>1. CASE current # NoAccount
    <2>1. current \in [tenant : Uuids, role : Roles, hash : Uuids, verified : BOOLEAN]
      BY <1>1, RealAccounts
    <2>2. Updated(row, seen, current) \in
             [tenant : Uuids, role : Roles, hash : Uuids, verified : BOOLEAN]
      BY <1>0, <2>1 DEF Updated
    <2>3. Updated(row, seen, current).hash \in {row.hash, current.hash}
      BY <1>0 DEF Updated
    <2>4. seen = current => Updated(row, seen, current) = row
      BY <1>0 DEF Updated
    <2> QED
      BY <2>2, <2>3, <2>4 DEF AccountSet, NoAccount, Uuids
  <1>2. CASE current = NoAccount
    <2>1. Updated(row, seen, current) = current
      BY <1>0, <1>2 DEF Updated, NoAccount
    <2> QED
      BY <1>2, <2>1
  <1> QED
    BY <1>1, <1>2

LEMMA StoringKeepsBase ==
    ASSUME BaseInv, HashesAreFresh, NEW w \in Workers, AddInMemory(w) \/ MergeCommits(w)
    PROVE  BaseInv'
  <1>0. /\ TypeOK /\ Moves(w) /\ Runs(w)
        /\ UNCHANGED <<sessions, mail, ledger, uuids, redeemed, logFailures>>
    BY ContinuationsMove DEF BaseInv, Step, AddInMemory, MergeCommits
  <1>1. /\ requests[w].email \in Subjects
        /\ users[requests[w].email] \in AccountSet
        /\ requests[w].row \in AccountSet /\ requests[w].row # NoAccount
        /\ requests[w].seen \in AccountSet
    BY RequestsAreTyped DEF AddInMemory, MergeCommits, Shape, Real, RequestSet
  <1>2. ASSUME NEW a \in AccountSet, Stored(w, a),
               requests[w].kind = "register" => a # NoAccount
        PROVE  users' \in [Subjects -> AccountSet] /\ founded' \subseteq Uuids
    <2>1. users' \in [Subjects -> AccountSet]
      BY <1>0, <1>1, <1>2 DEF Stored, TypeOK
    <2>2. requests[w].kind = "register" => a.tenant \in Uuids
      BY <1>2, RealAccounts
    <2> QED
      BY <1>0, <1>2, <2>1, <2>2 DEF Stored, TypeOK
  <1>3. users' \in [Subjects -> AccountSet] /\ founded' \subseteq Uuids
    <2>1. CASE AddInMemory(w)
      BY <1>1, <1>2, <2>1 DEF AddInMemory
    <2>2. CASE MergeCommits(w)
      <3> DEFINE a == Updated(requests[w].row, requests[w].seen, users[requests[w].email])
      <3>1. CASE Stored(w, requests[w].row)
        BY <1>1, <1>2, <3>1
      <3>2. CASE /\ requests[w].seen # NoAccount
                 /\ users[requests[w].email] # NoAccount \/ requests[w].row = requests[w].seen
                 /\ Stored(w, a)
        <4>1. a \in AccountSet /\ (users[requests[w].email] # NoAccount => a # NoAccount)
          BY <1>1, <3>2, UpdatedIsAnAccount
        <4>2. requests[w].kind = "register" => requests[w].row # requests[w].seen
          BY <2>2 DEF MergeCommits, HashesAreFresh, Registering
        <4> QED
          BY <1>2, <3>2, <4>1, <4>2
      <3>3. CASE UNCHANGED <<users, founded>>
        BY <1>0, <3>3 DEF TypeOK
      <3> QED
        BY <2>2, <3>1, <3>2, <3>3 DEF MergeCommits
    <2> QED
      BY <2>1, <2>2
  <1> QED
    BY <1>0, <1>3, UsersKeepBase

LEMMA RemovingKeepsBase ==
    ASSUME BaseInv, NEW w \in Workers, RemoveAccount(w)
    PROVE  BaseInv'
  <1>1. TypeOK /\ Moves(w)
    BY ContinuationsMove DEF BaseInv, Step
  <1>2. users' \in [Subjects -> AccountSet]
    BY <1>1, NoAccountIsTyped DEF RemoveAccount, TypeOK
  <1> QED
    BY <1>1, <1>2, UsersKeepBase DEF RemoveAccount, At, TypeOK, uuids, history

(* What a session's opening leaves behind.                                 *)
LEMMA OpeningKeepsFamilies ==
    ASSUME BaseInv, NEW s \in Subjects, NEW a \in AccountSet, a # NoAccount,
           NEW l, Grows(ledger, l), OpenSession(s, a, l)
    PROVE  /\ Grows(l, ledger')
           /\ ledger'.revokedJtis = l.revokedJtis
           /\ ledger'.revokedFamilies = l.revokedFamilies
           /\ sessions' \subseteq [family : Uuids, sub : Subjects, tenant : Uuids, hash : Uuids]
           /\ \A x \in sessions' : x.family \in ledger'.familiesBySubject[x.sub]
           /\ nextFamily' \in Uuids
  <1>0. /\ nextFamily \in Uuids /\ l \in LedgerType(Uuids, Uuids)
        /\ a.tenant \in Uuids /\ a.hash \in Uuids
    BY RealAccounts DEF BaseInv, TypeOK, Grows
  <1>1. /\ Grows(l, ledger')
        /\ ledger'.revokedJtis = l.revokedJtis
        /\ ledger'.revokedFamilies = l.revokedFamilies
        /\ nextFamily \in ledger'.familiesBySubject[s]
    BY <1>0, SessionStartedGrows DEF OpenSession
  <1>2. sessions' = sessions \cup {[family |-> nextFamily, sub |-> s,
                                    tenant |-> a.tenant, hash |-> a.hash]}
    BY DEF OpenSession
  <1>3. sessions' \subseteq [family : Uuids, sub : Subjects, tenant : Uuids, hash : Uuids]
    BY <1>0, <1>2 DEF BaseInv, TypeOK
  <1>4. \A x \in sessions' : x.family \in ledger'.familiesBySubject[x.sub]
    <2>1. Grows(ledger, ledger')
      BY <1>1, GrowsInSteps
    <2>2. ASSUME NEW x \in sessions PROVE x.family \in ledger'.familiesBySubject[x.sub]
      BY <2>1 DEF BaseInv, TypeOK, Grows
    <2> QED
      BY <1>1, <1>2, <2>2
  <1>5. nextFamily' \in Uuids
    BY <1>0 DEF OpenSession, Uuids
  <1> QED
    BY <1>1, <1>3, <1>4, <1>5

(* A step that only adds to the ledger, and perhaps opens or mails.        *)
LEMMA GrowthKeepsBase ==
    ASSUME BaseInv, NEW w \in Workers, Moves(w), Runs(w), Grows(ledger, ledger'),
           UNCHANGED <<users, nextHash, founded>>,
           mail' \subseteq [jti : Uuids, type : MailTypes, sub : Subjects, tenant : Uuids],
           nextJti' \in Uuids,
           \/ UNCHANGED <<sessions, nextFamily>>
           \/ /\ sessions' \subseteq [family : Uuids, sub : Subjects, tenant : Uuids, hash : Uuids]
              /\ \A x \in sessions' : x.family \in ledger'.familiesBySubject[x.sub]
              /\ nextFamily' \in Uuids,
           \/ UNCHANGED redeemed
           \/ /\ Redeems(w)
              /\ requests[w].jti \in ledger'.revokedJtis
              /\ requests[w].jti \in Uuids /\ requests[w].row.hash \in Uuids,
           \/ UNCHANGED logFailures
           \/ logFailures < MaxLogFailures /\ logFailures' = logFailures + 1
    PROVE  BaseInv'
  <1>1. /\ requests' \in [Workers -> RequestSet]
        /\ \A v \in Workers : Shape(requests[v])'
        /\ overlapped' \in BOOLEAN
        /\ SqlBackend \/ ~ overlapped'
    BY MovesKeepRequests
  <1>2. TypeOK
    BY DEF BaseInv
  <1>3. /\ sessions' \subseteq [family : Uuids, sub : Subjects, tenant : Uuids, hash : Uuids]
        /\ nextFamily' \in Uuids
    BY <1>2 DEF TypeOK
  <1>4. \A x \in sessions' : x.family \in ledger'.familiesBySubject[x.sub]
    BY <1>2, <1>3 DEF BaseInv, Grows
  <1>5. redeemed' \subseteq [jti : Uuids, hash : Uuids]
    BY <1>2 DEF TypeOK, Redeems
  <1>6. \A x \in redeemed' : x.jti \in ledger'.revokedJtis
    BY <1>2 DEF BaseInv, Grows, Redeems
  <1>7. MaxLogFailures \in Nat
    BY AccountConstants
  <1>8. logFailures' \in Nat /\ logFailures' <= MaxLogFailures
    BY <1>2, <1>7 DEF BaseInv, TypeOK
  <1>9. TypeOK'
    BY <1>1, <1>2, <1>3, <1>5, <1>8 DEF TypeOK, Grows
  <1> QED
    BY <1>1, <1>4, <1>6, <1>8, <1>9 DEF BaseInv

(* The end of a handler.                                                   *)
Finishes(w) ==
    \/ FinishRegister(w) \/ FinishLogin(w) \/ FinishAccept(w)
    \/ FinishReset(w) \/ FinishRemove(w) \/ LogRaises(w)

LEMMA FinishingRequests ==
    ASSUME BaseInv, NEW w \in Workers, Finishes(w)
    PROVE  /\ TypeOK /\ Moves(w) /\ requests'[w] = Idle /\ Runs(w)
           /\ ledger \in LedgerType(Uuids, Uuids) /\ Grows(ledger, ledger)
           /\ requests[w].pc = "finish"
           /\ requests[w].kind \in {"register", "login", "accept", "reset", "remove"}
           /\ requests[w].email \in Subjects
           /\ requests[w].kind # "remove" =>
                /\ requests[w].row \in AccountSet /\ requests[w].row # NoAccount
                /\ requests[w].row.tenant \in Uuids /\ requests[w].row.hash \in Uuids
           /\ requests[w].kind \in {"accept", "reset"} => requests[w].jti \in Uuids
  <1>1. /\ TypeOK /\ Moves(w) /\ Runs(w) /\ requests[w].pc = "finish"
        /\ requests'[w] = Idle
    BY ContinuationsMove, AnswersMoves
       DEF BaseInv, Step, Finishes, FinishRegister, FinishLogin, FinishAccept,
           FinishReset, FinishRemove, LogRaises, At
  <1>2. ledger \in LedgerType(Uuids, Uuids) /\ Grows(ledger, ledger)
    BY <1>1 DEF TypeOK, Grows
  <1>3. Shape(requests[w]) /\ requests[w].row \in AccountSet
    BY RequestsAreTyped
  <1>4. requests[w].kind # "remove" =>
          requests[w].row \in AccountSet /\ requests[w].row # NoAccount
    BY <1>1, <1>3 DEF Shape, Real
  <1> QED
    BY <1>1, <1>2, <1>3, <1>4, RealAccounts DEF Shape

LEMMA BrokenOffGrows ==
    ASSUME BaseInv, NEW w \in Workers, LogRaises(w)
    PROVE  Grows(ledger, ledger')
  <1> DEFINE r == requests[w]
  <1>1. /\ ledger \in LedgerType(Uuids, Uuids) /\ Grows(ledger, ledger)
        /\ r.kind \in {"register", "login", "accept", "reset", "remove"}
        /\ r.email \in Subjects
        /\ r.kind \in {"accept", "reset"} => r.jti \in Uuids
        /\ ledger' \in BrokenOff(r)
    BY FinishingRequests DEF Finishes, LogRaises
  <1>2. r.kind \in {"accept", "reset"} =>
          /\ Grows(ledger, Revoke(ledger, r.jti))
          /\ Revoke(ledger, r.jti) \in LedgerType(Uuids, Uuids)
    BY <1>1, RevokeGrows DEF Grows
  <1>3. CASE r.kind \in {"register", "login"}
    BY <1>1, <1>3 DEF BrokenOff
  <1>4. CASE r.kind = "accept"
    BY <1>1, <1>2, <1>4 DEF BrokenOff
  <1>5. CASE r.kind = "reset"
    <2>1. ledger' = ledger \/ ledger' \in BrokenCascades(Revoke(ledger, r.jti), r.email)
      BY <1>1, <1>5 DEF BrokenOff
    <2> QED
      BY <1>1, <1>2, <1>5, <2>1, BrokenCascadesGrow, GrowsInSteps
  <1>6. CASE r.kind = "remove"
    <2>1. ledger' \in BrokenCascades(ledger, r.email)
      BY <1>1, <1>6 DEF BrokenOff
    <2> QED
      BY <1>1, <2>1, BrokenCascadesGrow
  <1> QED
    BY <1>1, <1>3, <1>4, <1>5, <1>6

LEMMA FinishingKeepsBase ==
    ASSUME BaseInv, NEW w \in Workers, Finishes(w)
    PROVE  BaseInv'
  <1> DEFINE r == requests[w]
             Mails == [jti : Uuids, type : MailTypes, sub : Subjects, tenant : Uuids]
  <1>0. /\ TypeOK /\ Moves(w) /\ Runs(w)
        /\ ledger \in LedgerType(Uuids, Uuids) /\ Grows(ledger, ledger)
        /\ r.email \in Subjects
        /\ r.kind # "remove" =>
             /\ r.row \in AccountSet /\ r.row # NoAccount
             /\ r.row.tenant \in Uuids /\ r.row.hash \in Uuids
        /\ r.kind \in {"accept", "reset"} => r.jti \in Uuids
    BY FinishingRequests
  <1>m. mail \subseteq Mails /\ nextJti \in Uuids
    BY <1>0 DEF TypeOK
  <1>1. CASE FinishRegister(w)
    <2>1. r.kind = "register" /\ OpenSession(r.email, r.row, ledger)
      BY <1>1 DEF FinishRegister, At
    <2>2. /\ Grows(ledger, ledger')
          /\ sessions' \subseteq [family : Uuids, sub : Subjects, tenant : Uuids, hash : Uuids]
          /\ \A x \in sessions' : x.family \in ledger'.familiesBySubject[x.sub]
          /\ nextFamily' \in Uuids
      BY <1>0, <2>1, OpeningKeepsFamilies
    <2>3. mail' \subseteq Mails /\ nextJti' \in Uuids
      BY <1>0, <1>1, <2>1, MailIsTyped DEF FinishRegister, MailTypes
    <2> QED
      BY <1>0, <1>1, <2>2, <2>3, GrowthKeepsBase DEF FinishRegister, history
  <1>2. CASE FinishLogin(w)
    <2>1. r.kind = "login" /\ OpenSession(r.email, r.row, ledger)
      BY <1>2 DEF FinishLogin, At
    <2>2. /\ Grows(ledger, ledger')
          /\ sessions' \subseteq [family : Uuids, sub : Subjects, tenant : Uuids, hash : Uuids]
          /\ \A x \in sessions' : x.family \in ledger'.familiesBySubject[x.sub]
          /\ nextFamily' \in Uuids
      BY <1>0, <2>1, OpeningKeepsFamilies
    <2> QED
      BY <1>0, <1>m, <1>2, <2>2, GrowthKeepsBase DEF FinishLogin, history
  <1>3. CASE FinishAccept(w)
    <2>1. r.kind = "accept" /\ OpenSession(r.email, r.row, Revoke(ledger, r.jti))
      BY <1>3 DEF FinishAccept, At
    <2>2. /\ Grows(ledger, Revoke(ledger, r.jti))
          /\ r.jti \in Revoke(ledger, r.jti).revokedJtis
      BY <1>0, <2>1, RevokeGrows
    <2>3. /\ Grows(Revoke(ledger, r.jti), ledger')
          /\ sessions' \subseteq [family : Uuids, sub : Subjects, tenant : Uuids, hash : Uuids]
          /\ \A x \in sessions' : x.family \in ledger'.familiesBySubject[x.sub]
          /\ nextFamily' \in Uuids
      BY <1>0, <2>1, <2>2, OpeningKeepsFamilies
    <2>4. Grows(ledger, ledger') /\ r.jti \in ledger'.revokedJtis
      BY <2>2, <2>3, GrowsInSteps DEF Grows
    <2> QED
      BY <1>0, <1>m, <1>3, <2>1, <2>3, <2>4, GrowthKeepsBase DEF FinishAccept
  <1>4. CASE FinishReset(w)
    <2>1. /\ r.kind = "reset"
          /\ ledger' = RevokeAllSessionsForSubject(Revoke(ledger, r.jti), r.email)
      BY <1>4 DEF FinishReset, At
    <2>2. /\ Grows(ledger, Revoke(ledger, r.jti))
          /\ Revoke(ledger, r.jti) \in LedgerType(Uuids, Uuids)
          /\ r.jti \in Revoke(ledger, r.jti).revokedJtis
      BY <1>0, <2>1, RevokeGrows DEF Grows
    <2>3. /\ Grows(Revoke(ledger, r.jti), ledger')
          /\ r.jti \in ledger'.revokedJtis
      BY <1>0, <2>1, <2>2, CascadeGrows
    <2>4. Grows(ledger, ledger')
      BY <2>2, <2>3, GrowsInSteps
    <2> QED
      BY <1>0, <1>m, <1>4, <2>1, <2>3, <2>4, GrowthKeepsBase DEF FinishReset, uuids
  <1>5. CASE FinishRemove(w)
    <2>1. Grows(ledger, ledger')
      BY <1>0, <1>5, CascadeGrows DEF FinishRemove
    <2> QED
      BY <1>0, <1>m, <1>5, <2>1, GrowthKeepsBase DEF FinishRemove, uuids, history
  <1>6. CASE LogRaises(w)
    <2>1. Grows(ledger, ledger')
      BY <1>6, BrokenOffGrows
    <2>2. mail' \subseteq Mails /\ nextJti' \in Uuids
      <3>1. CASE r.kind = "register"
        BY <1>0, <1>6, <3>1, MailIsTyped DEF LogRaises, MailTypes
      <3>2. CASE r.kind # "register"
        BY <1>m, <1>6, <3>2 DEF LogRaises, NoMail
      <3> QED
        BY <3>1, <3>2
    <2> QED
      BY <1>0, <1>6, <2>1, <2>2, GrowthKeepsBase DEF LogRaises
  <1> QED
    BY <1>1, <1>2, <1>3, <1>4, <1>5, <1>6 DEF Finishes

LEMMA RevokingMail ==
    ASSUME BaseInv, NEW w \in Workers, NEW tok \in mail, RevokeMail(w, tok)
    PROVE  /\ BaseInv' /\ Moves(w) /\ Runs(w) /\ requests[w] = Idle
           /\ Grows(ledger, ledger') /\ ledger'.revokedFamilies = ledger.revokedFamilies
  <1>1. /\ TypeOK /\ Moves(w) /\ tok.jti \in Uuids
        /\ ledger \in LedgerType(Uuids, Uuids)
    BY StaysMoves DEF BaseInv, TypeOK, RevokeMail
  <1>2. Grows(ledger, ledger') /\ ledger'.revokedFamilies = ledger.revokedFamilies
    BY <1>1, RevokeGrows DEF RevokeMail
  <1>3. Runs(w) /\ requests[w] = Idle
    BY DEF RevokeMail, Arrives
  <1> QED
    BY <1>1, <1>2, <1>3, GrowthKeepsBase DEF RevokeMail, uuids, history, TypeOK

LEMMA StepsKeepBase ==
    ASSUME BaseInv, HashesAreFresh, NEW w \in Workers, Request(w) \/ Step(w)
    PROVE  BaseInv'
  <1>1. CASE \E tok \in mail : RevokeMail(w, tok)
    BY <1>1, RevokingMail
  <1>2. CASE Request(w) /\ \A tok \in mail : ~ RevokeMail(w, tok)
    BY <1>2, ArrivalsAreQuiet, QuietKeepsBase
  <1>3. CASE Reads(w)
    BY <1>3, ReadsAreQuiet, QuietKeepsBase
  <1>4. CASE AddInMemory(w) \/ MergeCommits(w)
    BY <1>4, StoringKeepsBase
  <1>5. CASE RemoveAccount(w)
    BY <1>5, RemovingKeepsBase
  <1>6. CASE Finishes(w)
    BY <1>6, FinishingKeepsBase
  <1> QED
    BY <1>1, <1>2, <1>3, <1>4, <1>5, <1>6 DEF Step, Reads, Finishes

-----------------------------------------------------------------------------
(***************************************************************************)
(* A hash is taken from the supply once, and stays where it was written.   *)
(***************************************************************************)
Carries(w) ==
    LET h == requests'[w].row.hash
    IN  /\ \/ nextHash' = nextHash
           \/ nextHash' = nextHash + 1
        /\ \/ h \in {0, requests[w].row.hash}
           \/ \E e \in Subjects : h = users[e].hash
           \/ h = nextHash /\ nextHash' = nextHash + 1
        /\ \A e \in Subjects :
             \/ users'[e].hash \in {0, users[e].hash}
             \/ ~ Registering(requests'[w]) /\ users'[e].hash = requests[w].row.hash
        /\ Registering(requests'[w]) =>
             \/ h = nextHash /\ nextHash' = nextHash + 1 /\ requests'[w].pc = "add"
             \/ /\ Registering(requests[w]) /\ requests'[w].row = requests[w].row
                /\ \E e \in Subjects : requests'[w].seen.hash = users[e].hash

LEMMA CarriedHashesAreFresh ==
    ASSUME BaseInv, HashesAreFresh, NEW w \in Workers, Moves(w), Runs(w), Carries(w)
    PROVE  HashesAreFresh'
  <1> DEFINE h(v) == requests[v].row.hash
  <1>0. /\ nextHash \in Nat /\ nextHash > 0
        /\ \A e \in Subjects : users[e].hash \in Nat /\ users[e].hash < nextHash
        /\ \A v \in Workers : h(v) \in Nat /\ h(v) < nextHash
    <2>1. /\ nextHash \in Uuids
          /\ \A e \in Subjects : users[e] \in AccountSet
          /\ \A v \in Workers : requests[v].row \in AccountSet
      BY RequestsAreTyped DEF BaseInv, TypeOK
    <2>2. \A a \in AccountSet : a.hash \in Nat
      BY DEF AccountSet, NoAccount, Uuids
    <2> QED
      BY <2>1, <2>2 DEF Uuids, HashesAreFresh
  <1>1. \A v \in Workers \ {w} : requests'[v] = requests[v]
    BY MovesKeepRequests
  <1>2. \A v \in Workers : Registering(requests[v]) => h(v) # 0
    <2> SUFFICES ASSUME NEW v \in Workers, Registering(requests[v]) PROVE h(v) # 0
      OBVIOUS
    <2>1. requests[v].row \in AccountSet /\ requests[v].row # NoAccount
      BY RequestsAreTyped DEF Registering, Shape, Real
    <2> QED
      BY <2>1, RealAccounts DEF Uuids
  <1>3. h(w)' \in Nat /\ h(w)' < nextHash'
    BY <1>0 DEF Carries
  <1>4. \A v \in Workers : h(v)' < nextHash'
    BY <1>0, <1>1, <1>3 DEF Carries
  <1>5. \A e \in Subjects : users'[e].hash < nextHash'
    BY <1>0 DEF Carries
  <1>6. ASSUME NEW v \in Workers \ {w}, Registering(requests[v])'
        PROVE  /\ \A e \in Subjects : users'[e].hash # h(v)'
               /\ \A x \in Workers \ {v} : h(x)' # h(v)'
               /\ requests'[v].pc = "merge" => requests'[v].seen.hash # h(v)'
    <2>1. requests'[v] = requests[v] /\ Registering(requests[v]) /\ h(v) # 0
      BY <1>1, <1>2, <1>6 DEF Registering
    <2>2. h(w)' # h(v)
      BY <1>0, <2>1 DEF Carries, HashesAreFresh
    <2>3. \A e \in Subjects : users'[e].hash # h(v)
      BY <2>1 DEF Carries, HashesAreFresh
    <2>4. \A x \in Workers \ {v} : h(x)' # h(v)
      BY <1>1, <2>1, <2>2 DEF HashesAreFresh
    <2> QED
      BY <2>1, <2>3, <2>4 DEF HashesAreFresh
  <1>7. ASSUME Registering(requests[w])'
        PROVE  /\ \A e \in Subjects : users'[e].hash # h(w)'
               /\ \A x \in Workers \ {w} : h(x)' # h(w)'
               /\ requests'[w].pc = "merge" => requests'[w].seen.hash # h(w)'
    <2>0. /\ Registering(requests'[w])
          /\ \A e \in Subjects : users'[e].hash \in {0, users[e].hash}
      BY <1>7 DEF Registering, Carries
    <2>1. CASE h(w)' = nextHash /\ requests'[w].pc = "add"
      BY <1>0, <1>1, <2>0, <2>1
    <2>2. CASE /\ Registering(requests[w]) /\ requests'[w].row = requests[w].row
               /\ \E e \in Subjects : requests'[w].seen.hash = users[e].hash
      BY <1>1, <1>2, <2>0, <2>2 DEF HashesAreFresh
    <2> QED
      BY <2>0, <2>1, <2>2 DEF Carries
  <1> QED
    BY <1>4, <1>5, <1>6, <1>7 DEF HashesAreFresh

LEMMA StepsCarry ==
    ASSUME BaseInv, HashesAreFresh, NEW w \in Workers, Request(w) \/ Step(w)
    PROVE  Carries(w) /\ Moves(w) /\ Runs(w)
  <1> DEFINE r == requests[w]
  <1>0. /\ TypeOK /\ Moves(w)
        /\ r \in RequestSet /\ Shape(r) /\ r.row \in AccountSet
        /\ requests'[w] \in RequestSet
        /\ r.pc # "idle" => r.email \in Subjects /\ users[r.email] \in AccountSet
    BY ArrivalsMove, ContinuationsMove, RequestsAreTyped DEF BaseInv, Moves
  <1>i. Idle.row.hash = 0 /\ ~ Registering(Idle)
    BY DEF Idle, NoAccount, Registering
  <1>n. NoAccount.hash = 0
    BY DEF NoAccount
  <1>1. ASSUME NEW e \in Subjects, Register(w, e) PROVE Carries(w) /\ Runs(w)
    <2>1. requests'[w] = [Idle EXCEPT !.kind = "register", !.pc = "add", !.email = e,
                                      !.row = Account(nextHash, "owner", nextHash)]
      BY <1>0, <1>1 DEF Register, Becomes, TypeOK
    <2>2. requests'[w].row.hash = nextHash /\ requests'[w].pc = "add"
      BY <2>1 DEF Idle, Account
    <2> QED
      BY <1>1, <2>2 DEF Register, Arrives, Carries, TakesHash
  <1>2. ASSUME NEW e \in Subjects, Login(w, e) PROVE Carries(w) /\ Runs(w)
    <2>1. requests'[w] = [Idle EXCEPT !.kind = "login", !.pc = "finish", !.email = e,
                                      !.row = users[e]]
      BY <1>0, <1>2 DEF Login, Becomes, TypeOK
    <2>2. requests'[w].row.hash = users[e].hash /\ ~ Registering(requests'[w])
      BY <2>1 DEF Idle, Registering
    <2> QED
      BY <1>2, <2>2 DEF Login, Arrives, Carries, uuids
  <1>3. ASSUME NEW e \in Subjects, RequestPasswordReset(w, e) PROVE Carries(w) /\ Runs(w)
    BY <1>3, <1>i DEF RequestPasswordReset, Arrives, Carries
  <1>4. ASSUME NEW tok \in mail, VerifyEmail(w, tok) PROVE Carries(w) /\ Runs(w)
    <2>1. requests'[w] = [Idle EXCEPT !.kind = "verify", !.pc = "add", !.email = tok.sub,
                                      !.row = [users[tok.sub] EXCEPT !.verified = TRUE]]
      BY <1>0, <1>4 DEF VerifyEmail, Becomes, TypeOK
    <2>2. tok.sub \in Subjects /\ users[tok.sub] \in AccountSet
      BY <1>0 DEF TypeOK
    <2>3. requests'[w].row.hash = users[tok.sub].hash /\ ~ Registering(requests'[w])
      BY <2>1, <2>2 DEF Idle, Registering, AccountSet, NoAccount
    <2> QED
      BY <1>4, <2>2, <2>3 DEF VerifyEmail, Arrives, Carries, uuids
  <1>5. ASSUME NEW tok \in mail, AcceptInvite(w, tok) \/ ResetPassword(w, tok)
        PROVE  Carries(w) /\ Runs(w)
    <2>1. \E kind \in {"accept", "reset"} :
            requests'[w] = [Idle EXCEPT !.kind = kind, !.pc = "read", !.email = tok.sub,
                                        !.tenant = tok.tenant, !.jti = tok.jti]
      BY <1>0, <1>5 DEF AcceptInvite, ResetPassword, PresentToken, Becomes, TypeOK
    <2>2. requests'[w].row.hash = 0 /\ ~ Registering(requests'[w])
      BY <2>1, <1>i DEF Idle, Registering
    <2> QED
      BY <1>5, <2>2 DEF AcceptInvite, ResetPassword, PresentToken, Arrives, Carries, uuids
  <1>6. ASSUME NEW tok \in mail, RevokeMail(w, tok) PROVE Carries(w) /\ Runs(w)
    BY <1>6, <1>i DEF RevokeMail, Arrives, Carries, uuids
  <1>7. ASSUME NEW session \in sessions, NEW e \in Subjects,
               NEW kind \in {"invite", "remove", "role"}, NEW role,
               Admit(w, session, kind, e, role)
        PROVE  Carries(w) /\ Runs(w)
    <2>1. requests'[w] = [Idle EXCEPT !.kind = kind, !.pc = "admitted",
                                      !.caller = session.sub, !.tenant = session.tenant,
                                      !.email = e, !.role = role]
      BY <1>0, <1>7 DEF Admit, Becomes, TypeOK
    <2>2. requests'[w].row.hash = 0 /\ ~ Registering(requests'[w])
      BY <2>1, <1>i DEF Idle, Registering
    <2> QED
      BY <1>7, <2>2 DEF Admit, Arrives, Carries, uuids
  <1>8. SUFFICES Carries(w) /\ Runs(w)
    BY <1>0
  <1>9. CASE OwnerGate(w) \/ RemoveTarget(w) \/ CountOwners(w) \/ RemoveAccount(w)
    <2>1. /\ Runs(w) /\ UNCHANGED nextHash
          /\ \/ requests'[w] = Idle
             \/ /\ requests'[w].row = r.row /\ requests'[w].kind = r.kind
                /\ r.kind # "register"
          /\ UNCHANGED users \/ users' = [users EXCEPT ![r.email] = NoAccount]
      BY <1>0, <1>9 DEF OwnerGate, RemoveTarget, CountOwners, RemoveAccount, At, GoesTo,
                        Answers, Becomes, TypeOK, uuids, Shape, RequestSet
    <2>2. \A e \in Subjects : users'[e].hash \in {0, users[e].hash}
      BY <1>0, <1>n, <2>1 DEF TypeOK
    <2> QED
      BY <1>i, <2>1, <2>2 DEF Carries, Registering
  <1>10. CASE Invite(w) \/ Finishes(w)
    <2>1. requests'[w] = Idle /\ UNCHANGED <<users, nextHash>> /\ Runs(w)
      BY <1>0, <1>10, FinishingRequests
         DEF Invite, Finishes, FinishRegister, FinishLogin, FinishAccept, FinishReset,
             FinishRemove, LogRaises, Answers, Becomes, At, TypeOK, uuids
    <2> QED
      BY <1>i, <2>1 DEF Carries
  <1>11. CASE RoleTarget(w)
    <2>0. r.kind = "role" /\ r.pc = "target" /\ Runs(w) /\ UNCHANGED <<users, nextHash>>
      BY <1>11 DEF RoleTarget, At, uuids
    <2>1. \/ requests'[w] = Idle
          \/ \E pc \in {"owners", "add"} :
               requests'[w] = [r EXCEPT !.pc = pc,
                                        !.row = [users[r.email] EXCEPT !.role = r.role]]
      BY <1>0, <1>11 DEF RoleTarget, Writes, Answers, Becomes, TypeOK
    <2>2. CASE requests'[w] = Idle
      BY <1>i, <2>0, <2>2 DEF Carries
    <2>3. CASE requests'[w] # Idle
      <3>0. PICK pc \in {"owners", "add"} :
              requests'[w] = [r EXCEPT !.pc = pc,
                                       !.row = [users[r.email] EXCEPT !.role = r.role]]
        BY <2>1, <2>3
      <3>1. [users[r.email] EXCEPT !.role = r.role].hash = users[r.email].hash
        BY <1>0, <2>0 DEF AccountSet, NoAccount
      <3>2. requests'[w].row.hash = users[r.email].hash /\ requests'[w].kind = "role"
        BY <1>0, <2>0, <3>0, <3>1 DEF RequestSet
      <3> QED
        BY <1>0, <2>0, <3>2 DEF Carries, Registering
    <2> QED
      BY <2>0, <2>2, <2>3
  <1>12. CASE InviteeIsNew(w)
    <2>0. r.kind = "accept" /\ r.pc = "read" /\ Runs(w) /\ UNCHANGED users
      BY <1>12 DEF InviteeIsNew, At
    <2>1. \/ requests'[w] = Idle /\ UNCHANGED nextHash
          \/ /\ TakesHash
             /\ requests'[w] = [r EXCEPT !.pc = "add",
                                         !.row = Account(r.tenant, "member", nextHash)]
      BY <1>0, <1>12 DEF InviteeIsNew, Writes, Answers, Becomes, TypeOK
    <2>2. CASE requests'[w] = Idle /\ UNCHANGED nextHash
      BY <1>i, <2>0, <2>2 DEF Carries
    <2>3. CASE /\ TakesHash
               /\ requests'[w] = [r EXCEPT !.pc = "add",
                                           !.row = Account(r.tenant, "member", nextHash)]
      <3>1. requests'[w].row.hash = nextHash /\ requests'[w].kind = "accept"
        BY <1>0, <2>0, <2>3 DEF RequestSet, Account
      <3> QED
        BY <2>0, <2>3, <3>1 DEF Carries, Registering, TakesHash
    <2> QED
      BY <2>0, <2>1, <2>2, <2>3
  <1>13. CASE AccountStillExists(w)
    <2>0. r.kind = "reset" /\ r.pc = "read" /\ Runs(w) /\ UNCHANGED users
      BY <1>13 DEF AccountStillExists, At
    <2>1. \/ requests'[w] = Idle /\ UNCHANGED nextHash
          \/ /\ TakesHash
             /\ requests'[w] = [r EXCEPT !.pc = "add",
                                         !.row = [users[r.email] EXCEPT !.hash = nextHash]]
      BY <1>0, <1>13 DEF AccountStillExists, Writes, Answers, Becomes, TypeOK
    <2>2. CASE requests'[w] = Idle /\ UNCHANGED nextHash
      BY <1>i, <2>0, <2>2 DEF Carries
    <2>3. CASE /\ TakesHash
               /\ requests'[w] = [r EXCEPT !.pc = "add",
                                           !.row = [users[r.email] EXCEPT !.hash = nextHash]]
      <3>1. requests'[w].row.hash = nextHash /\ requests'[w].kind = "reset"
        BY <1>0, <2>0, <2>3 DEF RequestSet, AccountSet, NoAccount
      <3> QED
        BY <2>0, <2>3, <3>1 DEF Carries, Registering, TakesHash
    <2> QED
      BY <2>0, <2>1, <2>2, <2>3
  <1>14. CASE MergeLoads(w)
    <2>1. /\ requests'[w] = [r EXCEPT !.pc = "merge", !.seen = users[r.email]]
          /\ r.pc = "add" /\ Runs(w) /\ UNCHANGED <<users, nextHash>>
      BY <1>0, <1>14 DEF MergeLoads, Becomes, TypeOK, uuids
    <2>2. /\ requests'[w].row = r.row /\ requests'[w].kind = r.kind
          /\ requests'[w].seen = users[r.email] /\ r.email \in Subjects
      BY <1>0, <2>1 DEF RequestSet
    <2> QED
      BY <2>1, <2>2 DEF Carries, Registering
  <1>15. CASE AddInMemory(w) \/ MergeCommits(w)
    <2>0. /\ r.pc \in {"add", "merge"} /\ Runs(w) /\ UNCHANGED nextHash
          /\ r.row # NoAccount /\ r.seen \in AccountSet
      BY <1>0, <1>15 DEF AddInMemory, MergeCommits, uuids, Shape, Real, RequestSet
    <2>1. /\ requests'[w].row.hash \in {0, r.row.hash}
          /\ ~ Registering(requests'[w])
      <3>1. requests'[w] = Idle \/ requests'[w] = [r EXCEPT !.pc = "finish", !.seen = NoAccount]
        BY <1>0, <1>15 DEF AddInMemory, MergeCommits, Stored, AfterAdd, Answers, Becomes, TypeOK
      <3> QED
        BY <1>0, <1>i, <3>1 DEF RequestSet, Registering
    <2>2. \/ UNCHANGED users
          \/ \E a \in AccountSet : /\ users' = [users EXCEPT ![r.email] = a]
                                   /\ a.hash \in {r.row.hash, users[r.email].hash}
      <3>1. CASE AddInMemory(w)
        BY <1>0, <3>1 DEF AddInMemory, Stored
      <3>2. CASE MergeCommits(w)
        BY <1>0, <2>0, <3>2, UpdatedIsAnAccount DEF MergeCommits, Stored
      <3> QED
        BY <1>15, <3>1, <3>2
    <2>3. \A e \in Subjects : users'[e].hash \in {users[e].hash, r.row.hash}
      BY <1>0, <2>2 DEF TypeOK
    <2> QED
      BY <2>0, <2>1, <2>3 DEF Carries
  <1> QED
    BY <1>0, <1>1, <1>2, <1>3, <1>4, <1>5, <1>6, <1>7, <1>9, <1>10, <1>11, <1>12, <1>13,
       <1>14, <1>15 DEF Request, Step, Finishes

-----------------------------------------------------------------------------
(***************************************************************************)
(* A step that overlaps no other handler keeps what holds until then.      *)
(***************************************************************************)
LEMMA NobodyElseIsInAHandler ==
    ASSUME BaseInv, NEW w \in Workers, Moves(w), Runs(w), ~ overlapped'
    PROVE  /\ ~ overlapped
           /\ \A v \in Workers \ {w} : ~ InHandler(v) /\ ~ InHandler(v)'
           /\ OneHandler'
           /\ \A v \in Workers : InHandler(v)' => v = w
  <1>1. ~ overlapped /\ ~ OthersInHandler(w)
    BY DEF Runs, BaseInv, TypeOK
  <1>2. \A v \in Workers \ {w} : ~ InHandler(v)
    BY <1>1 DEF OthersInHandler
  <1>3. \A v \in Workers \ {w} : requests'[v] = requests[v]
    BY MovesKeepRequests
  <1>4. \A v \in Workers \ {w} : ~ InHandler(v)'
    BY <1>2, <1>3 DEF InHandler
  <1> QED
    BY <1>1, <1>2, <1>4 DEF OneHandler

(* Nobody is between taking an account away or changing it and the ledger. *)
LEMMA OnlyTheOneWhoRuns ==
    ASSUME BaseInv, NEW w \in Workers, Moves(w), Runs(w), ~ overlapped', NEW e
    PROVE  /\ BeingRemoved(e) <=> /\ requests[w].kind = "remove"
                                  /\ requests[w].pc = "finish" /\ requests[w].email = e
           /\ BeingReset(e) <=> /\ requests[w].kind = "reset"
                                /\ requests[w].pc = "finish" /\ requests[w].email = e
           /\ BeingRemoved(e)' <=> /\ requests'[w].kind = "remove"
                                   /\ requests'[w].pc = "finish" /\ requests'[w].email = e
           /\ BeingReset(e)' <=> /\ requests'[w].kind = "reset"
                                 /\ requests'[w].pc = "finish" /\ requests'[w].email = e
  <1>1. \A v \in Workers \ {w} : requests[v].pc # "finish" /\ requests'[v].pc # "finish"
    BY NobodyElseIsInAHandler DEF InHandler
  <1> QED
    BY <1>1 DEF BeingRemoved, BeingReset

LEMMA QuietKeepsAlone ==
    ASSUME BaseInv, AloneInv, NEW w \in Workers, Quiet(w), ~ overlapped',
           requests[w].pc # "finish",
           InHandler(w)' => Undisturbed(requests[w])'
    PROVE  AloneInv'
  <1>1. Moves(w) /\ Runs(w) /\ UNCHANGED <<users, sessions, ledger, founded, redeemed, logFailures>>
    BY DEF Quiet, history
  <1>2. OneHandler' /\ \A v \in Workers : InHandler(v)' => v = w
    BY <1>1, NobodyElseIsInAHandler
  <1>3. TenantsKeepAnOwner' /\ MailIsSingleUse'
    BY <1>1 DEF AloneInv, TenantsKeepAnOwner, HasOwner, IsMember, MailIsSingleUse
  <1>4. ASSUME logFailures' = 0, NEW s \in sessions', Live(s)' PROVE Fits(s)'
    <2>1. s \in sessions /\ Live(s) /\ logFailures = 0
      BY <1>1, <1>4 DEF Live, IsFamilyRevoked
    <2>2. ~ BeingRemoved(s.sub) /\ ~ BeingReset(s.sub)
      BY <1>1, OnlyTheOneWhoRuns
    <2>3. Real(users[s.sub]) /\ users[s.sub].tenant = s.tenant /\ users[s.sub].hash = s.hash
      BY <2>1, <2>2 DEF AloneInv, SessionsFit, Fits
    <2> QED
      BY <1>1, <2>3 DEF Fits, Real
  <1> QED
    BY <1>2, <1>3, <1>4 DEF AloneInv, SessionsFit

(* What each handler knows after a step that only reads.                   *)
LEMMA ArrivalsStartUndisturbed ==
    ASSUME BaseInv, NEW w \in Workers, Request(w), \A tok \in mail : ~ RevokeMail(w, tok),
           InHandler(w)'
    PROVE  Undisturbed(requests[w])'
  <1> DEFINE r == requests'[w]
  <1>0. TypeOK /\ users' = users /\ ledger' = ledger
    BY ArrivalsAreQuiet DEF BaseInv, Quiet
  <1>1. ASSUME NEW e \in Subjects, Register(w, e) PROVE Undisturbed(requests[w])'
    <2>1. r = [Idle EXCEPT !.kind = "register", !.pc = "add", !.email = e,
                           !.row = Account(nextHash, "owner", nextHash)]
      BY <1>0, <1>1 DEF Register, Becomes, TypeOK
    <2>2. /\ r.kind = "register" /\ r.pc = "add" /\ r.email = e /\ r.row.role = "owner"
          /\ users[e] = NoAccount
      BY <1>1, <2>1 DEF Idle, Account, Register
    <2> QED
      BY <1>0, <2>2 DEF Undisturbed
  <1>2. ASSUME NEW e \in Subjects, Login(w, e) PROVE Undisturbed(requests[w])'
    <2>1. r = [Idle EXCEPT !.kind = "login", !.pc = "finish", !.email = e, !.row = users[e]]
      BY <1>0, <1>2 DEF Login, Becomes, TypeOK
    <2>2. r.kind = "login" /\ r.pc = "finish" /\ r.email = e /\ r.row = users[e]
      BY <2>1 DEF Idle
    <2> QED
      BY <1>0, <2>2 DEF Undisturbed
  <1>3. ASSUME NEW e \in Subjects, RequestPasswordReset(w, e) PROVE FALSE
    BY <1>3 DEF RequestPasswordReset, Arrives, InHandler, Idle
  <1>4. ASSUME NEW tok \in mail, VerifyEmail(w, tok) PROVE Undisturbed(requests[w])'
    <2>1. r = [Idle EXCEPT !.kind = "verify", !.pc = "add", !.email = tok.sub,
                           !.row = [users[tok.sub] EXCEPT !.verified = TRUE]]
      BY <1>0, <1>4 DEF VerifyEmail, Becomes, TypeOK
    <2>2. /\ r.kind = "verify" /\ r.pc = "add" /\ r.email = tok.sub
          /\ r.row = [users[tok.sub] EXCEPT !.verified = TRUE]
      BY <2>1 DEF Idle
    <2>3. users[tok.sub] \in AccountSet /\ users[tok.sub] # NoAccount
      BY <1>0, <1>4 DEF VerifyEmail, TypeOK
    <2> QED
      BY <1>0, <2>2, <2>3 DEF Undisturbed, Real
  <1>5. ASSUME NEW tok \in mail, AcceptInvite(w, tok) \/ ResetPassword(w, tok)
        PROVE  Undisturbed(requests[w])'
    <2>1. \E kind \in {"accept", "reset"} :
            r = [Idle EXCEPT !.kind = kind, !.pc = "read", !.email = tok.sub,
                             !.tenant = tok.tenant, !.jti = tok.jti]
      BY <1>0, <1>5 DEF AcceptInvite, ResetPassword, PresentToken, Becomes, TypeOK
    <2>2. /\ r.kind \in {"accept", "reset"} /\ r.pc = "read" /\ r.jti = tok.jti
          /\ tok.jti \notin ledger.revokedJtis
      BY <1>5, <2>1 DEF Idle, AcceptInvite, ResetPassword, PresentToken, IsRevoked
    <2> QED
      BY <1>0, <2>2 DEF Undisturbed
  <1>6. ASSUME NEW session \in sessions, NEW e \in Subjects, NEW kind, NEW role,
               Admit(w, session, kind, e, role)
        PROVE  FALSE
    <2>1. r = [Idle EXCEPT !.kind = kind, !.pc = "admitted",
                           !.caller = session.sub, !.tenant = session.tenant,
                           !.email = e, !.role = role]
      BY <1>0, <1>6 DEF Admit, Becomes, TypeOK
    <2> QED
      BY <2>1 DEF Idle, InHandler
  <1> QED
    BY <1>1, <1>2, <1>3, <1>4, <1>5, <1>6 DEF Request

LEMMA ReadsLeaveUndisturbed ==
    ASSUME BaseInv, AloneInv, NEW w \in Workers, Reads(w), InHandler(w)'
    PROVE  Undisturbed(requests[w])'
  <1> DEFINE r == requests[w]
             n == requests'[w]
             a == users[r.email]
  <1>0. /\ TypeOK /\ users' = users /\ ledger' = ledger
        /\ r \in RequestSet /\ Shape(r) /\ r.pc # "idle"
        /\ r.email \in Subjects /\ a \in AccountSet
        /\ n # Idle
    BY ReadsAreQuiet, RequestsAreTyped DEF BaseInv, Quiet, InHandler, Idle
  <1>u. r.pc # "admitted" => Undisturbed(r)
    BY <1>0 DEF AloneInv, InHandler
  <1>1. CASE OwnerGate(w)
    <2>1. n = [r EXCEPT !.pc = "target"] /\ r.pc = "admitted"
      BY <1>0, <1>1 DEF OwnerGate, GoesTo, Answers, Becomes, TypeOK
    <2>2. n.pc = "target" /\ n.kind \in {"invite", "role", "remove"}
      BY <1>0, <2>1 DEF RequestSet, Shape
    <2> QED
      BY <2>2 DEF Undisturbed
  <1>2. CASE Invite(w)
    BY <1>0, <1>2 DEF Invite, Answers, Becomes, TypeOK
  <1>3. CASE RoleTarget(w)
    <2>1. /\ r.kind = "role" /\ a # NoAccount /\ a.tenant = r.tenant
          /\ n = [r EXCEPT !.pc = IF a.role = "owner" /\ r.role = "member" THEN "owners" ELSE "add",
                           !.row = [a EXCEPT !.role = r.role]]
      BY <1>0, <1>3 DEF RoleTarget, At, IsMember, Writes, Answers, Becomes, TypeOK
    <2>2. /\ n.kind = "role" /\ n.email = r.email /\ n.tenant = r.tenant /\ n.role = r.role
          /\ n.row = [a EXCEPT !.role = r.role]
          /\ n.pc = IF a.role = "owner" /\ r.role = "member" THEN "owners" ELSE "add"
          /\ r.role \in {"owner", "member"}
      BY <1>0, <2>1 DEF RequestSet, Shape, Roles
    <2> QED
      BY <1>0, <2>1, <2>2 DEF Undisturbed, Real
  <1>4. CASE RemoveTarget(w)
    <2>1. /\ r.kind = "remove" /\ a # NoAccount /\ a.tenant = r.tenant
          /\ n = [r EXCEPT !.pc = IF a.role = "owner" THEN "owners" ELSE "remove"]
      BY <1>0, <1>4 DEF RemoveTarget, At, IsMember, GoesTo, Answers, Becomes, TypeOK
    <2>2. /\ n.kind = "remove" /\ n.email = r.email /\ n.tenant = r.tenant
          /\ n.pc = IF a.role = "owner" THEN "owners" ELSE "remove"
      BY <1>0, <2>1 DEF RequestSet
    <2> QED
      BY <1>0, <2>1, <2>2 DEF Undisturbed, Real
  <1>5. CASE CountOwners(w)
    <2>1. /\ r.pc = "owners" /\ ~ WouldLeaveTenantWithoutAnOwner(r.tenant, r.email)
          /\ n = [r EXCEPT !.pc = IF r.kind = "role" THEN "add" ELSE "remove"]
      BY <1>0, <1>5 DEF CountOwners, GoesTo, Answers, Becomes, TypeOK
    <2>2. /\ n.kind = r.kind /\ n.email = r.email /\ n.tenant = r.tenant /\ n.role = r.role
          /\ n.row = r.row /\ r.kind \in {"role", "remove"}
          /\ n.pc = IF r.kind = "role" THEN "add" ELSE "remove"
      BY <1>0, <2>1 DEF RequestSet, Shape
    <2>3. AnotherOwner(requests[w].tenant, requests[w].email)'
      BY <1>0, <2>1, <2>2 DEF WouldLeaveTenantWithoutAnOwner, AnotherOwner, IsMember
    <2>4. Undisturbed(r)
      BY <1>u, <2>1
    <2>5. Real(a) /\ a.tenant = r.tenant
      BY <2>1, <2>2, <2>4 DEF Undisturbed
    <2>6. r.kind = "role" => r.row = [a EXCEPT !.role = r.role]
      BY <2>1, <2>4 DEF Undisturbed
    <2> QED
      BY <1>0, <2>2, <2>3, <2>5, <2>6 DEF Undisturbed, Real
  <1>6. CASE InviteeIsNew(w)
    <2>1. /\ r.kind = "accept" /\ r.pc = "read" /\ a = NoAccount
          /\ n = [r EXCEPT !.pc = "add", !.row = Account(r.tenant, "member", nextHash)]
      BY <1>0, <1>6 DEF InviteeIsNew, At, Writes, Answers, Becomes, TypeOK
    <2>2. n.kind = "accept" /\ n.email = r.email /\ n.pc = "add" /\ n.jti = r.jti
      BY <1>0, <2>1 DEF RequestSet
    <2>3. r.jti \notin ledger.revokedJtis
      BY <1>u, <2>1 DEF Undisturbed
    <2> QED
      BY <1>0, <2>1, <2>2, <2>3 DEF Undisturbed
  <1>7. CASE AccountStillExists(w)
    <2>1. /\ r.kind = "reset" /\ r.pc = "read" /\ a # NoAccount
          /\ n = [r EXCEPT !.pc = "add", !.row = [a EXCEPT !.hash = nextHash]]
      BY <1>0, <1>7 DEF AccountStillExists, At, Writes, Answers, Becomes, TypeOK
    <2>2. /\ n.kind = "reset" /\ n.email = r.email /\ n.pc = "add" /\ n.jti = r.jti
          /\ n.row = [a EXCEPT !.hash = nextHash]
      BY <1>0, <2>1 DEF RequestSet
    <2>3. r.jti \notin ledger.revokedJtis
      BY <1>u, <2>1 DEF Undisturbed
    <2>4. [a EXCEPT !.hash = nextHash].hash = nextHash
      BY <1>0, <2>1, RealAccounts
    <2> QED
      BY <1>0, <2>1, <2>2, <2>3, <2>4 DEF Undisturbed, Real
  <1>8. CASE MergeLoads(w)
    <2>1. r.pc = "add" /\ n = [r EXCEPT !.pc = "merge", !.seen = a]
      BY <1>0, <1>8 DEF MergeLoads, Becomes, TypeOK
    <2>2. /\ n.kind = r.kind /\ n.email = r.email /\ n.pc = "merge" /\ n.jti = r.jti
          /\ n.row = r.row /\ n.role = r.role /\ n.tenant = r.tenant /\ n.seen = a
      BY <1>0, <2>1 DEF RequestSet
    <2>3. Undisturbed(r)
      BY <1>u, <2>1
    <2> QED
      BY <1>0, <2>1, <2>2, <2>3 DEF Undisturbed, Real, AnotherOwner, IsMember
  <1> QED
    BY <1>1, <1>2, <1>3, <1>4, <1>5, <1>6, <1>7, <1>8 DEF Reads

(* Alone, a handler writes the very account it means to.                   *)
LEMMA StoringWritesTheRow ==
    ASSUME BaseInv, AloneInv, NEW w \in Workers, AddInMemory(w) \/ MergeCommits(w)
    PROVE  /\ Stored(w, requests[w].row)
           /\ Undisturbed(requests[w]) /\ Shape(requests[w])
           /\ requests[w].pc \in {"add", "merge"}
           /\ requests[w].email \in Subjects
           /\ users[requests[w].email] \in AccountSet
           /\ requests[w].row \in AccountSet /\ requests[w].row # NoAccount
           /\ UNCHANGED <<sessions, ledger, redeemed, logFailures>>
           /\ Moves(w) /\ Runs(w)
  <1> DEFINE r == requests[w]
             a == users[r.email]
  <1>0. r.pc \in {"add", "merge"} /\ InHandler(w)
    BY DEF AddInMemory, MergeCommits, InHandler
  <1>1. /\ Undisturbed(r) /\ Shape(r) /\ r.email \in Subjects /\ a \in AccountSet
        /\ r.row \in AccountSet /\ r.row # NoAccount /\ r.seen \in AccountSet
    BY <1>0, RequestsAreTyped DEF AloneInv, Shape, Real, RequestSet
  <1>2. Stored(w, r.row)
    <2>1. CASE AddInMemory(w)
      BY <2>1 DEF AddInMemory
    <2>2. CASE MergeCommits(w)
      <3>1. r.pc = "merge" /\ r.seen = a
        BY <1>1, <2>2 DEF MergeCommits, Undisturbed
      <3>2. CASE a = NoAccount
        BY <2>2, <3>1, <3>2 DEF MergeCommits
      <3>3. CASE a # NoAccount
        <4>1. Updated(r.row, r.seen, a) = r.row
          BY <1>1, <3>1, <3>3, UpdatedIsAnAccount
        <4> QED
          BY <2>2, <3>1, <3>3, <4>1 DEF MergeCommits
      <3> QED
        BY <3>2, <3>3
    <2> QED
      BY <2>1, <2>2
  <1> QED
    BY <1>0, <1>1, <1>2, ContinuationsMove DEF Step, AddInMemory, MergeCommits

LEMMA StoringKeepsAlone ==
    ASSUME BaseInv, AloneInv, NEW w \in Workers, AddInMemory(w) \/ MergeCommits(w),
           ~ overlapped'
    PROVE  AloneInv'
  <1> DEFINE r == requests[w]
             n == requests'[w]
             a == users[r.email]
  <1>0. /\ Undisturbed(r) /\ Shape(r) /\ r.pc \in {"add", "merge"}
        /\ r.email \in Subjects /\ a \in AccountSet
        /\ r.row \in AccountSet /\ r.row # NoAccount
        /\ UNCHANGED <<sessions, ledger, redeemed, logFailures>>
        /\ Moves(w) /\ Runs(w) /\ TypeOK
        /\ r \in RequestSet
        /\ Stored(w, r.row)
    BY StoringWritesTheRow, RequestsAreTyped DEF BaseInv
  <1>1. users' = [users EXCEPT ![r.email] = r.row] /\ users'[r.email] = r.row
    BY <1>0 DEF Stored, TypeOK
  <1>2. /\ r.kind \in {"register", "verify", "accept", "reset", "role"}
        /\ \/ n = Idle /\ r.kind \in {"role", "verify"}
           \/ /\ r.kind \in {"register", "accept", "reset"}
              /\ n.pc = "finish" /\ n.kind = r.kind /\ n.email = r.email
              /\ n.row = r.row /\ n.jti = r.jti
    <2>1. \/ n = Idle /\ r.kind \in {"role", "verify"}
          \/ n = [r EXCEPT !.pc = "finish", !.seen = NoAccount] /\ r.kind \notin {"role", "verify"}
      BY <1>0 DEF Stored, AfterAdd, Answers, Becomes, TypeOK
    <2> QED
      BY <1>0, <2>1 DEF Shape, RequestSet
  <1>3. /\ r.kind \in {"register", "accept"} => a = NoAccount
        /\ r.kind = "register" => r.row.role = "owner"
        /\ r.kind = "verify" => Real(a) /\ r.row = [a EXCEPT !.verified = TRUE]
        /\ r.kind = "reset" => Real(a) /\ r.row = [a EXCEPT !.hash = r.row.hash]
        /\ r.kind = "role" => /\ Real(a) /\ a.tenant = r.tenant
                              /\ r.row = [a EXCEPT !.role = r.role]
                              /\ a.role = "owner" /\ r.role # "owner" =>
                                   AnotherOwner(r.tenant, r.email)
        /\ r.kind \in {"accept", "reset"} => r.jti \notin ledger.revokedJtis
    BY <1>0 DEF Undisturbed
  <1>4. a # NoAccount =>
          /\ r.kind \in {"verify", "reset", "role"} /\ r.row.tenant = a.tenant
          /\ r.kind # "reset" => r.row.hash = a.hash
          /\ r.row.role = a.role \/ (r.kind = "role" /\ r.row.role = r.role)
    BY <1>0, <1>2, <1>3, RealAccounts DEF Real
  <1>5. OneHandler' /\ \A v \in Workers : InHandler(v)' => v = w
    BY <1>0, NobodyElseIsInAHandler
  <1>6. InHandler(w)' => Undisturbed(requests[w])'
    BY <1>0, <1>1, <1>2, <1>3 DEF InHandler, Idle, Undisturbed
  <1>7. ASSUME NEW t \in founded' PROVE HasOwner(t)'
    <2>1. CASE r.kind = "register" /\ t = r.row.tenant
      BY <1>0, <1>1, <1>3, <2>1 DEF HasOwner, IsMember
    <2>2. CASE t \in founded
      <3>1. PICK o \in Subjects : IsMember(o, t) /\ users[o].role = "owner"
        BY <2>2 DEF AloneInv, TenantsKeepAnOwner, HasOwner
      <3>2. CASE o # r.email
        BY <1>0, <1>1, <3>1, <3>2 DEF HasOwner, IsMember, TypeOK
      <3>3. CASE o = r.email /\ r.row.role = "owner"
        BY <1>0, <1>1, <1>4, <3>1, <3>3 DEF HasOwner, IsMember
      <3>4. CASE o = r.email /\ r.row.role # "owner"
        <4>1. /\ a # NoAccount /\ a.role = "owner"
              /\ r.kind = "role" /\ r.role # "owner" /\ r.tenant = t
          BY <1>3, <1>4, <3>1, <3>4 DEF IsMember
        <4>2. PICK p \in Subjects \ {r.email} : IsMember(p, t) /\ users[p].role = "owner"
          BY <1>3, <4>1 DEF AnotherOwner
        <4> QED
          BY <1>0, <1>1, <4>2 DEF HasOwner, IsMember, TypeOK
      <3> QED
        BY <3>2, <3>3, <3>4
    <2> QED
      BY <1>0, <1>7, <2>1, <2>2 DEF Stored
  <1>8. ASSUME logFailures' = 0, NEW s \in sessions', Live(s)' PROVE Fits(s)'
    <2>1. s \in sessions /\ Live(s) /\ logFailures = 0 /\ s.sub \in Subjects
      BY <1>0, <1>8 DEF Live, IsFamilyRevoked, TypeOK
    <2>2. ~ BeingRemoved(s.sub) /\ ~ BeingReset(s.sub)
      BY <1>0, OnlyTheOneWhoRuns
    <2>3. Real(users[s.sub]) /\ users[s.sub].tenant = s.tenant /\ users[s.sub].hash = s.hash
      BY <2>1, <2>2 DEF AloneInv, SessionsFit, Fits
    <2>4. CASE s.sub # r.email
      BY <1>0, <1>1, <2>1, <2>3, <2>4 DEF Fits, Real, TypeOK
    <2>5. CASE s.sub = r.email
      <3>1. Real(r.row) /\ r.row.tenant = s.tenant
        BY <1>0, <1>4, <2>3, <2>5 DEF Real
      <3>2. CASE r.kind # "reset"
        BY <1>1, <1>4, <2>3, <2>5, <3>1, <3>2 DEF Fits, Real
      <3>3. CASE r.kind = "reset"
        <4>1. BeingReset(s.sub)'
          BY <1>0, <1>2, <2>5, <3>3, OnlyTheOneWhoRuns
        <4> QED
          BY <1>1, <2>5, <3>1, <4>1 DEF Fits, Real
      <3> QED
        BY <3>2, <3>3
    <2> QED
      BY <2>4, <2>5
  <1>9. MailIsSingleUse'
    BY <1>0 DEF AloneInv, MailIsSingleUse
  <1> QED
    BY <1>5, <1>6, <1>7, <1>8, <1>9 DEF AloneInv, TenantsKeepAnOwner, SessionsFit

LEMMA RemovingKeepsAlone ==
    ASSUME BaseInv, AloneInv, NEW w \in Workers, RemoveAccount(w), ~ overlapped'
    PROVE  AloneInv'
  <1> DEFINE r == requests[w]
             n == requests'[w]
             a == users[r.email]
  <1>0. /\ TypeOK /\ Moves(w) /\ Runs(w) /\ r \in RequestSet
        /\ r.kind = "remove" /\ r.pc = "remove" /\ r.email \in Subjects
        /\ UNCHANGED <<sessions, ledger, founded, redeemed, logFailures>>
        /\ users' = [users EXCEPT ![r.email] = NoAccount]
        /\ users'[r.email] = NoAccount
    BY ContinuationsMove, RequestsAreTyped DEF BaseInv, Step, RemoveAccount, At, TypeOK, history
  <1>1. n.kind = "remove" /\ n.pc = "finish" /\ n.email = r.email
    <2>1. n = [r EXCEPT !.pc = "finish"]
      BY <1>0 DEF RemoveAccount, GoesTo, Becomes, TypeOK
    <2> QED
      BY <1>0, <2>1 DEF RequestSet
  <1>2. /\ Real(a) /\ a.tenant = r.tenant
        /\ a.role = "owner" => AnotherOwner(r.tenant, r.email)
    BY <1>0 DEF AloneInv, InHandler, Undisturbed
  <1>3. OneHandler' /\ \A v \in Workers : InHandler(v)' => v = w
    BY <1>0, NobodyElseIsInAHandler
  <1>4. Undisturbed(requests[w])'
    BY <1>0, <1>1 DEF Undisturbed
  <1>5. ASSUME NEW t \in founded' PROVE HasOwner(t)'
    <2>1. PICK o \in Subjects : IsMember(o, t) /\ users[o].role = "owner"
      BY <1>0, <1>5 DEF AloneInv, TenantsKeepAnOwner, HasOwner
    <2>2. CASE o # r.email
      BY <1>0, <2>1, <2>2 DEF HasOwner, IsMember, TypeOK
    <2>3. CASE o = r.email
      <3>1. PICK p \in Subjects \ {r.email} : IsMember(p, t) /\ users[p].role = "owner"
        BY <1>2, <2>1, <2>3 DEF AnotherOwner, IsMember
      <3> QED
        BY <1>0, <3>1 DEF HasOwner, IsMember, TypeOK
    <2> QED
      BY <2>2, <2>3
  <1>6. ASSUME logFailures' = 0, NEW s \in sessions', Live(s)' PROVE Fits(s)'
    <2>1. s \in sessions /\ Live(s) /\ logFailures = 0 /\ s.sub \in Subjects
      BY <1>0, <1>6 DEF Live, IsFamilyRevoked, TypeOK
    <2>2. ~ BeingRemoved(s.sub) /\ ~ BeingReset(s.sub)
      BY <1>0, OnlyTheOneWhoRuns
    <2>3. Real(users[s.sub]) /\ users[s.sub].tenant = s.tenant /\ users[s.sub].hash = s.hash
      BY <2>1, <2>2 DEF AloneInv, SessionsFit, Fits
    <2>4. CASE s.sub # r.email
      BY <1>0, <2>1, <2>3, <2>4 DEF Fits, Real, TypeOK
    <2>5. CASE s.sub = r.email
      BY <1>0, <1>1, <2>5, OnlyTheOneWhoRuns DEF Fits
    <2> QED
      BY <2>4, <2>5
  <1>7. MailIsSingleUse'
    BY <1>0 DEF AloneInv, MailIsSingleUse
  <1> QED
    BY <1>3, <1>4, <1>5, <1>6, <1>7 DEF AloneInv, TenantsKeepAnOwner, SessionsFit

LEMMA FinishingKeepsAlone ==
    ASSUME BaseInv, AloneInv, NEW w \in Workers, Finishes(w), ~ overlapped'
    PROVE  AloneInv'
  <1> DEFINE r == requests[w]
  <1>0. /\ TypeOK /\ Moves(w) /\ Runs(w) /\ requests'[w] = Idle
        /\ ledger \in LedgerType(Uuids, Uuids) /\ Grows(ledger, ledger)
        /\ r.pc = "finish" /\ r.email \in Subjects
        /\ r.kind \in {"register", "login", "accept", "reset", "remove"}
        /\ r.kind # "remove" => r.row \in AccountSet /\ r.row # NoAccount
        /\ r.kind \in {"accept", "reset"} => r.jti \in Uuids
        /\ UNCHANGED <<users, founded>>
    BY FinishingRequests DEF Finishes, FinishRegister, FinishLogin, FinishAccept, FinishReset,
                             FinishRemove, LogRaises, history, uuids
  <1>1. OneHandler' /\ \A v \in Workers : ~ InHandler(v)'
    BY <1>0, NobodyElseIsInAHandler DEF InHandler, Idle
  <1>2. Undisturbed(r)
    BY <1>0 DEF AloneInv, InHandler
  <1>3. TenantsKeepAnOwner'
    BY <1>0 DEF AloneInv, TenantsKeepAnOwner, HasOwner, IsMember
  <1>4. MailIsSingleUse'
    <2>1. CASE UNCHANGED redeemed
      BY <2>1 DEF AloneInv, MailIsSingleUse
    <2>2. CASE Redeems(w) /\ r.kind \in {"accept", "reset"}
      <3>1. \A x \in redeemed : x.jti # r.jti
        BY <1>2, <2>2 DEF Undisturbed, BaseInv
      <3> QED
        BY <2>2, <3>1 DEF AloneInv, MailIsSingleUse, Redeems
    <2> QED
      BY <2>1, <2>2 DEF Finishes, FinishRegister, FinishLogin, FinishAccept, FinishReset,
                        FinishRemove, LogRaises, history, At
  <1>5. \A s \in sessions : Live(s) /\ logFailures = 0 =>
          \/ r.kind = "remove" /\ s.sub = r.email
          \/ /\ Real(users[s.sub]) /\ users[s.sub].tenant = s.tenant
             /\ users[s.sub].hash = s.hash \/ (r.kind = "reset" /\ s.sub = r.email)
    BY <1>0, OnlyTheOneWhoRuns DEF AloneInv, SessionsFit, Fits
  <1>6. ASSUME NEW l, ledger'.revokedFamilies = ledger.revokedFamilies,
               r.kind \in {"register", "login", "accept"},
               OpenSession(r.email, r.row, l), UNCHANGED logFailures
        PROVE  logFailures' = 0 => SessionsFit'
    <2> SUFFICES ASSUME logFailures' = 0, NEW s \in sessions', Live(s)' PROVE Fits(s)'
      BY DEF SessionsFit
    <2>1. users[r.email] = r.row
      BY <1>0, <1>2, <1>6 DEF Undisturbed
    <2>2. CASE s \in sessions
      BY <1>0, <1>5, <1>6, <2>2 DEF Live, IsFamilyRevoked, Fits, Real
    <2>3. CASE s \notin sessions
      <3>1. s.sub = r.email /\ s.tenant = r.row.tenant /\ s.hash = r.row.hash
        BY <1>6, <2>3 DEF OpenSession
      <3> QED
        BY <1>0, <1>6, <2>1, <3>1 DEF Fits, Real
    <2> QED
      BY <2>2, <2>3
  <1>7. ASSUME ledger'.revokedFamilies =
                 ledger.revokedFamilies \cup ledger.familiesBySubject[r.email],
               r.kind \in {"reset", "remove"}, UNCHANGED <<sessions, logFailures>>
        PROVE  logFailures' = 0 => SessionsFit'
    <2> SUFFICES ASSUME logFailures' = 0, NEW s \in sessions', Live(s)' PROVE Fits(s)'
      BY DEF SessionsFit
    <2>1. s \in sessions /\ Live(s)
      BY <1>7 DEF Live, IsFamilyRevoked
    <2>2. s.sub # r.email
      BY <1>7, <2>1 DEF Live, IsFamilyRevoked, BaseInv
    <2> QED
      BY <1>0, <1>5, <1>7, <2>1, <2>2 DEF Fits, Real
  <1>8. logFailures' = 0 => SessionsFit'
    <2>1. CASE FinishRegister(w)
      <3>1. r.kind = "register" /\ OpenSession(r.email, r.row, ledger) /\ UNCHANGED logFailures
        BY <2>1 DEF FinishRegister, At, history
      <3> QED
        BY <1>0, <1>6, <3>1, OpeningKeepsFamilies
    <2>2. CASE FinishLogin(w)
      <3>1. r.kind = "login" /\ OpenSession(r.email, r.row, ledger) /\ UNCHANGED logFailures
        BY <2>2 DEF FinishLogin, At, history
      <3> QED
        BY <1>0, <1>6, <3>1, OpeningKeepsFamilies
    <2>3. CASE FinishAccept(w)
      <3>1. /\ r.kind = "accept" /\ OpenSession(r.email, r.row, Revoke(ledger, r.jti))
            /\ UNCHANGED logFailures
        BY <2>3 DEF FinishAccept, At
      <3>2. /\ Grows(ledger, Revoke(ledger, r.jti))
            /\ Revoke(ledger, r.jti).revokedFamilies = ledger.revokedFamilies
        BY <1>0, <3>1, RevokeGrows
      <3> QED
        BY <1>0, <1>6, <3>1, <3>2, OpeningKeepsFamilies
    <2>4. CASE FinishReset(w)
      <3>1. /\ r.kind = "reset"
            /\ ledger' = RevokeAllSessionsForSubject(Revoke(ledger, r.jti), r.email)
            /\ UNCHANGED <<sessions, logFailures>>
        BY <2>4 DEF FinishReset, At
      <3>2. /\ Revoke(ledger, r.jti) \in LedgerType(Uuids, Uuids)
            /\ Revoke(ledger, r.jti).revokedFamilies = ledger.revokedFamilies
            /\ Revoke(ledger, r.jti).familiesBySubject = ledger.familiesBySubject
        BY <1>0, <3>1, RevokeGrows DEF Grows
      <3> QED
        BY <1>0, <1>7, <3>1, <3>2, CascadeGrows
    <2>5. CASE FinishRemove(w)
      <3>1. /\ r.kind = "remove" /\ ledger' = RevokeAllSessionsForSubject(ledger, r.email)
            /\ UNCHANGED <<sessions, logFailures>>
        BY <2>5 DEF FinishRemove, At, history
      <3> QED
        BY <1>0, <1>7, <3>1, CascadeGrows
    <2>6. CASE LogRaises(w)
      BY <1>0, <2>6 DEF LogRaises, TypeOK
    <2> QED
      BY <2>1, <2>2, <2>3, <2>4, <2>5, <2>6 DEF Finishes
  <1> QED
    BY <1>1, <1>3, <1>4, <1>8 DEF AloneInv

LEMMA RevokingMailKeepsAlone ==
    ASSUME BaseInv, AloneInv, NEW w \in Workers, NEW tok \in mail, RevokeMail(w, tok),
           ~ overlapped'
    PROVE  AloneInv'
  <1>0. /\ Moves(w) /\ Runs(w) /\ requests[w] = Idle
        /\ ledger'.revokedFamilies = ledger.revokedFamilies
        /\ UNCHANGED <<users, sessions, requests, founded, redeemed, logFailures>>
    BY RevokingMail DEF RevokeMail, history
  <1>1. OneHandler' /\ \A v \in Workers : ~ InHandler(v)'
    BY <1>0, NobodyElseIsInAHandler DEF InHandler, Idle
  <1>2. TenantsKeepAnOwner' /\ MailIsSingleUse'
    BY <1>0 DEF AloneInv, TenantsKeepAnOwner, HasOwner, IsMember, MailIsSingleUse
  <1>3. logFailures' = 0 => SessionsFit'
    BY <1>0 DEF AloneInv, SessionsFit, Fits, Live, IsFamilyRevoked, Real,
                BeingRemoved, BeingReset
  <1> QED
    BY <1>1, <1>2, <1>3 DEF AloneInv

LEMMA StepsKeepAlone ==
    ASSUME BaseInv, AloneInv, NEW w \in Workers, Request(w) \/ Step(w), ~ overlapped'
    PROVE  AloneInv'
  <1>1. CASE \E tok \in mail : RevokeMail(w, tok)
    BY <1>1, RevokingMailKeepsAlone
  <1>2. CASE Request(w) /\ \A tok \in mail : ~ RevokeMail(w, tok)
    <2>1. requests[w].pc # "finish"
      BY <1>2, ArrivalsAreQuiet DEF Idle
    <2> QED
      BY <1>2, <2>1, ArrivalsAreQuiet, ArrivalsStartUndisturbed, QuietKeepsAlone
  <1>3. CASE Reads(w)
    BY <1>3, ReadsAreQuiet, ReadsLeaveUndisturbed, QuietKeepsAlone
  <1>4. CASE AddInMemory(w) \/ MergeCommits(w)
    BY <1>4, StoringKeepsAlone
  <1>5. CASE RemoveAccount(w)
    BY <1>5, RemovingKeepsAlone
  <1>6. CASE Finishes(w)
    BY <1>6, FinishingKeepsAlone
  <1> QED
    BY <1>1, <1>2, <1>3, <1>4, <1>5, <1>6 DEF Step, Reads, Finishes

-----------------------------------------------------------------------------
(***************************************************************************)
(* The inductive invariant.                                                *)
(***************************************************************************)
LEMMA InitIsFresh == Init => AccountsInv
  <1> SUFFICES ASSUME Init PROVE AccountsInv
    OBVIOUS
  <1>1. TypeOK
    <2>1. EmptyLedger \in LedgerType(Uuids, Uuids)
      BY DEF LedgerType, EmptyLedger
    <2>2. 1 \in Uuids
      BY DEF Uuids
    <2>3. [s \in Subjects |-> NoAccount] \in [Subjects -> AccountSet]
      BY NoAccountIsTyped
    <2>4. [w \in Workers |-> Idle] \in [Workers -> RequestSet]
      BY NobodyIsIdle
    <2> QED
      BY <2>1, <2>2, <2>3, <2>4 DEF Init, TypeOK
  <1>2. BaseInv
    BY <1>1, NobodyIsIdle, AccountConstants DEF Init, BaseInv
  <1>3. HashesAreFresh
    BY DEF Init, HashesAreFresh, NoAccount, Idle, Registering
  <1>4. AloneInv
    BY DEF Init, AloneInv, OneHandler, InHandler, Idle, TenantsKeepAnOwner,
           MailIsSingleUse, SessionsFit
  <1> QED
    BY <1>2, <1>3, <1>4 DEF AccountsInv

LEMMA StepsKeepAccountsInv == AccountsInv /\ [Next]_vars => AccountsInv'
  <1>1. CASE UNCHANGED vars
    BY <1>1 DEF AccountsInv, BaseInv, TypeOK, Shape, Real, HashesAreFresh, Registering,
                AloneInv, OneHandler, InHandler, Undisturbed, AnotherOwner, IsMember,
                TenantsKeepAnOwner, HasOwner, MailIsSingleUse, SessionsFit, Live,
                IsFamilyRevoked, Fits, BeingRemoved, BeingReset, vars, uuids, history
  <1>2. ASSUME AccountsInv, NEW w \in Workers, Request(w) \/ Step(w)
        PROVE  AccountsInv'
    <2>1. Carries(w) /\ Moves(w) /\ Runs(w)
      BY <1>2, StepsCarry DEF AccountsInv
    <2>2. BaseInv' /\ HashesAreFresh'
      BY <1>2, <2>1, StepsKeepBase, CarriedHashesAreFresh DEF AccountsInv
    <2>3. ~ overlapped' => AloneInv'
      BY <1>2, <2>1, NobodyElseIsInAHandler, StepsKeepAlone DEF AccountsInv
    <2> QED
      BY <2>2, <2>3 DEF AccountsInv
  <1> QED
    BY <1>1, <1>2 DEF Next

(* The invariant holds in every state of every behaviour.                  *)
THEOREM AccountsKeepTheirInvariant == Spec => []AccountsInv
  BY InitIsFresh, StepsKeepAccountsInv, PTL DEF Spec

(* Accounts, requests, mails, sessions and the ledger keep their types.    *)
THEOREM AccountsAreWellTyped == Spec => []TypeOK
  <1>1. AccountsInv => TypeOK
    BY DEF AccountsInv, BaseInv
  <1> QED
    BY <1>1, AccountsKeepTheirInvariant, PTL

-----------------------------------------------------------------------------
(***************************************************************************)
(* What the invariant says to somebody who reads the code.                 *)
(***************************************************************************)
LEMMA SessionsAtRest ==
    ASSUME AccountsInv, ~ overlapped, logFailures = 0
    PROVE  RemovedMembersAreLockedOut /\ SessionsStayInTheirTenant /\ ResetEndsOlderSessions
  <1>1. SessionsFit
    BY DEF AccountsInv, AloneInv
  <1>2. AtRest => \A e : ~ BeingRemoved(e) /\ ~ BeingReset(e)
    BY DEF AtRest, InHandler, BeingRemoved, BeingReset
  <1>3. AtRest => \A s \in sessions : Live(s) =>
                    /\ Real(users[s.sub])
                    /\ users[s.sub].tenant = s.tenant
                    /\ users[s.sub].hash = s.hash
    BY <1>1, <1>2 DEF SessionsFit, Fits
  <1> QED
    BY <1>3 DEF RemovedMembersAreLockedOut, SessionsStayInTheirTenant, ResetEndsOlderSessions,
                Real

(***************************************************************************)
(* Over either repository, with any accounts and any number of requests: a *)
(* tenant without an owner, a removed member or an old password that still *)
(* gets in, a session in a foreign tenant, or a token spent twice is the   *)
(* work of two handlers that overlapped or of an append that raised.       *)
(***************************************************************************)
THEOREM OnlyOverlapsAndFailuresHurt == Spec => []OverlapIsToBlame
  <1>1. AccountsInv => OverlapIsToBlame
    <2> SUFFICES ASSUME AccountsInv, ~ overlapped, ~ (logFailures > 0)
                 PROVE  /\ TenantsKeepAnOwner /\ MailIsSingleUse
                        /\ RemovedMembersAreLockedOut /\ SessionsStayInTheirTenant
                        /\ ResetEndsOlderSessions
      BY DEF OverlapIsToBlame
    <2>1. logFailures = 0
      BY DEF AccountsInv, BaseInv, TypeOK
    <2> QED
      BY <2>1, SessionsAtRest DEF AccountsInv, AloneInv
  <1> QED
    BY <1>1, AccountsKeepTheirInvariant, PTL

(* Over the repository in memory handlers never overlap.                   *)
LEMMA InMemoryRunsAlone ==
    ASSUME ~ SqlBackend
    PROVE  AccountsInv => ~ overlapped /\ AloneInv
  BY DEF AccountsInv, BaseInv

(* In memory, every tenant founded has an owner at all times (auth.py:52). *)
THEOREM TenantsInMemoryKeepAnOwner ==
    ASSUME ~ SqlBackend
    PROVE  Spec => []TenantsKeepAnOwner
  <1>1. AccountsInv => TenantsKeepAnOwner
    BY InMemoryRunsAlone DEF AloneInv
  <1> QED
    BY <1>1, AccountsKeepTheirInvariant, PTL

(* In memory, an invite or a reset token is answered once (auth.py:18-20). *)
THEOREM MailInMemoryIsSingleUse ==
    ASSUME ~ SqlBackend
    PROVE  Spec => []MailIsSingleUse
  <1>1. AccountsInv => MailIsSingleUse
    BY InMemoryRunsAlone DEF AloneInv
  <1> QED
    BY <1>1, AccountsKeepTheirInvariant, PTL

LEMMA WithoutFailures ==
    ASSUME MaxLogFailures = 0
    PROVE  AccountsInv => logFailures = 0
  BY DEF AccountsInv, BaseInv, TypeOK

(* In memory and while the log can be written, a removed member is locked  *)
(* out between handlers (auth.py:54-58).                                   *)
THEOREM RemovalInMemoryLocksOut ==
    ASSUME ~ SqlBackend, MaxLogFailures = 0
    PROVE  Spec => []RemovedMembersAreLockedOut
  <1>1. AccountsInv => RemovedMembersAreLockedOut
    BY InMemoryRunsAlone, WithoutFailures, SessionsAtRest
  <1> QED
    BY <1>1, AccountsKeepTheirInvariant, PTL

(* Likewise no session that works is in a tenant its holder has left.      *)
THEOREM SessionsInMemoryStayInTheirTenant ==
    ASSUME ~ SqlBackend, MaxLogFailures = 0
    PROVE  Spec => []SessionsStayInTheirTenant
  <1>1. AccountsInv => SessionsStayInTheirTenant
    BY InMemoryRunsAlone, WithoutFailures, SessionsAtRest
  <1> QED
    BY <1>1, AccountsKeepTheirInvariant, PTL

(* Likewise a session that works was opened under the password in force    *)
(* (auth.py:33-37).                                                        *)
THEOREM ResetInMemoryEndsOlderSessions ==
    ASSUME ~ SqlBackend, MaxLogFailures = 0
    PROVE  Spec => []ResetEndsOlderSessions
  <1>1. AccountsInv => ResetEndsOlderSessions
    BY InMemoryRunsAlone, WithoutFailures, SessionsAtRest
  <1> QED
    BY <1>1, AccountsKeepTheirInvariant, PTL

-----------------------------------------------------------------------------
(***************************************************************************)
(* What a step may never do, in memory.                                    *)
(***************************************************************************)
LEMMA UsersAreWrittenByThree ==
    ASSUME BaseInv, NEW w \in Workers, Request(w) \/ Step(w)
    PROVE  \/ AddInMemory(w) \/ MergeCommits(w)
           \/ RemoveAccount(w)
           \/ UNCHANGED <<users, founded>>
  <1>1. Reads(w) => UNCHANGED <<users, founded>>
    BY ReadsAreQuiet DEF Quiet, history
  <1>2. Finishes(w) => UNCHANGED <<users, founded>>
    BY DEF Finishes, FinishRegister, FinishLogin, FinishAccept, FinishReset,
           FinishRemove, LogRaises, history, uuids
  <1>3. Request(w) => UNCHANGED <<users, founded>>
    <2>1. CASE \E tok \in mail : RevokeMail(w, tok)
      BY <2>1 DEF RevokeMail, history
    <2>2. CASE \A tok \in mail : ~ RevokeMail(w, tok)
      BY <2>2, ArrivalsAreQuiet DEF Quiet, history
    <2> QED
      BY <2>1, <2>2
  <1> QED
    BY <1>1, <1>2, <1>3 DEF Step, Reads, Finishes

(***************************************************************************)
(* In memory a handler that writes a whole account back undoes nobody's    *)
(* write: verified stays verified (auth.py:573), and a role changes only   *)
(* in the last step of a request to change it.                             *)
(***************************************************************************)
THEOREM WritesInMemoryKeepWhatOthersWrote ==
    ASSUME ~ SqlBackend
    PROVE  Spec => WritesKeepWhatOthersWrote
  <1> DEFINE Kept(e) ==
        SameAccount(e) =>
          /\ users[e].verified => users'[e].verified
          /\ users'[e].role # users[e].role =>
                \E w \in Workers : /\ requests[w].kind = "role" /\ requests[w].email = e
                                   /\ requests'[w] = Idle
  <1>1. ASSUME AccountsInv, NEW w \in Workers, Request(w) \/ Step(w), NEW e \in Subjects
        PROVE  Kept(e)
    <2>0. BaseInv /\ AloneInv /\ users \in [Subjects -> AccountSet]
      BY <1>1, InMemoryRunsAlone DEF AccountsInv, BaseInv, TypeOK
    <2>1. CASE AddInMemory(w) \/ MergeCommits(w)
      <3> DEFINE r == requests[w]
                 a == users[r.email]
      <3>1. /\ Stored(w, r.row) /\ Undisturbed(r) /\ Shape(r) /\ r.pc \in {"add", "merge"}
            /\ r.email \in Subjects /\ a \in AccountSet /\ Moves(w)
        BY <2>0, <2>1, StoringWritesTheRow
      <3>2. users' = [users EXCEPT ![r.email] = r.row]
        BY <3>1 DEF Stored
      <3>3. CASE e # r.email
        BY <2>0, <3>2, <3>3
      <3>4. CASE e = r.email /\ a # NoAccount
        <4>1. /\ r.kind \in {"verify", "reset", "role"}
              /\ r.kind = "verify" => r.row = [a EXCEPT !.verified = TRUE]
              /\ r.kind = "reset" => r.row = [a EXCEPT !.hash = r.row.hash]
              /\ r.kind = "role" => r.row = [a EXCEPT !.role = r.role]
          BY <3>1, <3>4 DEF Undisturbed, Shape
        <4>2. a.verified => r.row.verified
          BY <3>1, <3>4, <4>1, RealAccounts
        <4>3. r.row.role # a.role => r.kind = "role"
          BY <3>1, <3>4, <4>1, RealAccounts
        <4>4. r.kind = "role" => requests'[w] = Idle
          BY <2>0, <3>1 DEF Stored, AfterAdd, Answers, Becomes, BaseInv, TypeOK
        <4> QED
          BY <2>0, <3>2, <3>4, <4>2, <4>3, <4>4
      <3>5. CASE e = r.email /\ a = NoAccount
        BY <3>5 DEF SameAccount
      <3> QED
        BY <3>3, <3>4, <3>5
    <2>2. CASE RemoveAccount(w)
      <3>1. users' = [users EXCEPT ![requests[w].email] = NoAccount]
        BY <2>2 DEF RemoveAccount
      <3>2. CASE e # requests[w].email
        BY <2>0, <3>1, <3>2
      <3>3. CASE e = requests[w].email
        <4>1. users'[e].tenant = 0
          BY <2>0, <3>1, <3>3 DEF NoAccount
        <4>2. users[e] # NoAccount => users[e].tenant # 0
          <5>1. users[e] \in AccountSet
            BY <2>0
          <5> QED
            BY <5>1, RealAccounts DEF Uuids
        <4> QED
          BY <4>1, <4>2 DEF SameAccount
      <3> QED
        BY <3>2, <3>3
    <2>3. CASE UNCHANGED <<users, founded>>
      BY <2>3
    <2> QED
      BY <1>1, <2>0, <2>1, <2>2, <2>3, UsersAreWrittenByThree
  <1>2. AccountsInv /\ [Next]_vars => [\A e \in Subjects : Kept(e)]_vars
    BY <1>1 DEF Next
  <1> QED
    BY <1>2, AccountsKeepTheirInvariant, PTL DEF Spec, WritesKeepWhatOthersWrote

(***************************************************************************)
(* In memory no change of role and no removal takes a tenant's last owner. *)
(* Over SQL one can: the run on two overlapping demotions shows it.        *)
(***************************************************************************)
THEOREM LastOwnerInMemoryIsProtected ==
    ASSUME ~ SqlBackend
    PROVE  Spec => LastOwnerIsProtected
  <1>1. AccountsInv /\ [Next]_vars => AccountsInv'
    BY StepsKeepAccountsInv
  <1>2. AccountsInv' => TenantsKeepAnOwner'
    BY DEF AccountsInv, BaseInv, AloneInv
  <1>3. AccountsInv /\ [Next]_vars => founded \subseteq founded'
    <2> SUFFICES ASSUME AccountsInv, [Next]_vars PROVE founded \subseteq founded'
      OBVIOUS
    <2>1. CASE UNCHANGED vars
      BY <2>1 DEF vars, history
    <2>2. ASSUME NEW w \in Workers, Request(w) \/ Step(w) PROVE founded \subseteq founded'
      <3>1. CASE AddInMemory(w) \/ MergeCommits(w)
        BY <3>1 DEF AddInMemory, MergeCommits, Stored
      <3>2. CASE RemoveAccount(w)
        BY <3>2 DEF RemoveAccount, history
      <3>3. CASE UNCHANGED <<users, founded>>
        BY <3>3
      <3> QED
        BY <2>2, <3>1, <3>2, <3>3, UsersAreWrittenByThree DEF AccountsInv
    <2> QED
      BY <2>1, <2>2 DEF Next
  <1>4. AccountsInv /\ [Next]_vars => \A t \in founded : HasOwner(t)'
    BY <1>1, <1>2, <1>3 DEF TenantsKeepAnOwner
  <1> DEFINE Protected ==
        \A w \in Workers, t \in founded :
          /\ requests[w].kind \in {"role", "remove"}
          /\ requests[w].tenant = t
          /\ requests'[w] # requests[w]
          /\ HasOwner(t)
          => HasOwner(t)'
  <1>5. AccountsInv /\ [Next]_vars => [Protected]_vars
    BY <1>4
  <1> QED
    BY <1>5, AccountsKeepTheirInvariant, PTL DEF Spec, LastOwnerIsProtected

-----------------------------------------------------------------------------
(***************************************************************************)
(* The directory of tenants.                                               *)
(***************************************************************************)

(* What a handler carries of the letter it was sent with, and a tenant     *)
(* that is about to be founded is new.                                     *)
Carried(r) ==
    /\ r.kind = "accept" =>
         [jti |-> r.jti, type |-> "invite", sub |-> r.email, tenant |-> r.tenant] \in mail
    /\ r.kind = "reset" =>
         [jti |-> r.jti, type |-> "password_reset", sub |-> r.email, tenant |-> r.tenant] \in mail
    /\ r.kind = "verify" =>
         \E letter \in mail : letter.type = "email_verification" /\ letter.sub = r.email
    /\ r.kind = "accept" /\ r.pc \in {"add", "merge"} =>
         r.row.tenant = r.tenant /\ r.row.role = "member"
    /\ Registering(r) => r.row.tenant = r.row.hash /\ r.row.tenant \notin founded

(* Letters carry numbers from the supply, and lead to tenants that exist.  *)
Letters == \A letter \in mail : letter.jti < nextJti /\ letter.tenant \in founded

(* So do families, and one family is the session of one subject.           *)
Families ==
    /\ \A f \in ledger.revokedFamilies : f < nextFamily
    /\ \A e \in Subjects : \A f \in ledger.familiesBySubject[e] : f < nextFamily
    /\ \A d, e \in Subjects :
         d # e => ledger.familiesBySubject[d] \cap ledger.familiesBySubject[e] = {}

(* Nobody is, or gets in, or acts, in a tenant that was not founded.       *)
Tenants ==
    /\ \A t \in founded : t < nextHash
    /\ \A e \in Subjects : users[e] # NoAccount => users[e].tenant \in founded
    /\ \A s \in sessions : s.tenant \in founded
    /\ \A w \in Workers : requests[w].kind \in {"invite", "role", "remove"} =>
         requests[w].tenant \in founded

DirectoryInv ==
    /\ Letters /\ Families /\ Tenants
    /\ \A w \in Workers : InHandler(w) => Carried(requests[w])

LEMMA InMemoryOneRuns ==
    ASSUME ~ SqlBackend, AccountsInv, NEW w \in Workers, Moves(w), Runs(w)
    PROVE  /\ BaseInv /\ TypeOK /\ AloneInv /\ HashesAreFresh
           /\ ~ overlapped /\ ~ overlapped'
           /\ \A v \in Workers \ {w} : /\ ~ InHandler(v) /\ ~ InHandler(v)'
                                       /\ requests'[v] = requests[v]
  <1>1. BaseInv /\ TypeOK /\ AloneInv /\ HashesAreFresh /\ ~ overlapped
    BY InMemoryRunsAlone DEF AccountsInv, BaseInv
  <1>2. ~ overlapped'
    BY <1>1 DEF Runs
  <1> QED
    BY <1>1, <1>2, NobodyElseIsInAHandler, MovesKeepRequests

-----------------------------------------------------------------------------
(* What the one handler that runs makes of its letter and of sessions.     *)
SpentBy(r) == IF r.pc = "finish" /\ r.kind \in {"accept", "reset"} THEN {r.jti} ELSE {}

EndedBy(r, e) == r.pc = "finish" /\ r.kind \in {"remove", "reset"} /\ r.email = e

StillWorks(l, r, s) == s.family \notin l.revokedFamilies /\ ~ EndedBy(r, s.sub)

LEMMA TheOneWhoRunsDecides ==
    ASSUME ~ SqlBackend, AccountsInv, NEW w \in Workers, Moves(w), Runs(w)
    PROVE  /\ SpentMail = ledger.revokedJtis \cup SpentBy(requests[w])
           /\ SpentMail' = ledger'.revokedJtis \cup SpentBy(requests'[w])
           /\ WorkingSessions = {s \in sessions : StillWorks(ledger, requests[w], s)}
           /\ WorkingSessions' = {s \in sessions' : StillWorks(ledger', requests'[w], s)}
  <1>1. \A v \in Workers \ {w} : requests[v].pc # "finish" /\ requests'[v].pc # "finish"
    BY InMemoryOneRuns DEF InHandler
  <1>2. /\ {requests[x].jti : x \in {v \in Workers : Ending(v, {"accept", "reset"})}}
             = SpentBy(requests[w])
        /\ {requests'[x].jti : x \in {v \in Workers : Ending(v, {"accept", "reset"})'}}
             = SpentBy(requests'[w])
    BY <1>1 DEF Ending, SpentBy
  <1>3. ASSUME NEW e
        PROVE  /\ (\E v \in Workers : Ending(v, {"remove", "reset"}) /\ requests[v].email = e)
                    <=> EndedBy(requests[w], e)
               /\ (\E v \in Workers : Ending(v, {"remove", "reset"})' /\ requests'[v].email = e)
                    <=> EndedBy(requests'[w], e)
    BY <1>1 DEF Ending, EndedBy
  <1>4. WorkingSessions = {s \in sessions : StillWorks(ledger, requests[w], s)}
    BY <1>3 DEF WorkingSessions, StillWorks, Live, IsFamilyRevoked
  <1>5. WorkingSessions' = {s \in sessions' : StillWorks(ledger', requests'[w], s)}
    BY <1>3 DEF WorkingSessions, StillWorks, Live, IsFamilyRevoked
  <1> QED
    BY <1>2, <1>4, <1>5 DEF SpentMail

-----------------------------------------------------------------------------
(***************************************************************************)
(* The invariant.                                                          *)
(***************************************************************************)
LEMMA OpeningTakesAFamily ==
    ASSUME NEW l \in LedgerType(Uuids, Uuids), NEW s \in Subjects, NEW f
    PROVE  RecordSessionStarted(l, s, f).familiesBySubject
             = [l.familiesBySubject EXCEPT ![s] = @ \cup {f}]
  BY DEF LedgerType, RecordSessionStarted, Index, SessionStarted

LEMMA OpeningKeepsFamiliesApart ==
    ASSUME TypeOK, Families, NEW s \in Subjects, NEW a, NEW l \in LedgerType(Uuids, Uuids),
           l.revokedFamilies = ledger.revokedFamilies,
           l.familiesBySubject = ledger.familiesBySubject,
           OpenSession(s, a, l)
    PROVE  Families'
  <1>1. /\ nextFamily \in Uuids /\ nextFamily' = nextFamily + 1
        /\ \A e \in Subjects : \A f \in ledger.familiesBySubject[e] : f \in Uuids
        /\ \A f \in ledger.revokedFamilies : f \in Uuids
    BY DEF TypeOK, OpenSession, LedgerType
  <1>2. /\ ledger'.familiesBySubject
             = [ledger.familiesBySubject EXCEPT
                  ![s] = ledger.familiesBySubject[s] \cup {nextFamily}]
        /\ ledger'.revokedFamilies = ledger.revokedFamilies
    BY <1>1, OpeningTakesAFamily, SessionStartedGrows DEF OpenSession
  <1>3. \A e \in Subjects : ledger'.familiesBySubject[e] =
          IF e = s THEN ledger.familiesBySubject[e] \cup {nextFamily}
          ELSE ledger.familiesBySubject[e]
    BY <1>2 DEF TypeOK, LedgerType
  <1>4. \A f \in ledger'.revokedFamilies : f < nextFamily'
    BY <1>1, <1>2 DEF Families, Uuids
  <1>5. ASSUME NEW e \in Subjects, NEW f \in ledger'.familiesBySubject[e]
        PROVE  f < nextFamily'
    <2>1. f \in ledger.familiesBySubject[e] \/ f = nextFamily
      BY <1>3
    <2>2. f \in Nat /\ (f < nextFamily \/ f = nextFamily) /\ nextFamily \in Nat
      BY <1>1, <2>1 DEF Families, Uuids
    <2> QED
      BY <1>1, <2>2
  <1>6. ASSUME NEW d \in Subjects, NEW e \in Subjects, d # e
        PROVE  ledger'.familiesBySubject[d] \cap ledger'.familiesBySubject[e] = {}
    <2>1. /\ ledger.familiesBySubject[d] \cap ledger.familiesBySubject[e] = {}
          /\ nextFamily \notin ledger.familiesBySubject[d]
          /\ nextFamily \notin ledger.familiesBySubject[e]
      BY <1>1, <1>6 DEF Families, Uuids
    <2> QED
      BY <1>3, <1>6, <2>1
  <1> QED
    BY <1>4, <1>5, <1>6 DEF Families

LEMMA ClosingKeepsFamiliesApart ==
    ASSUME TypeOK, Families, NEW s \in Subjects, UNCHANGED nextFamily,
           ledger'.revokedFamilies = ledger.revokedFamilies \cup ledger.familiesBySubject[s],
           ledger'.familiesBySubject = ledger.familiesBySubject
    PROVE  Families'
  BY DEF Families

LEMMA MintingKeepsLetters ==
    ASSUME TypeOK, Letters, NEW type, NEW s, NEW t \in founded, MintMail(type, s, t),
           founded' = founded
    PROVE  Letters' /\ mail \subseteq mail'
  BY DEF Letters, MintMail, TypeOK, Uuids

LEMMA CarriedOn ==
    ASSUME NEW r, Carried(r), mail \subseteq mail', founded' = founded
    PROVE  Carried(r)'
  BY DEF Carried, Registering

(* Quiet steps mint at most one letter, to a tenant that exists.           *)
LEMMA ArrivalsMintForTenants ==
    ASSUME ~ SqlBackend, AccountsInv, DirectoryInv, NEW w \in Workers, Request(w),
           \A tok \in mail : ~ RevokeMail(w, tok)
    PROVE  /\ Letters' /\ mail \subseteq mail'
           /\ requests'[w].kind \in {"invite", "role", "remove"} => requests'[w].tenant \in founded
           /\ InHandler(w)' => Carried(requests[w])'
  <1> DEFINE r == requests'[w]
  <1>0. /\ TypeOK /\ BaseInv /\ requests[w] = Idle
        /\ UNCHANGED <<users, sessions, ledger, founded>>
        /\ Letters /\ Tenants
    BY ArrivalsAreQuiet DEF AccountsInv, BaseInv, Quiet, history, DirectoryInv
  <1>1. ASSUME UNCHANGED <<mail, nextJti>> PROVE Letters' /\ mail \subseteq mail'
    BY <1>0, <1>1 DEF Letters
  <1>2. ASSUME NEW e \in Subjects, Register(w, e)
        PROVE  /\ Letters' /\ mail \subseteq mail' /\ r.kind = "register"
               /\ Carried(requests[w])'
    <2>1. r = [Idle EXCEPT !.kind = "register", !.pc = "add", !.email = e,
                           !.row = Account(nextHash, "owner", nextHash)]
      BY <1>0, <1>2 DEF Register, Becomes, TypeOK
    <2>2. r.kind = "register" /\ r.row.tenant = nextHash /\ r.row.hash = nextHash
      BY <2>1 DEF Idle, Account
    <2>3. nextHash \notin founded
      BY <1>0 DEF Tenants, TypeOK, Uuids
    <2> QED
      BY <1>0, <1>1, <1>2, <2>2, <2>3 DEF Carried, Registering, Register
  <1>3. ASSUME NEW e \in Subjects, Login(w, e)
        PROVE  /\ Letters' /\ mail \subseteq mail' /\ r.kind = "login"
               /\ Carried(requests[w])'
    <2>1. r = [Idle EXCEPT !.kind = "login", !.pc = "finish", !.email = e, !.row = users[e]]
      BY <1>0, <1>3 DEF Login, Becomes, TypeOK
    <2>2. r.kind = "login"
      BY <2>1 DEF Idle
    <2> QED
      BY <1>0, <1>1, <1>3, <2>2 DEF Carried, Registering, Login, uuids
  <1>4. ASSUME NEW e \in Subjects, RequestPasswordReset(w, e)
        PROVE  Letters' /\ mail \subseteq mail' /\ r = Idle
    BY <1>0, <1>4, MintingKeepsLetters DEF RequestPasswordReset, Tenants
  <1>5. ASSUME NEW tok \in mail, VerifyEmail(w, tok)
        PROVE  /\ Letters' /\ mail \subseteq mail' /\ r.kind = "verify"
               /\ Carried(requests[w])'
    <2>1. r = [Idle EXCEPT !.kind = "verify", !.pc = "add", !.email = tok.sub,
                           !.row = [users[tok.sub] EXCEPT !.verified = TRUE]]
      BY <1>0, <1>5 DEF VerifyEmail, Becomes, TypeOK
    <2>2. r.kind = "verify" /\ r.email = tok.sub /\ tok.type = "email_verification"
          /\ mail' = mail
      BY <1>5, <2>1 DEF Idle, VerifyEmail
    <2> QED
      BY <1>0, <1>1, <1>5, <2>2 DEF Carried, Registering, VerifyEmail, uuids
  <1>6. ASSUME NEW tok \in mail, AcceptInvite(w, tok) \/ ResetPassword(w, tok)
        PROVE  /\ Letters' /\ mail \subseteq mail' /\ r.kind \in {"accept", "reset"}
               /\ Carried(requests[w])'
    <2>1. \E kind \in {"accept", "reset"} :
            /\ r = [Idle EXCEPT !.kind = kind, !.pc = "read", !.email = tok.sub,
                                !.tenant = tok.tenant, !.jti = tok.jti]
            /\ kind = "accept" => tok.type = "invite"
            /\ kind = "reset" => tok.type = "password_reset"
      BY <1>0, <1>6 DEF AcceptInvite, ResetPassword, PresentToken, Becomes, TypeOK
    <2>2. /\ r.kind \in {"accept", "reset"} /\ r.pc = "read"
          /\ r.jti = tok.jti /\ r.email = tok.sub /\ r.tenant = tok.tenant
          /\ r.kind = "accept" => tok.type = "invite"
          /\ r.kind = "reset" => tok.type = "password_reset"
      BY <2>1 DEF Idle
    <2>3. tok = [jti |-> tok.jti, type |-> tok.type, sub |-> tok.sub, tenant |-> tok.tenant]
      BY <1>0 DEF TypeOK
    <2>4. UNCHANGED <<mail, nextJti>>
      BY <1>6 DEF AcceptInvite, ResetPassword, PresentToken, uuids
    <2> QED
      BY <1>0, <1>1, <2>2, <2>3, <2>4 DEF Carried, Registering
  <1>7. ASSUME NEW session \in sessions, NEW e \in Subjects, NEW kind, NEW role,
               Admit(w, session, kind, e, role)
        PROVE  Letters' /\ mail \subseteq mail' /\ r.tenant \in founded /\ r.pc = "admitted"
    <2>1. r = [Idle EXCEPT !.kind = kind, !.pc = "admitted",
                           !.caller = session.sub, !.tenant = session.tenant,
                           !.email = e, !.role = role]
      BY <1>0, <1>7 DEF Admit, Becomes, TypeOK
    <2>2. r.tenant = session.tenant /\ r.pc = "admitted"
      BY <2>1 DEF Idle
    <2> QED
      BY <1>0, <1>1, <1>7, <2>2 DEF Admit, uuids, Tenants
  <1>8. Idle.kind = "none" /\ Idle.pc = "idle"
    BY DEF Idle
  <1>i. InHandler(w)' <=> r.pc \notin {"idle", "admitted"}
    BY DEF InHandler
  <1>9. \/ \E e \in Subjects : Register(w, e)
        \/ \E e \in Subjects : Login(w, e)
        \/ \E e \in Subjects : RequestPasswordReset(w, e)
        \/ \E tok \in mail : VerifyEmail(w, tok)
        \/ \E tok \in mail : AcceptInvite(w, tok) \/ ResetPassword(w, tok)
        \/ \E session \in sessions, e \in Subjects, kind \in {"invite", "remove", "role"},
              role \in Roles \cup {"none"} : Admit(w, session, kind, e, role)
    BY DEF Request
  <1> QED
    BY <1>2, <1>3, <1>4, <1>5, <1>6, <1>7, <1>8, <1>i, <1>9

LEMMA ReadsMintForTenants ==
    ASSUME ~ SqlBackend, AccountsInv, DirectoryInv, NEW w \in Workers, Reads(w)
    PROVE  /\ Letters' /\ mail \subseteq mail'
           /\ requests'[w].kind \in {"invite", "role", "remove"} => requests'[w].tenant \in founded
           /\ InHandler(w)' => Carried(requests[w])'
  <1> DEFINE r == requests[w]
             n == requests'[w]
  <1>0. /\ TypeOK /\ BaseInv /\ r \in RequestSet /\ Shape(r) /\ r.pc \notin {"idle", "finish"}
        /\ UNCHANGED <<users, sessions, ledger, founded>>
        /\ Letters /\ Tenants
        /\ r.pc # "admitted" => Carried(r)
        /\ r.kind \in {"invite", "role", "remove"} => r.tenant \in founded
    BY ReadsAreQuiet, RequestsAreTyped
       DEF AccountsInv, BaseInv, Quiet, history, DirectoryInv, InHandler, Tenants
  <1>1. ASSUME UNCHANGED <<mail, nextJti>> PROVE Letters' /\ mail \subseteq mail'
    BY <1>0, <1>1 DEF Letters
  <1>i. Idle.kind = "none" /\ Idle.pc = "idle" /\ (InHandler(w)' => n.pc # "idle")
    BY DEF Idle, InHandler
  <1>2. CASE OwnerGate(w)
    <2>1. n = Idle \/ n = [r EXCEPT !.pc = "target"]
      BY <1>0, <1>2 DEF OwnerGate, GoesTo, Answers, Becomes, TypeOK
    <2>2. n = Idle \/ (n.pc = "target" /\ n.kind = r.kind /\ n.tenant = r.tenant
                         /\ n.kind \in {"invite", "role", "remove"})
      BY <1>0, <1>2, <2>1 DEF RequestSet, OwnerGate, Shape
    <2> QED
      BY <1>0, <1>1, <1>2, <1>i, <2>2 DEF OwnerGate, uuids, Carried, Registering
  <1>3. CASE Invite(w)
    <2>1. n = Idle /\ r.tenant \in founded
      BY <1>0, <1>3 DEF Invite, At, Answers, Becomes, TypeOK
    <2>2. Letters' /\ mail \subseteq mail'
      BY <1>0, <1>1, <1>3, <2>1, MintingKeepsLetters DEF Invite, NoMail
    <2> QED
      BY <1>i, <2>1, <2>2
  <1>a. ASSUME r.kind \in {"role", "remove"}, UNCHANGED <<mail, nextJti>>,
               \/ n = Idle
               \/ n.kind = r.kind /\ n.tenant = r.tenant
        PROVE  /\ Letters' /\ mail \subseteq mail'
               /\ n.kind \in {"invite", "role", "remove"} => n.tenant \in founded
               /\ InHandler(w)' => Carried(requests[w])'
    BY <1>0, <1>1, <1>i, <1>a DEF Carried, Registering
  <1>4. CASE RoleTarget(w)
    <2> DEFINE pc == IF users[r.email].role = "owner" /\ r.role = "member" THEN "owners" ELSE "add"
               row == [users[r.email] EXCEPT !.role = r.role]
    <2>1. n = Idle \/ n = [r EXCEPT !.pc = pc, !.row = row]
      BY <1>0, <1>4 DEF RoleTarget, Answers, Writes, Becomes, TypeOK
    <2> HIDE DEF pc, row
    <2>2. n = Idle \/ (n.kind = r.kind /\ n.tenant = r.tenant)
      BY <1>0, <2>1 DEF RequestSet
    <2> QED
      BY <1>4, <1>a, <2>2 DEF RoleTarget, At, uuids
  <1>b. CASE RemoveTarget(w)
    <2> DEFINE pc == IF users[r.email].role = "owner" THEN "owners" ELSE "remove"
    <2>1. n = Idle \/ n = [r EXCEPT !.pc = pc]
      BY <1>0, <1>b DEF RemoveTarget, Answers, GoesTo, Becomes, TypeOK
    <2> HIDE DEF pc
    <2>2. n = Idle \/ (n.kind = r.kind /\ n.tenant = r.tenant)
      BY <1>0, <2>1 DEF RequestSet
    <2> QED
      BY <1>b, <1>a, <2>2 DEF RemoveTarget, At, uuids
  <1>c. CASE CountOwners(w)
    <2> DEFINE pc == IF r.kind = "role" THEN "add" ELSE "remove"
    <2>1. n = Idle \/ n = [r EXCEPT !.pc = pc]
      BY <1>0, <1>c DEF CountOwners, Answers, GoesTo, Becomes, TypeOK
    <2> HIDE DEF pc
    <2>2. n = Idle \/ (n.kind = r.kind /\ n.tenant = r.tenant)
      BY <1>0, <2>1 DEF RequestSet
    <2> QED
      BY <1>0, <1>c, <1>a, <2>2 DEF CountOwners, Shape, uuids
  <1>5. CASE InviteeIsNew(w)
    <2>1. /\ r.kind = "accept" /\ r.pc = "read"
          /\ \/ n = Idle
             \/ n = [r EXCEPT !.pc = "add", !.row = Account(r.tenant, "member", nextHash)]
      BY <1>0, <1>5 DEF InviteeIsNew, At, Writes, Answers, Becomes, TypeOK
    <2> DEFINE row == Account(r.tenant, "member", nextHash)
    <2>a. row.tenant = r.tenant /\ row.role = "member"
      BY DEF Account
    <2> HIDE DEF row
    <2>b. n = Idle \/ n = [r EXCEPT !.pc = "add", !.row = row]
      BY <2>1 DEF row
    <2>2. \/ n = Idle
          \/ /\ n.kind = "accept" /\ n.email = r.email /\ n.jti = r.jti /\ n.tenant = r.tenant
             /\ n.row.tenant = r.tenant /\ n.row.role = "member"
      BY <1>0, <2>1, <2>a, <2>b DEF RequestSet
    <2>3. [jti |-> r.jti, type |-> "invite", sub |-> r.email, tenant |-> r.tenant] \in mail
      BY <1>0, <2>1 DEF Carried
    <2> QED
      BY <1>0, <1>1, <1>5, <1>i, <2>2, <2>3 DEF InviteeIsNew, Carried, Registering
  <1>6. CASE AccountStillExists(w)
    <2>1. /\ r.kind = "reset" /\ r.pc = "read"
          /\ \/ n = Idle
             \/ \E row : n = [r EXCEPT !.pc = "add", !.row = row]
      BY <1>0, <1>6 DEF AccountStillExists, At, Writes, Answers, Becomes, TypeOK
    <2>2. \/ n = Idle
          \/ n.kind = "reset" /\ n.email = r.email /\ n.jti = r.jti /\ n.tenant = r.tenant
      BY <1>0, <2>1 DEF RequestSet
    <2>3. [jti |-> r.jti, type |-> "password_reset", sub |-> r.email, tenant |-> r.tenant] \in mail
      BY <1>0, <2>1 DEF Carried
    <2> QED
      BY <1>0, <1>1, <1>6, <1>i, <2>2, <2>3 DEF AccountStillExists, Carried, Registering
  <1> QED
    BY <1>2, <1>3, <1>4, <1>5, <1>6, <1>b, <1>c DEF Reads, MergeLoads

(* What is left of the invariant where only one handler moved.             *)
LEMMA TheInvariantAfterAStep ==
    ASSUME ~ SqlBackend, AccountsInv, DirectoryInv, NEW w \in Workers, Moves(w), Runs(w),
           Letters', Families',
           founded \subseteq founded', \A t \in founded' : t < nextHash',
           \A e \in Subjects : users'[e] # NoAccount => users'[e].tenant \in founded',
           \A s \in sessions' : s.tenant \in founded',
           requests'[w].kind \in {"invite", "role", "remove"} => requests'[w].tenant \in founded',
           InHandler(w)' => Carried(requests[w])'
    PROVE  DirectoryInv'
  <1>1. \A v \in Workers \ {w} : ~ InHandler(v)' /\ requests'[v] = requests[v]
    BY InMemoryOneRuns
  <1>2. Tenants'
    BY <1>1 DEF Tenants, DirectoryInv
  <1> QED
    BY <1>1, <1>2 DEF DirectoryInv

LEMMA QuietKeepsTheDirectory ==
    ASSUME ~ SqlBackend, AccountsInv, DirectoryInv, NEW w \in Workers,
           Reads(w) \/ (Request(w) /\ \A tok \in mail : ~ RevokeMail(w, tok))
    PROVE  DirectoryInv'
  <1>1. Quiet(w) /\ Moves(w) /\ Runs(w) /\ BaseInv /\ TypeOK
    BY ReadsAreQuiet, ArrivalsAreQuiet DEF AccountsInv, Quiet, BaseInv
  <1>2. UNCHANGED <<users, sessions, ledger, nextFamily, founded>>
    BY <1>1 DEF Quiet, history
  <1>3. nextHash' \in {nextHash, nextHash + 1}
    BY StepsCarry DEF AccountsInv, Reads, Step, Carries
  <1>4. \A t \in founded' : t < nextHash'
    BY <1>1, <1>2, <1>3 DEF DirectoryInv, Tenants, TypeOK, Uuids
  <1>5. Families'
    BY <1>2 DEF DirectoryInv, Families
  <1>6. /\ Letters'
        /\ requests'[w].kind \in {"invite", "role", "remove"} => requests'[w].tenant \in founded
        /\ InHandler(w)' => Carried(requests[w])'
    BY ReadsMintForTenants, ArrivalsMintForTenants
  <1>7. /\ \A e \in Subjects : users'[e] # NoAccount => users'[e].tenant \in founded'
        /\ \A s \in sessions' : s.tenant \in founded'
    BY <1>2 DEF DirectoryInv, Tenants
  <1> QED
    BY <1>1, <1>2, <1>4, <1>5, <1>6, <1>7, TheInvariantAfterAStep

LEMMA StoringKeepsTheDirectory ==
    ASSUME ~ SqlBackend, AccountsInv, DirectoryInv, NEW w \in Workers,
           AddInMemory(w) \/ MergeCommits(w)
    PROVE  DirectoryInv'
  <1> DEFINE r == requests[w]
             n == requests'[w]
             a == users[r.email]
  <1>1. /\ BaseInv /\ TypeOK /\ AloneInv /\ HashesAreFresh
        /\ Letters /\ Families /\ Tenants
    BY InMemoryRunsAlone DEF AccountsInv, BaseInv, DirectoryInv
  <1>2. /\ Stored(w, r.row) /\ Undisturbed(r) /\ Shape(r) /\ r \in RequestSet
        /\ r.pc \in {"add", "merge"} /\ r.email \in Subjects /\ a \in AccountSet
        /\ r.row \in AccountSet /\ r.row # NoAccount
        /\ Moves(w) /\ Runs(w)
        /\ UNCHANGED <<sessions, mail, ledger, uuids>>
    BY <1>1, StoringWritesTheRow, RequestsAreTyped DEF AddInMemory, MergeCommits
  <1>3. Carried(r)
    BY <1>2 DEF DirectoryInv, InHandler
  <1>4. /\ users' = [users EXCEPT ![r.email] = r.row]
        /\ founded' = IF r.kind = "register" THEN founded \cup {r.row.tenant} ELSE founded
    BY <1>2 DEF Stored
  <1>5. r.row.tenant \in founded'
    <2>1. CASE r.kind = "register"
      BY <1>4, <2>1
    <2>2. CASE r.kind = "accept"
      BY <1>1, <1>2, <1>3, <1>4, <2>2 DEF Carried, Letters
    <2>3. CASE r.kind \in {"verify", "reset", "role"}
      <3>1. Real(a) /\ r.row.tenant = a.tenant
        BY <1>2, <2>3, RealAccounts DEF Undisturbed, Real
      <3> QED
        BY <1>1, <1>2, <1>4, <2>3, <3>1 DEF Tenants, Real
    <2> QED
      BY <1>2, <2>1, <2>2, <2>3 DEF Shape
  <1>6. \A e \in Subjects : users'[e] # NoAccount => users'[e].tenant \in founded'
    BY <1>1, <1>2, <1>4, <1>5 DEF Tenants, TypeOK
  <1>7. founded \subseteq founded' /\ \A t \in founded' : t < nextHash'
    BY <1>1, <1>2, <1>3, <1>4 DEF Tenants, HashesAreFresh, Carried, Registering, uuids
  <1>8. Letters' /\ Families'
    BY <1>1, <1>2, <1>7 DEF Letters, Families, uuids
  <1>9. /\ n.kind \in {"invite", "role", "remove"} => n.tenant \in founded'
        /\ InHandler(w)' => Carried(requests[w])'
    <2>1. \/ n = Idle
          \/ n = [r EXCEPT !.pc = "finish", !.seen = NoAccount] /\ r.kind \notin {"role", "verify"}
      BY <1>1, <1>2 DEF Stored, AfterAdd, Answers, Becomes, TypeOK
    <2>2. CASE n = Idle
      BY <2>2 DEF Idle, InHandler
    <2>3. CASE /\ n = [r EXCEPT !.pc = "finish", !.seen = NoAccount]
               /\ r.kind \notin {"role", "verify"}
      <3>1. /\ n.pc = "finish" /\ n.kind = r.kind /\ n.email = r.email /\ n.jti = r.jti
            /\ n.tenant = r.tenant /\ r.kind \in {"register", "accept", "reset"}
        BY <1>2, <2>3 DEF RequestSet, Shape
      <3> QED
        BY <1>2, <1>3, <3>1 DEF Carried, Registering
    <2> QED
      BY <2>1, <2>2, <2>3
  <1>10. \A s \in sessions' : s.tenant \in founded'
    BY <1>1, <1>2, <1>7 DEF Tenants
  <1> QED
    BY <1>2, <1>6, <1>7, <1>8, <1>9, <1>10, TheInvariantAfterAStep

LEMMA RemovingKeepsTheDirectory ==
    ASSUME ~ SqlBackend, AccountsInv, DirectoryInv, NEW w \in Workers, RemoveAccount(w)
    PROVE  DirectoryInv'
  <1> DEFINE r == requests[w]
             n == requests'[w]
  <1>1. /\ BaseInv /\ TypeOK /\ Moves(w) /\ Runs(w) /\ r \in RequestSet
        /\ Letters /\ Families /\ Tenants
        /\ r.kind = "remove" /\ r.pc = "remove" /\ r.email \in Subjects
        /\ users' = [users EXCEPT ![r.email] = NoAccount]
        /\ UNCHANGED <<sessions, mail, ledger, nextHash, nextJti, nextFamily, founded>>
    BY ContinuationsMove, RequestsAreTyped
       DEF AccountsInv, BaseInv, DirectoryInv, Step, RemoveAccount, At, Shape, uuids, history
  <1>2. n.kind = "remove" /\ n.tenant = r.tenant
    <2>1. n = [r EXCEPT !.pc = "finish"]
      BY <1>1 DEF RemoveAccount, GoesTo, Becomes, TypeOK
    <2> QED
      BY <1>1, <2>1 DEF RequestSet
  <1>3. \A e \in Subjects : users'[e] # NoAccount => users'[e].tenant \in founded'
    BY <1>1 DEF Tenants, TypeOK
  <1>4. Letters' /\ Families'
    BY <1>1 DEF Letters, Families
  <1>5. Carried(requests[w])'
    BY <1>2 DEF Carried, Registering
  <1>6. /\ founded \subseteq founded' /\ \A t \in founded' : t < nextHash'
        /\ \A s \in sessions' : s.tenant \in founded'
        /\ n.tenant \in founded'
    BY <1>1, <1>2 DEF Tenants
  <1> QED
    BY <1>1, <1>3, <1>4, <1>5, <1>6, TheInvariantAfterAStep

(* While the log can be written, the last step of a handler writes all it  *)
(* has to write.                                                           *)
LEMMA NothingRaises ==
    ASSUME MaxLogFailures = 0, AccountsInv, NEW w \in Workers
    PROVE  ~ LogRaises(w)
  BY WithoutFailures DEF LogRaises

LEMMA RevokingLeavesFamilies ==
    ASSUME BaseInv, NEW w \in Workers, requests[w].pc = "finish",
           requests[w].kind \in {"accept", "reset"}
    PROVE  /\ ledger \in LedgerType(Uuids, Uuids)
           /\ Revoke(ledger, requests[w].jti) \in LedgerType(Uuids, Uuids)
           /\ Revoke(ledger, requests[w].jti).revokedJtis
                = ledger.revokedJtis \cup {requests[w].jti}
           /\ Revoke(ledger, requests[w].jti).revokedFamilies = ledger.revokedFamilies
           /\ Revoke(ledger, requests[w].jti).familiesBySubject = ledger.familiesBySubject
  <1>1. requests[w].jti \in Uuids /\ ledger \in LedgerType(Uuids, Uuids)
    BY RequestsAreTyped DEF Shape, BaseInv, TypeOK
  <1> QED
    BY <1>1, RevokeGrows DEF Grows

(* A session is opened for the account its handler carries...              *)
Opens(w) ==
    \E l : /\ l \in LedgerType(Uuids, Uuids)
           /\ l.revokedFamilies = ledger.revokedFamilies
           /\ l.familiesBySubject = ledger.familiesBySubject
           /\ l.revokedJtis = ledger.revokedJtis \cup SpentBy(requests[w])
           /\ OpenSession(requests[w].email, requests[w].row, l)

(* ... or every session of its subject is ended.                           *)
Closes(w) ==
    /\ UNCHANGED <<sessions, nextFamily>>
    /\ ledger'.revokedJtis = ledger.revokedJtis \cup SpentBy(requests[w])
    /\ ledger'.revokedFamilies
         = ledger.revokedFamilies \cup ledger.familiesBySubject[requests[w].email]
    /\ ledger'.familiesBySubject = ledger.familiesBySubject

LEMMA FinishingOpensOrCloses ==
    ASSUME ~ SqlBackend, MaxLogFailures = 0, AccountsInv, NEW w \in Workers, Finishes(w)
    PROVE  /\ requests[w].kind \in {"register", "login", "accept"} => Opens(w)
           /\ requests[w].kind \in {"remove", "reset"} => Closes(w)
           /\ requests[w].kind = "register" =>
                MintMail("email_verification", requests[w].email, requests[w].row.tenant)
           /\ requests[w].kind # "register" => UNCHANGED <<mail, nextJti>>
           /\ UNCHANGED <<users, founded, nextHash>>
  <1> DEFINE r == requests[w]
  <1>1. /\ BaseInv /\ ledger \in LedgerType(Uuids, Uuids)
        /\ r.pc = "finish" /\ r.email \in Subjects
        /\ ~ LogRaises(w)
    BY FinishingRequests, NothingRaises DEF AccountsInv
  <1>2. SpentBy(r) = IF r.kind \in {"accept", "reset"} THEN {r.jti} ELSE {}
    BY <1>1 DEF SpentBy
  <1>3. CASE FinishRegister(w)
    BY <1>1, <1>2, <1>3 DEF FinishRegister, At, Opens, history
  <1>4. CASE FinishLogin(w)
    BY <1>1, <1>2, <1>4 DEF FinishLogin, At, Opens, history
  <1>5. CASE FinishAccept(w)
    <2>1. r.kind = "accept" /\ OpenSession(r.email, r.row, Revoke(ledger, r.jti))
      BY <1>5 DEF FinishAccept, At
    <2>2. Opens(w)
      BY <1>1, <1>2, <2>1, RevokingLeavesFamilies DEF Opens
    <2> QED
      BY <1>5, <2>1, <2>2 DEF FinishAccept
  <1>6. CASE FinishReset(w)
    <2>1. /\ r.kind = "reset"
          /\ ledger' = RevokeAllSessionsForSubject(Revoke(ledger, r.jti), r.email)
      BY <1>6 DEF FinishReset, At
    <2>2. Closes(w)
      BY <1>1, <1>2, <1>6, <2>1, RevokingLeavesFamilies, CascadeGrows
         DEF FinishReset, Closes, uuids
    <2> QED
      BY <1>6, <2>1, <2>2 DEF FinishReset, uuids
  <1>7. CASE FinishRemove(w)
    <2>1. r.kind = "remove" /\ ledger' = RevokeAllSessionsForSubject(ledger, r.email)
      BY <1>7 DEF FinishRemove, At
    <2>2. Closes(w)
      BY <1>1, <1>2, <1>7, <2>1, CascadeGrows DEF FinishRemove, Closes, uuids, history
    <2> QED
      BY <1>7, <2>1, <2>2 DEF FinishRemove, uuids, history
  <1> QED
    BY <1>1, <1>3, <1>4, <1>5, <1>6, <1>7 DEF Finishes

LEMMA FinishingKeepsTheDirectory ==
    ASSUME ~ SqlBackend, MaxLogFailures = 0, AccountsInv, DirectoryInv, NEW w \in Workers,
           Finishes(w)
    PROVE  DirectoryInv'
  <1> DEFINE r == requests[w]
             a == users[r.email]
  <1>1. /\ BaseInv /\ TypeOK /\ AloneInv /\ Moves(w) /\ Runs(w) /\ requests'[w] = Idle
        /\ Letters /\ Families /\ Tenants
        /\ r.pc = "finish" /\ r.email \in Subjects
        /\ r.kind \in {"register", "login", "accept", "reset", "remove"}
        /\ UNCHANGED <<users, founded, nextHash>>
    BY FinishingRequests, FinishingOpensOrCloses, InMemoryRunsAlone
       DEF AccountsInv, DirectoryInv, BaseInv
  <1>2. r.kind # "remove" => a = r.row /\ r.row # NoAccount /\ r.row.tenant \in founded
    <2>1. r.kind # "remove" => a = r.row
      BY <1>1 DEF AloneInv, InHandler, Undisturbed
    <2>2. r.kind # "remove" => r.row # NoAccount
      BY FinishingRequests, <1>1
    <2> QED
      BY <1>1, <2>1, <2>2 DEF Tenants
  <1>3. Letters'
    <2>1. CASE r.kind = "register"
      BY <1>1, <1>2, <2>1, FinishingOpensOrCloses, MintingKeepsLetters
    <2>2. CASE r.kind # "register"
      BY <1>1, <2>2, FinishingOpensOrCloses DEF Letters
    <2> QED
      BY <2>1, <2>2
  <1>4. Families' /\ \A s \in sessions' : s.tenant \in founded'
    <2>1. CASE r.kind \in {"register", "login", "accept"}
      <3>1. Opens(w)
        BY <2>1, FinishingOpensOrCloses
      <3>2. Families'
        BY <1>1, <3>1, OpeningKeepsFamiliesApart DEF Opens
      <3> QED
        BY <1>1, <1>2, <2>1, <3>1, <3>2 DEF Opens, OpenSession, Tenants
    <2>2. CASE r.kind \in {"remove", "reset"}
      <3>1. Closes(w)
        BY <2>2, FinishingOpensOrCloses
      <3> QED
        BY <1>1, <3>1, ClosingKeepsFamiliesApart DEF Closes, Tenants
    <2> QED
      BY <1>1, <2>1, <2>2
  <1>5. /\ founded \subseteq founded' /\ \A t \in founded' : t < nextHash'
        /\ \A e \in Subjects : users'[e] # NoAccount => users'[e].tenant \in founded'
    BY <1>1 DEF Tenants
  <1>6. ~ InHandler(w)' /\ requests'[w].kind = "none"
    BY <1>1 DEF InHandler, Idle
  <1> QED
    BY <1>1, <1>3, <1>4, <1>5, <1>6, TheInvariantAfterAStep

LEMMA RevokingKeepsTheDirectory ==
    ASSUME ~ SqlBackend, AccountsInv, DirectoryInv, NEW w \in Workers, NEW tok \in mail,
           RevokeMail(w, tok)
    PROVE  /\ DirectoryInv' /\ Moves(w) /\ Runs(w)
           /\ ledger'.revokedJtis = ledger.revokedJtis \cup {tok.jti}
           /\ ledger'.revokedFamilies = ledger.revokedFamilies
  <1>1. /\ BaseInv /\ TypeOK /\ Moves(w) /\ Runs(w) /\ requests[w] = Idle
        /\ tok.jti \in Uuids /\ ledger \in LedgerType(Uuids, Uuids)
        /\ Letters /\ Families /\ Tenants
    BY RevokingMail DEF AccountsInv, BaseInv, TypeOK, DirectoryInv
  <1>2. /\ ledger'.revokedJtis = ledger.revokedJtis \cup {tok.jti}
        /\ ledger'.revokedFamilies = ledger.revokedFamilies
        /\ ledger'.familiesBySubject = ledger.familiesBySubject
    BY <1>1, RevokeGrows DEF RevokeMail
  <1>3. UNCHANGED <<users, sessions, mail, requests, nextHash, nextJti, nextFamily, founded>>
    BY DEF RevokeMail, uuids, history
  <1>4. Letters' /\ Families'
    BY <1>1, <1>2, <1>3 DEF Letters, Families
  <1>5. ~ InHandler(w)' /\ requests'[w].kind = "none"
    BY <1>1, <1>3 DEF InHandler, Idle
  <1>6. /\ founded \subseteq founded' /\ \A t \in founded' : t < nextHash'
        /\ \A e \in Subjects : users'[e] # NoAccount => users'[e].tenant \in founded'
        /\ \A s \in sessions' : s.tenant \in founded'
    BY <1>1, <1>3 DEF Tenants
  <1> QED
    BY <1>1, <1>2, <1>4, <1>5, <1>6, TheInvariantAfterAStep

LEMMA StepsKeepTheDirectory ==
    ASSUME ~ SqlBackend, MaxLogFailures = 0, AccountsInv, DirectoryInv, [Next]_vars
    PROVE  DirectoryInv'
  <1>1. CASE UNCHANGED vars
    BY <1>1 DEF DirectoryInv, Letters, Families, Tenants, Carried, Registering, InHandler,
                vars, uuids, history
  <1>2. ASSUME NEW w \in Workers, Request(w) \/ Step(w)
        PROVE  DirectoryInv'
    <2>1. CASE \E tok \in mail : RevokeMail(w, tok)
      BY <2>1, RevokingKeepsTheDirectory
    <2>2. CASE Reads(w) \/ (Request(w) /\ \A tok \in mail : ~ RevokeMail(w, tok))
      BY <2>2, QuietKeepsTheDirectory
    <2>3. CASE AddInMemory(w) \/ MergeCommits(w)
      BY <2>3, StoringKeepsTheDirectory
    <2>4. CASE RemoveAccount(w)
      BY <2>4, RemovingKeepsTheDirectory
    <2>5. CASE Finishes(w)
      BY <2>5, FinishingKeepsTheDirectory
    <2> QED
      BY <1>2, <2>1, <2>2, <2>3, <2>4, <2>5 DEF Step, Reads, Finishes
  <1> QED
    BY <1>1, <1>2 DEF Next

-----------------------------------------------------------------------------
(***************************************************************************)
(* Each step is a step of the directory, or none.                          *)
(***************************************************************************)
LEMMA InitMapsToTheDirectory ==
    Init => DirectoryInv /\ Directory!Init
  <1> SUFFICES ASSUME Init PROVE DirectoryInv /\ Directory!Init
    OBVIOUS
  <1>1. /\ \A w \in Workers : requests[w].pc = "idle" /\ requests[w].kind = "none"
        /\ ledger.revokedJtis = {} /\ ledger.revokedFamilies = {}
        /\ \A e \in Subjects : ledger.familiesBySubject[e] = {} /\ users[e] = NoAccount
        /\ sessions = {} /\ mail = {} /\ founded = {}
    BY DEF Init, Idle, EmptyLedger
  <1>2. DirectoryInv
    BY <1>1 DEF DirectoryInv, Letters, Families, Tenants, InHandler
  <1>3. SpentMail = {} /\ WorkingSessions = {}
    BY <1>1 DEF SpentMail, WorkingSessions, Ending
  <1> QED
    BY <1>1, <1>2, <1>3 DEF Directory!Init, Init

(* Quiet steps leave letters that were spent, and sessions, as they are.   *)
LEMMA QuietLeavesSessions ==
    ASSUME ~ SqlBackend, AccountsInv, NEW w \in Workers, Moves(w), Runs(w),
           UNCHANGED <<sessions, ledger>>, requests[w].pc # "finish",
           requests'[w].pc = "finish" => requests'[w].kind \notin {"accept", "reset", "remove"}
    PROVE  UNCHANGED <<SpentMail, WorkingSessions>>
  <1>1. SpentBy(requests[w]) = {} /\ SpentBy(requests'[w]) = {}
    BY DEF SpentBy
  <1>2. \A s : StillWorks(ledger, requests[w], s) <=> StillWorks(ledger', requests'[w], s)
    BY DEF StillWorks, EndedBy
  <1> QED
    BY <1>1, <1>2, TheOneWhoRunsDecides

(* Nobody is at the end of a handler right after a first step, but a login.*)
LEMMA QuietSteps ==
    ASSUME ~ SqlBackend, AccountsInv, NEW w \in Workers,
           Reads(w) \/ (Request(w) /\ \A tok \in mail : ~ RevokeMail(w, tok))
    PROVE  UNCHANGED <<users, founded, SpentMail, WorkingSessions>>
  <1> DEFINE r == requests[w]
             n == requests'[w]
  <1>1. /\ BaseInv /\ TypeOK /\ Quiet(w) /\ r.pc # "finish" /\ r \in RequestSet
        /\ UNCHANGED <<users, sessions, ledger, founded>>
    BY ReadsAreQuiet, ArrivalsAreQuiet, RequestsAreTyped
       DEF AccountsInv, BaseInv, Quiet, history, Idle
  <1>2. CASE Reads(w)
    <2>1. Idle.pc # "finish"
      BY DEF Idle
    <2>2. ASSUME NEW pc, pc # "finish", GoesTo(w, pc) PROVE n.pc # "finish"
      BY <1>1, <2>2 DEF GoesTo, Becomes, TypeOK, RequestSet
    <2>3. ASSUME NEW pc, pc # "finish", NEW row, Writes(w, pc, row) PROVE n.pc # "finish"
      BY <1>1, <2>3 DEF Writes, Becomes, TypeOK, RequestSet
    <2>4. ASSUME Answers(w) PROVE n.pc # "finish"
      BY <1>1, <2>1, <2>4 DEF Answers, Becomes, TypeOK
    <2>5. ASSUME OwnerGate(w) PROVE n.pc # "finish"
      BY <2>2, <2>4, <2>5 DEF OwnerGate
    <2>6. ASSUME Invite(w) PROVE n.pc # "finish"
      BY <2>4, <2>6 DEF Invite
    <2>7. ASSUME RoleTarget(w) PROVE n.pc # "finish"
      BY <2>3, <2>4, <2>7 DEF RoleTarget
    <2>8. ASSUME RemoveTarget(w) PROVE n.pc # "finish"
      BY <2>2, <2>4, <2>8 DEF RemoveTarget
    <2>9. ASSUME CountOwners(w) PROVE n.pc # "finish"
      BY <2>2, <2>4, <2>9 DEF CountOwners
    <2>10. ASSUME InviteeIsNew(w) PROVE n.pc # "finish"
      BY <2>3, <2>4, <2>10 DEF InviteeIsNew
    <2>11. ASSUME AccountStillExists(w) PROVE n.pc # "finish"
      BY <2>3, <2>4, <2>11 DEF AccountStillExists
    <2>12. n.pc # "finish"
      BY <1>2, <2>5, <2>6, <2>7, <2>8, <2>9, <2>10, <2>11 DEF Reads, MergeLoads
    <2> QED
      BY <1>1, <2>12, QuietLeavesSessions DEF Quiet
  <1>3. CASE Request(w) /\ \A tok \in mail : ~ RevokeMail(w, tok)
    <2>1. ASSUME NEW e \in Subjects, Register(w, e) PROVE n.pc # "finish"
      BY <1>1, <2>1 DEF Register, Becomes, TypeOK, Idle
    <2>2. ASSUME NEW e \in Subjects, Login(w, e) PROVE n.kind = "login"
      BY <1>1, <2>2 DEF Login, Becomes, TypeOK, Idle
    <2>3. ASSUME NEW e \in Subjects, RequestPasswordReset(w, e) PROVE n.pc # "finish"
      BY <1>1, <2>3 DEF RequestPasswordReset
    <2>4. ASSUME NEW tok \in mail, VerifyEmail(w, tok) PROVE n.pc # "finish"
      BY <1>1, <2>4 DEF VerifyEmail, Becomes, TypeOK, Idle
    <2>5. ASSUME NEW tok \in mail, AcceptInvite(w, tok) \/ ResetPassword(w, tok)
          PROVE  n.pc # "finish"
      BY <1>1, <2>5 DEF AcceptInvite, ResetPassword, PresentToken, Becomes, TypeOK, Idle
    <2>6. ASSUME NEW session, NEW e, NEW kind, NEW role, Admit(w, session, kind, e, role)
          PROVE  n.pc # "finish"
      BY <1>1, <2>6 DEF Admit, Becomes, TypeOK, Idle
    <2>7. n.pc = "finish" => n.kind = "login"
      BY <1>3, <2>1, <2>2, <2>3, <2>4, <2>5, <2>6 DEF Request
    <2> QED
      BY <1>1, <2>7, QuietLeavesSessions DEF Quiet
  <1> QED
    BY <1>2, <1>3

DirectoryStep == [Directory!Next]_(Directory!dvars)

LEMMA SendingALetter ==
    ASSUME NEW letter, Directory!Send(letter), letter \in mail'
    PROVE  DirectoryStep
  BY DEF DirectoryStep, Directory!Next

(* A letter is sent, or nothing happened yet.                              *)
LEMMA QuietStepsMap ==
    ASSUME ~ SqlBackend, AccountsInv, DirectoryInv, NEW w \in Workers,
           Reads(w) \/ (Request(w) /\ \A tok \in mail : ~ RevokeMail(w, tok))
    PROVE  DirectoryStep
  <1>1. /\ BaseInv /\ TypeOK /\ Letters /\ Tenants
        /\ UNCHANGED <<users, founded, SpentMail, WorkingSessions>>
    BY QuietSteps DEF AccountsInv, BaseInv, DirectoryInv
  <1>2. ASSUME NEW type, NEW e \in Subjects, NEW t, MintMail(type, e, t),
               IF type = "invite" THEN users[e] = NoAccount /\ t \in founded
                                  ELSE users[e] # NoAccount /\ t = users[e].tenant
        PROVE  DirectoryStep
    <2> DEFINE letter == [jti |-> nextJti, type |-> type, sub |-> e, tenant |-> t]
    <2>1. mail' = mail \cup {letter}
      BY <1>2 DEF MintMail
    <2>2. letter.jti = nextJti /\ letter.type = type /\ letter.sub = e /\ letter.tenant = t
      OBVIOUS
    <2>3. \A other \in mail : other.jti # nextJti
      BY <1>1 DEF Letters, TypeOK, Uuids
    <2> HIDE DEF letter
    <2>4. Directory!Send(letter)
      BY <1>1, <1>2, <2>1, <2>2, <2>3 DEF Directory!Send, Directory!Posted, Directory!Has
    <2> QED
      BY <2>1, <2>4, SendingALetter
  <1>3. ASSUME UNCHANGED mail PROVE DirectoryStep
    BY <1>1, <1>3 DEF DirectoryStep, Directory!dvars
  <1>4. CASE Reads(w)
    <2>1. CASE Invite(w)
      <3>1. /\ requests[w].email \in Subjects /\ requests[w].tenant \in founded
        BY <1>1, <2>1, RequestsAreTyped DEF Invite, At, Shape, Tenants
      <3> QED
        BY <1>2, <1>3, <2>1, <3>1 DEF Invite, NoMail
    <2>2. CASE ~ Invite(w)
      BY <1>3, <1>4, <2>2 DEF Reads, OwnerGate, RoleTarget, RemoveTarget, CountOwners,
                              InviteeIsNew, AccountStillExists, MergeLoads
    <2> QED
      BY <2>1, <2>2
  <1>5. CASE Request(w) /\ \A tok \in mail : ~ RevokeMail(w, tok)
    <2>1. ASSUME NEW e \in Subjects, RequestPasswordReset(w, e) PROVE DirectoryStep
      BY <1>2, <2>1 DEF RequestPasswordReset
    <2>2. CASE \A e \in Subjects : ~ RequestPasswordReset(w, e)
      BY <1>3, <1>5, <2>2 DEF Request, Register, Login, VerifyEmail, AcceptInvite, ResetPassword,
                              PresentToken, Admit
    <2> QED
      BY <2>1, <2>2
  <1> QED
    BY <1>4, <1>5

(* The end of a handler that wrote an account: what its letter and its     *)
(* subject's sessions are good for has changed with the account.           *)
LEMMA StoredSessions ==
    ASSUME ~ SqlBackend, AccountsInv, NEW w \in Workers, Moves(w), Runs(w),
           UNCHANGED <<sessions, ledger>>, requests[w].pc # "finish",
           \/ requests'[w].pc # "finish"
           \/ requests'[w].kind = requests[w].kind /\ requests'[w].email = requests[w].email
                /\ requests'[w].jti = requests[w].jti
    PROVE  /\ SpentMail = ledger.revokedJtis
           /\ SpentMail' = ledger.revokedJtis \cup SpentBy(requests'[w])
           /\ WorkingSessions' =
                {s \in WorkingSessions : ~ EndedBy(requests'[w], s.sub)}
  <1>1. SpentBy(requests[w]) = {} /\ \A e : ~ EndedBy(requests[w], e)
    BY DEF SpentBy, EndedBy
  <1>2. WorkingSessions = {s \in sessions : s.family \notin ledger.revokedFamilies}
    BY <1>1, TheOneWhoRunsDecides DEF StillWorks
  <1>3. WorkingSessions' = {s \in sessions : /\ s.family \notin ledger.revokedFamilies
                                             /\ ~ EndedBy(requests'[w], s.sub)}
    BY TheOneWhoRunsDecides DEF StillWorks
  <1> QED
    BY <1>1, <1>2, <1>3, TheOneWhoRunsDecides

LEMMA SomebodysStep ==
    ASSUME NEW p \in Subjects,
           \/ Directory!Found(p, users'[p])
           \/ Directory!SetRole(p, users'[p].role)
           \/ Directory!Dismiss(p)
    PROVE  DirectoryStep
  BY DEF DirectoryStep, Directory!Next

LEMMA ALettersStep ==
    ASSUME NEW letter \in mail,
           \/ Directory!Join(letter, users'[letter.sub])
           \/ Directory!SetPassword(letter, users'[letter.sub].hash)
           \/ Directory!Confirm(letter)
           \/ Directory!Revoke(letter)
    PROVE  DirectoryStep
  BY DEF DirectoryStep, Directory!Next

(* A tenant is founded or joined, a password, a role or an address changed.*)
LEMMA StoringMaps ==
    ASSUME ~ SqlBackend, AccountsInv, DirectoryInv, NEW w \in Workers,
           AddInMemory(w) \/ MergeCommits(w)
    PROVE  DirectoryStep
  <1> DEFINE r == requests[w]
             n == requests'[w]
             a == users[r.email]
  <1>1. BaseInv /\ TypeOK /\ AloneInv
    BY InMemoryRunsAlone DEF AccountsInv, BaseInv
  <1>2. /\ Stored(w, r.row) /\ Undisturbed(r) /\ Shape(r) /\ r \in RequestSet
        /\ r.pc \in {"add", "merge"} /\ r.email \in Subjects /\ a \in AccountSet
        /\ r.row \in AccountSet /\ r.row # NoAccount
        /\ Moves(w) /\ Runs(w)
        /\ UNCHANGED <<sessions, mail, ledger>>
    BY <1>1, StoringWritesTheRow, RequestsAreTyped DEF AddInMemory, MergeCommits
  <1>3. Carried(r)
    BY <1>2 DEF DirectoryInv, InHandler
  <1>4. /\ users' = [users EXCEPT ![r.email] = r.row]
        /\ users'[r.email] = r.row
        /\ founded' = IF r.kind = "register" THEN founded \cup {r.row.tenant} ELSE founded
    BY <1>1, <1>2 DEF Stored, TypeOK
  <1>5. \/ n = Idle /\ r.kind \in {"role", "verify"}
        \/ /\ r.kind \in {"register", "accept", "reset"}
           /\ n.pc = "finish" /\ n.kind = r.kind /\ n.email = r.email /\ n.jti = r.jti
    <2>1. \/ n = Idle /\ r.kind \in {"role", "verify"}
          \/ n = [r EXCEPT !.pc = "finish", !.seen = NoAccount] /\ r.kind \notin {"role", "verify"}
      BY <1>1, <1>2 DEF Stored, AfterAdd, Answers, Becomes, TypeOK
    <2> QED
      BY <1>2, <2>1 DEF Shape, RequestSet
  <1>6. /\ SpentMail = ledger.revokedJtis
        /\ SpentMail' = ledger.revokedJtis \cup SpentBy(n)
        /\ WorkingSessions' = {s \in WorkingSessions : ~ EndedBy(n, s.sub)}
    <2>1. \/ n.pc # "finish"
          \/ n.kind = r.kind /\ n.email = r.email /\ n.jti = r.jti
      BY <1>5 DEF Idle
    <2> QED
      BY <1>2, <2>1, StoredSessions
  <1>7. /\ SpentBy(n) = IF r.kind \in {"accept", "reset"} THEN {r.jti} ELSE {}
        /\ \A e : EndedBy(n, e) <=> r.kind = "reset" /\ r.email = e
    BY <1>5 DEF SpentBy, EndedBy, Idle
  <1>8. r.kind # "reset" => WorkingSessions' = WorkingSessions
    BY <1>6, <1>7
  <1>9. r.kind \notin {"accept", "reset"} => SpentMail' = SpentMail
    BY <1>6, <1>7
  <1>10. CASE r.kind = "register"
    <2>1. a = NoAccount /\ r.row.role = "owner" /\ r.row.tenant \notin founded
      BY <1>2, <1>3, <1>10 DEF Undisturbed, Carried, Registering
    <2>2. Directory!Found(r.email, users'[r.email])
      BY <1>2, <1>4, <1>8, <1>9, <1>10, <2>1
         DEF Directory!Found, Directory!Has, Directory!Becomes
    <2> QED
      BY <1>2, <2>2, SomebodysStep
  <1>11. CASE r.kind = "accept"
    <2> DEFINE letter == [jti |-> r.jti, type |-> "invite", sub |-> r.email, tenant |-> r.tenant]
    <2>1. /\ letter.jti = r.jti /\ letter.type = "invite" /\ letter.sub = r.email
          /\ letter.tenant = r.tenant /\ letter \in mail
      BY <1>3, <1>11 DEF Carried
    <2> HIDE DEF letter
    <2>2. /\ a = NoAccount /\ r.row.role = "member" /\ r.row.tenant = r.tenant
          /\ r.jti \notin ledger.revokedJtis
      BY <1>2, <1>3, <1>11 DEF Undisturbed, Carried
    <2>3. Directory!Honour(letter, "invite")
      BY <1>6, <1>7, <1>11, <2>1, <2>2 DEF Directory!Honour
    <2>4. Directory!Join(letter, users'[letter.sub])
      BY <1>2, <1>4, <1>8, <1>11, <2>1, <2>2, <2>3
         DEF Directory!Join, Directory!Has, Directory!Becomes
    <2> QED
      BY <2>1, <2>4, ALettersStep
  <1>12. CASE r.kind = "reset"
    <2> DEFINE letter == [jti |-> r.jti, type |-> "password_reset", sub |-> r.email,
                          tenant |-> r.tenant]
    <2>1. /\ letter.jti = r.jti /\ letter.type = "password_reset" /\ letter.sub = r.email
          /\ letter \in mail
      BY <1>3, <1>12 DEF Carried
    <2> HIDE DEF letter
    <2>2. /\ a # NoAccount /\ r.row = [a EXCEPT !.hash = r.row.hash]
          /\ r.jti \notin ledger.revokedJtis
      BY <1>2, <1>12 DEF Undisturbed, Real
    <2>3. Directory!Honour(letter, "password_reset")
      BY <1>6, <1>7, <1>12, <2>1, <2>2 DEF Directory!Honour
    <2>4. Directory!EndSessions(letter.sub)
      BY <1>6, <1>7, <1>12, <2>1 DEF Directory!EndSessions
    <2>5. Directory!SetPassword(letter, users'[letter.sub].hash)
      BY <1>2, <1>4, <1>12, <2>1, <2>2, <2>3, <2>4
         DEF Directory!SetPassword, Directory!Has, Directory!Becomes
    <2> QED
      BY <2>1, <2>5, ALettersStep
  <1>13. CASE r.kind = "verify"
    <2>1. PICK letter \in mail : letter.type = "email_verification" /\ letter.sub = r.email
      BY <1>3, <1>13 DEF Carried
    <2>2. a # NoAccount /\ r.row = [a EXCEPT !.verified = TRUE]
      BY <1>2, <1>13 DEF Undisturbed, Real
    <2>3. Directory!Confirm(letter)
      BY <1>2, <1>4, <1>8, <1>9, <1>13, <2>1, <2>2
         DEF Directory!Confirm, Directory!Has, Directory!Becomes
    <2> QED
      BY <2>3, ALettersStep
  <1>14. CASE r.kind = "role"
    <2>1. /\ a # NoAccount /\ a \in AccountSet /\ a.tenant = r.tenant /\ r.role \in Roles
          /\ r.row = [a EXCEPT !.role = r.role]
          /\ a.role = "owner" /\ r.role # "owner" => AnotherOwner(r.tenant, r.email)
      BY <1>2, <1>14 DEF Undisturbed, Real, Shape
    <2>2. users'[r.email].role = r.role
      BY <1>4, <2>1, RealAccounts
    <2>3. AnotherOwner(r.tenant, r.email) => Directory!AnotherOwner(r.email)
      BY <2>1 DEF AnotherOwner, IsMember, Directory!AnotherOwner, Directory!Has
    <2>4. Directory!SetRole(r.email, users'[r.email].role)
      BY <1>2, <1>4, <1>8, <1>9, <1>14, <2>1, <2>2, <2>3
         DEF Directory!SetRole, Directory!Has, Directory!Becomes
    <2> QED
      BY <1>2, <2>4, SomebodysStep
  <1> QED
    BY <1>5, <1>10, <1>11, <1>12, <1>13, <1>14

(* Somebody leaves, and their sessions work no more.                       *)
LEMMA RemovingMaps ==
    ASSUME ~ SqlBackend, AccountsInv, DirectoryInv, NEW w \in Workers, RemoveAccount(w)
    PROVE  DirectoryStep
  <1> DEFINE r == requests[w]
             n == requests'[w]
             a == users[r.email]
  <1>1. /\ BaseInv /\ TypeOK /\ AloneInv /\ Moves(w) /\ Runs(w) /\ r \in RequestSet
        /\ r.kind = "remove" /\ r.pc = "remove" /\ r.email \in Subjects
        /\ users' = [users EXCEPT ![r.email] = NoAccount]
        /\ UNCHANGED <<sessions, mail, ledger, founded>>
    BY ContinuationsMove, RequestsAreTyped, InMemoryRunsAlone
       DEF AccountsInv, BaseInv, Step, RemoveAccount, At, Shape, history
  <1>2. n.kind = "remove" /\ n.pc = "finish" /\ n.email = r.email /\ n.jti = r.jti
    <2>1. n = [r EXCEPT !.pc = "finish"]
      BY <1>1 DEF RemoveAccount, GoesTo, Becomes, TypeOK
    <2> QED
      BY <1>1, <2>1 DEF RequestSet
  <1>3. /\ a # NoAccount /\ a.tenant = r.tenant
        /\ a.role = "owner" => AnotherOwner(r.tenant, r.email)
    BY <1>1 DEF AloneInv, InHandler, Undisturbed, Real
  <1>4. a.role = "owner" => Directory!AnotherOwner(r.email)
    BY <1>3 DEF AnotherOwner, IsMember, Directory!AnotherOwner, Directory!Has
  <1>5. /\ SpentMail = ledger.revokedJtis
        /\ SpentMail' = ledger.revokedJtis \cup SpentBy(n)
        /\ WorkingSessions' = {s \in WorkingSessions : ~ EndedBy(n, s.sub)}
    BY <1>1, <1>2, StoredSessions
  <1>6. SpentMail' = SpentMail /\ Directory!EndSessions(r.email)
    BY <1>2, <1>5 DEF SpentBy, EndedBy, Directory!EndSessions
  <1>7. Directory!Dismiss(r.email)
    BY <1>1, <1>3, <1>4, <1>6 DEF Directory!Dismiss, Directory!Has, Directory!Becomes
  <1> QED
    BY <1>1, <1>7, SomebodysStep

LEMMA ASessionsStep ==
    ASSUME NEW session \in WorkingSessions',
           \/ Directory!SignIn(session)
           \/ \E letter \in mail' : Directory!Welcome(letter, session)
    PROVE  DirectoryStep
  BY DEF DirectoryStep, Directory!Next

(* A handler that opens a session signs its subject in.                    *)
LEMMA OpeningMaps ==
    ASSUME ~ SqlBackend, MaxLogFailures = 0, AccountsInv, DirectoryInv, NEW w \in Workers,
           Finishes(w), requests[w].kind \in {"register", "login", "accept"}
    PROVE  DirectoryStep
  <1> DEFINE r == requests[w]
             a == users[r.email]
             session == [family |-> nextFamily, sub |-> r.email,
                         tenant |-> r.row.tenant, hash |-> r.row.hash]
  <1>1. /\ BaseInv /\ TypeOK /\ AloneInv /\ Moves(w) /\ Runs(w) /\ requests'[w] = Idle
        /\ Letters /\ Families
        /\ r.pc = "finish" /\ r.email \in Subjects /\ r.row # NoAccount
        /\ Opens(w)
        /\ UNCHANGED <<users, founded>>
    BY FinishingRequests, FinishingOpensOrCloses, InMemoryRunsAlone
       DEF AccountsInv, DirectoryInv, BaseInv
  <1>2. a = r.row
    BY <1>1 DEF AloneInv, InHandler, Undisturbed
  <1>3. /\ session.sub = r.email /\ session.tenant = r.row.tenant /\ session.hash = r.row.hash
        /\ session.family = nextFamily
    OBVIOUS
  <1>4. /\ sessions' = sessions \cup {session}
        /\ ledger'.revokedFamilies = ledger.revokedFamilies
        /\ ledger'.revokedJtis = ledger.revokedJtis \cup SpentBy(r)
    <2>1. PICK l : /\ l \in LedgerType(Uuids, Uuids)
                   /\ l.revokedFamilies = ledger.revokedFamilies
                   /\ l.revokedJtis = ledger.revokedJtis \cup SpentBy(r)
                   /\ OpenSession(r.email, r.row, l)
      BY <1>1 DEF Opens
    <2>2. nextFamily \in Uuids
      BY <1>1 DEF TypeOK
    <2> QED
      BY <1>1, <2>1, <2>2, SessionStartedGrows DEF OpenSession
  <1> HIDE DEF session
  <1>5. /\ SpentBy(requests'[w]) = {} /\ \A e : ~ EndedBy(requests'[w], e) /\ ~ EndedBy(r, e)
    BY <1>1 DEF SpentBy, EndedBy, Idle
  <1>6. SpentMail' = SpentMail
    BY <1>1, <1>4, <1>5, TheOneWhoRunsDecides
  <1>7. /\ \A s \in sessions : s.family # nextFamily
        /\ nextFamily \notin ledger.revokedFamilies
    <2>1. nextFamily \in Nat
      BY <1>1 DEF TypeOK, Uuids
    <2>2. \A s \in sessions : s.sub \in Subjects /\ s.family \in ledger.familiesBySubject[s.sub]
      BY <1>1 DEF BaseInv, TypeOK
    <2> QED
      BY <1>1, <2>1, <2>2 DEF Families
  <1>8. WorkingSessions' = WorkingSessions \cup {session} /\ WorkingSessions \subseteq sessions
    BY <1>1, <1>3, <1>4, <1>5, <1>7, TheOneWhoRunsDecides DEF StillWorks
  <1>9. Directory!Opened(session)
    BY <1>1, <1>2, <1>3, <1>7, <1>8 DEF Directory!Opened, Directory!Has
  <1>10. CASE r.kind = "register"
    <2> DEFINE letter == [jti |-> nextJti, type |-> "email_verification", sub |-> r.email,
                          tenant |-> r.row.tenant]
    <2>1. mail' = mail \cup {letter}
      BY <1>10, FinishingOpensOrCloses DEF MintMail
    <2>2. /\ letter.jti = nextJti /\ letter.type = "email_verification" /\ letter.sub = r.email
          /\ letter.tenant = r.row.tenant
      OBVIOUS
    <2>3. \A other \in mail : other.jti # nextJti
      BY <1>1 DEF Letters, TypeOK, Uuids
    <2> HIDE DEF letter
    <2>4. Directory!Posted(letter)
      BY <1>1, <1>2, <2>1, <2>2, <2>3 DEF Directory!Posted, Directory!Has
    <2>5. Directory!Welcome(letter, session)
      BY <1>1, <1>3, <1>6, <1>9, <2>2, <2>4 DEF Directory!Welcome
    <2> QED
      BY <1>8, <2>1, <2>5, ASessionsStep
  <1>11. CASE r.kind # "register"
    <2>1. Directory!SignIn(session)
      BY <1>1, <1>6, <1>9, <1>11, FinishingOpensOrCloses DEF Directory!SignIn
    <2> QED
      BY <1>8, <2>1, ASessionsStep
  <1> QED
    BY <1>10, <1>11

(* The ledger is told of what the account's change had ended already.      *)
LEMMA ClosingMaps ==
    ASSUME ~ SqlBackend, MaxLogFailures = 0, AccountsInv, DirectoryInv, NEW w \in Workers,
           Finishes(w), requests[w].kind \in {"remove", "reset"}
    PROVE  DirectoryStep
  <1> DEFINE r == requests[w]
  <1>1. /\ BaseInv /\ TypeOK /\ Moves(w) /\ Runs(w) /\ requests'[w] = Idle
        /\ Families
        /\ r.pc = "finish" /\ r.email \in Subjects
        /\ Closes(w)
        /\ UNCHANGED <<users, founded, mail>>
    BY FinishingRequests, FinishingOpensOrCloses DEF AccountsInv, DirectoryInv
  <1>2. SpentBy(requests'[w]) = {} /\ \A e : ~ EndedBy(requests'[w], e)
    BY <1>1 DEF SpentBy, EndedBy, Idle
  <1>3. SpentMail' = SpentMail
    BY <1>1, <1>2, TheOneWhoRunsDecides DEF Closes
  <1>4. ASSUME NEW s \in sessions
        PROVE  StillWorks(ledger, r, s) <=> StillWorks(ledger', requests'[w], s)
    <2>1. s.sub \in Subjects /\ s.family \in ledger.familiesBySubject[s.sub]
      BY <1>1 DEF BaseInv, TypeOK
    <2>2. EndedBy(r, s.sub) <=> r.email = s.sub
      BY <1>1 DEF EndedBy
    <2>3. s.family \in ledger.familiesBySubject[r.email] <=> r.email = s.sub
      BY <1>1, <2>1 DEF Families
    <2> QED
      BY <1>1, <1>2, <2>2, <2>3 DEF StillWorks, Closes
  <1>5. WorkingSessions' = WorkingSessions
    BY <1>1, <1>4, TheOneWhoRunsDecides DEF Closes
  <1> QED
    BY <1>1, <1>3, <1>5 DEF DirectoryStep, Directory!dvars

LEMMA RevokingMaps ==
    ASSUME ~ SqlBackend, AccountsInv, DirectoryInv, NEW w \in Workers, NEW tok \in mail,
           RevokeMail(w, tok)
    PROVE  DirectoryStep
  <1>1. /\ Moves(w) /\ Runs(w)
        /\ ledger'.revokedJtis = ledger.revokedJtis \cup {tok.jti}
        /\ ledger'.revokedFamilies = ledger.revokedFamilies
        /\ UNCHANGED <<users, sessions, mail, requests, founded>>
    BY RevokingKeepsTheDirectory DEF RevokeMail, uuids, history
  <1>2. SpentMail' = SpentMail \cup {tok.jti}
    BY <1>1, TheOneWhoRunsDecides
  <1>3. WorkingSessions' = WorkingSessions
    BY <1>1, TheOneWhoRunsDecides DEF StillWorks
  <1>4. Directory!Revoke(tok)
    BY <1>1, <1>2, <1>3 DEF Directory!Revoke
  <1> QED
    BY <1>4, ALettersStep

LEMMA StepsMapToTheDirectory ==
    ASSUME ~ SqlBackend, MaxLogFailures = 0, AccountsInv, DirectoryInv, [Next]_vars
    PROVE  DirectoryStep
  <1>1. CASE UNCHANGED vars
    BY <1>1 DEF DirectoryStep, Directory!dvars, SpentMail, WorkingSessions, Ending, Live,
                IsFamilyRevoked, vars, uuids, history
  <1>2. ASSUME NEW w \in Workers, Request(w) \/ Step(w)
        PROVE  DirectoryStep
    <2>1. CASE \E tok \in mail : RevokeMail(w, tok)
      BY <2>1, RevokingMaps
    <2>2. CASE Reads(w) \/ (Request(w) /\ \A tok \in mail : ~ RevokeMail(w, tok))
      BY <2>2, QuietStepsMap
    <2>3. CASE AddInMemory(w) \/ MergeCommits(w)
      BY <2>3, StoringMaps
    <2>4. CASE RemoveAccount(w)
      BY <2>4, RemovingMaps
    <2>5. CASE Finishes(w)
      <3>1. requests[w].kind \in {"register", "login", "accept", "reset", "remove"}
        BY <2>5, FinishingRequests DEF AccountsInv
      <3> QED
        BY <2>5, <3>1, OpeningMaps, ClosingMaps
    <2> QED
      BY <1>2, <2>1, <2>2, <2>3, <2>4, <2>5 DEF Step, Reads, Finishes
  <1> QED
    BY <1>1, <1>2 DEF Next

(***************************************************************************)
(* Over the repository in memory, and while the log can be written, the    *)
(* account routes are a directory of tenants in which every request        *)
(* happens at once (auth.py:7-58): however requests interleave, each step  *)
(* of a handler is one step of TenantDirectory or invisible to it.         *)
(***************************************************************************)
THEOREM AccountsInMemoryAreATenantDirectory ==
    ASSUME ~ SqlBackend, MaxLogFailures = 0
    PROVE  Spec => ImplementsTenantDirectory
  <1>1. Init => DirectoryInv /\ Directory!Init
    BY InitMapsToTheDirectory
  <1>2. AccountsInv /\ DirectoryInv /\ [Next]_vars => DirectoryInv'
    BY StepsKeepTheDirectory
  <1>3. AccountsInv /\ DirectoryInv /\ [Next]_vars => [Directory!Next]_(Directory!dvars)
    BY StepsMapToTheDirectory DEF DirectoryStep
  <1> QED
    BY <1>1, <1>2, <1>3, AccountsKeepTheirInvariant, PTL
       DEF Spec, ImplementsTenantDirectory, Directory!Spec
=============================================================================
