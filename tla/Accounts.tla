------------------------------- MODULE Accounts -------------------------------
(***************************************************************************)
(* User accounts and tenants: the handlers of api/routes/auth.py over a    *)
(* UserRepository and the TokenLedger, several requests at a time.         *)
(*                                                                         *)
(* A handler is cut where it awaits.  An action is one repository call,    *)
(* with the local decisions that follow it, or one stretch of calls to     *)
(* the ledger, which is not asynchronous.  The repository in memory never  *)
(* suspends, so a handler that started runs to its end; the SQL one        *)
(* suspends at every call.  Between the check of the bearer token and the  *)
(* handler other requests may run with either: FastAPI resolves the        *)
(* synchronous dependencies in a thread pool.                              *)
(*                                                                         *)
(* Refresh tokens are in module Sessions; here a session is live until its *)
(* family is revoked.  A password hash is salted: a number, fresh on every *)
(* write, and the tenant a registration founds has the number of its hash. *)
(***************************************************************************)
EXTENDS TokenLedger

CONSTANTS Workers,          \* requests in progress at the same time
          SqlBackend,       \* SqlAlchemyUserRepository, or the one in memory
          RequestKinds,     \* the requests clients send in this instance
          MaxHashes,        \* bound: passwords ever set
          MaxMail,          \* bound: single-purpose tokens ever minted
          MaxSessions,      \* bound: sessions ever opened
          MaxLogFailures    \* bound: appends to the log that raise

Kinds == {"register", "login", "request_reset", "reset", "verify",
          "invite", "accept", "role", "remove", "revoke"}

ASSUME AccountConstants ==
    /\ SqlBackend \in BOOLEAN
    /\ RequestKinds \subseteq Kinds
    /\ {MaxHashes, MaxMail, MaxSessions, MaxLogFailures} \subseteq Nat

VARIABLES
    users,        \* the repository: e-mail -> account
    sessions,     \* every session opened, with the hash it was opened under
    mail,         \* invite, reset and verification tokens, in clients' hands
    ledger,       \* app.state.token_ledger
    requests,     \* what each worker is doing
    nextHash,     \* supply of password hashes
    nextJti,      \* supply of uuids for jti
    nextFamily,   \* supply of uuids for family_id
    founded,      \* history: tenants whose first account was stored
    redeemed,     \* history: single-purpose tokens whose use was answered
    overlapped,   \* history: a request ran while another was in its handler
    logFailures   \* history: appends that raised

uuids == <<nextHash, nextJti, nextFamily>>
history == <<founded, redeemed, logFailures>>
vars == <<users, sessions, mail, ledger, requests, uuids, history, overlapped>>

Uuids == Nat \ {0}
Roles    == {"owner", "member"}
MailTypes == {"invite", "password_reset", "email_verification"}

Account(tenant, role, hash) ==
    [tenant |-> tenant, role |-> role, hash |-> hash, verified |-> FALSE]
NoAccount == [tenant |-> 0, role |-> "none", hash |-> 0, verified |-> FALSE]

AccountSet ==
    [tenant : Uuids, role : Roles, hash : Uuids, verified : BOOLEAN]
        \cup {NoAccount}

Nobody == "nobody"

(* kind and pc, then the locals of the handler: the claims of the bearer   *)
(* token, the parameters, the account to write, the row merge() loaded.    *)
Idle == [kind |-> "none", pc |-> "idle", caller |-> Nobody, tenant |-> 0,
         email |-> Nobody, role |-> "none", jti |-> 0,
         row |-> NoAccount, seen |-> NoAccount]

Pcs == {"idle", "admitted", "target", "owners", "read", "add", "merge",
        "remove", "finish"}

RequestSet ==
    [kind : Kinds \cup {"none"}, pc : Pcs,
     caller : Subjects \cup {Nobody}, tenant : Nat,
     email : Subjects \cup {Nobody}, role : Roles \cup {"none"},
     jti : Nat, row : AccountSet, seen : AccountSet]

TypeOK ==
    /\ users \in [Subjects -> AccountSet]
    /\ sessions \subseteq [family : Uuids, sub : Subjects, tenant : Uuids, hash : Uuids]
    /\ mail \subseteq [jti : Uuids, type : MailTypes, sub : Subjects, tenant : Uuids]
    /\ ledger \in LedgerType(Uuids, Uuids)
    /\ requests \in [Workers -> RequestSet]
    /\ nextHash \in Uuids /\ nextJti \in Uuids /\ nextFamily \in Uuids
    /\ founded \subseteq Uuids
    /\ redeemed \subseteq [jti : Uuids, hash : Uuids]
    /\ overlapped \in BOOLEAN
    /\ logFailures \in Nat

-----------------------------------------------------------------------------
(* Scheduling.                                                             *)

InHandler(w) == requests[w].pc \notin {"idle", "admitted"}

OthersInHandler(w) == \E v \in Workers \ {w} : InHandler(v)

(* The event loop runs w: nobody else is in a handler, unless suspended.   *)
Runs(w) ==
    /\ OthersInHandler(w) => SqlBackend
    /\ overlapped' = (overlapped \/ OthersInHandler(w))

(* The bounds hold back requests that could need more than is left, never  *)
(* a request in progress.                                                  *)
InProgress(kinds) == Cardinality({w \in Workers : requests[w].kind \in kinds})

Room(kind) ==
    LET newHash    == {"register", "accept", "reset"}
        newMail    == {"register", "invite", "request_reset"}
        newSession == {"register", "accept", "login"}
    IN  /\ kind \in newHash    => nextHash + InProgress({"accept", "reset"}) <= MaxHashes
        /\ kind \in newMail    => nextJti + InProgress(newMail) <= MaxMail
        /\ kind \in newSession => nextFamily + InProgress(newSession) <= MaxSessions

Arrives(w, kind) ==
    /\ requests[w] = Idle
    /\ kind \in RequestKinds
    /\ Room(kind)
    /\ Runs(w)

At(w, kind, pc) ==
    /\ requests[w].kind = kind
    /\ requests[w].pc = pc
    /\ Runs(w)

Becomes(w, r) == requests' = [requests EXCEPT ![w] = r]
Answers(w)    == Becomes(w, Idle)
GoesTo(w, pc) == Becomes(w, [requests[w] EXCEPT !.pc = pc])
Writes(w, pc, account) ==
    Becomes(w, [requests[w] EXCEPT !.pc = pc, !.row = account])

-----------------------------------------------------------------------------
(* Minting.                                                                *)

MintMail(type, s, t) ==
    /\ mail' = mail \cup {[jti |-> nextJti, type |-> type, sub |-> s, tenant |-> t]}
    /\ nextJti' = nextJti + 1

NoMail == UNCHANGED <<mail, nextJti>>

(* _issue_token_pair for a new session, on the ledger so far.              *)
OpenSession(s, account, ledgerSoFar) ==
    /\ sessions' = sessions \cup {[family |-> nextFamily, sub |-> s,
                                   tenant |-> account.tenant, hash |-> account.hash]}
    /\ nextFamily' = nextFamily + 1
    /\ ledger' = RecordSessionStarted(ledgerSoFar, s, nextFamily)

TakesHash == nextHash' = nextHash + 1

Live(session) == ~ IsFamilyRevoked(ledger, session.family)

-----------------------------------------------------------------------------
Init ==
    /\ users = [s \in Subjects |-> NoAccount]
    /\ sessions = {} /\ mail = {} /\ ledger = EmptyLedger
    /\ requests = [w \in Workers |-> Idle]
    /\ nextHash = 1 /\ nextJti = 1 /\ nextFamily = 1
    /\ founded = {} /\ redeemed = {}
    /\ overlapped = FALSE /\ logFailures = 0

(***************************************************************************)
(* A request that is turned away by its first check changes nothing: it is *)
(* the guard of the action.  Later refusals end the request.               *)
(***************************************************************************)

(* Mutant: an e-mail that is taken is registered all the same.             *)
RegistersOver(w, e) ==
    /\ Arrives(w, "register")
    /\ TakesHash
    /\ Becomes(w, [Idle EXCEPT !.kind = "register", !.pc = "add", !.email = e,
                               !.row = Account(nextHash, "owner", nextHash)])
    /\ UNCHANGED <<users, sessions, mail, ledger, nextJti, nextFamily, history>>

(* POST /register: the e-mail is free.                                     *)
Register(w, e) ==
    /\ Arrives(w, "register")
    /\ users[e] = NoAccount
    /\ TakesHash
    /\ Becomes(w, [Idle EXCEPT !.kind = "register", !.pc = "add", !.email = e,
                               !.row = Account(nextHash, "owner", nextHash)])
    /\ UNCHANGED <<users, sessions, mail, ledger, nextJti, nextFamily, history>>

(* POST /token: the account is there and the password matches its hash.    *)
Login(w, e) ==
    /\ Arrives(w, "login")
    /\ users[e] # NoAccount
    /\ Becomes(w, [Idle EXCEPT !.kind = "login", !.pc = "finish", !.email = e,
                               !.row = users[e]])
    /\ UNCHANGED <<users, sessions, mail, ledger, uuids, history>>

(* POST /request-password-reset: a single repository call.                 *)
RequestPasswordReset(w, e) ==
    /\ Arrives(w, "request_reset")
    /\ users[e] # NoAccount
    /\ MintMail("password_reset", e, users[e].tenant)
    /\ UNCHANGED <<users, sessions, ledger, requests, nextHash, nextFamily, history>>

(* POST /verify-email, of an account not verified yet.                     *)
VerifyEmail(w, tok) ==
    /\ Arrives(w, "verify")
    /\ tok.type = "email_verification"
    /\ users[tok.sub] # NoAccount
    /\ ~ users[tok.sub].verified
    /\ Becomes(w, [Idle EXCEPT !.kind = "verify", !.pc = "add", !.email = tok.sub,
                               !.row = [users[tok.sub] EXCEPT !.verified = TRUE]])
    /\ UNCHANGED <<users, sessions, mail, ledger, uuids, history>>

(* POST /accept-invite and POST /reset-password: the token is not revoked. *)
PresentToken(w, tok, kind, type) ==
    /\ Arrives(w, kind)
    /\ tok.type = type
    /\ ~ IsRevoked(ledger, tok.jti)
    /\ Becomes(w, [Idle EXCEPT !.kind = kind, !.pc = "read", !.email = tok.sub,
                               !.tenant = tok.tenant, !.jti = tok.jti])
    /\ UNCHANGED <<users, sessions, mail, ledger, uuids, history>>

AcceptInvite(w, tok)  == PresentToken(w, tok, "accept", "invite")
ResetPassword(w, tok) == PresentToken(w, tok, "reset", "password_reset")

(* POST /accept-invite: get_by_email, and the account it is going to add.  *)
InviteeIsNew(w) ==
    LET r == requests[w]
    IN  /\ At(w, "accept", "read")
        /\ \/ /\ users[r.email] = NoAccount
              /\ TakesHash
              /\ Writes(w, "add", Account(r.tenant, "member", nextHash))
           \/ /\ users[r.email] # NoAccount
              /\ Answers(w)
              /\ UNCHANGED nextHash
        /\ UNCHANGED <<users, sessions, mail, ledger, nextJti, nextFamily, history>>

(* Mutants: the account is built anew, with the defaults of UserAccount.    *)
RebuiltUnverified(w) ==
    LET r == requests[w]
    IN  /\ At(w, "reset", "read")
        /\ users[r.email] # NoAccount
        /\ TakesHash
        /\ Writes(w, "add", Account(users[r.email].tenant, users[r.email].role, nextHash))
        /\ UNCHANGED <<users, sessions, mail, ledger, nextJti, nextFamily, history>>

(* POST /reset-password: get_by_email, and the updated copy.               *)
AccountStillExists(w) ==
    LET r == requests[w]
    IN  /\ At(w, "reset", "read")
        /\ \/ /\ users[r.email] # NoAccount
              /\ TakesHash
              /\ Writes(w, "add", [users[r.email] EXCEPT !.hash = nextHash])
           \/ /\ users[r.email] = NoAccount
              /\ Answers(w)
              /\ UNCHANGED nextHash
        /\ UNCHANGED <<users, sessions, mail, ledger, nextJti, nextFamily, history>>

-----------------------------------------------------------------------------
(* The requests of owners: invite, change of role, removal.                *)

(* require_auth and get_current_tenant, before the handler.                *)
Admit(w, session, kind, e, role) ==
    /\ Arrives(w, kind)
    /\ Live(session)
    /\ Becomes(w, [Idle EXCEPT !.kind = kind, !.pc = "admitted",
                               !.caller = session.sub, !.tenant = session.tenant,
                               !.email = e, !.role = role])
    /\ UNCHANGED <<users, sessions, mail, ledger, uuids, history>>

(* require_owner.                                                          *)
OwnerGate(w) ==
    /\ requests[w].pc = "admitted"
    /\ Runs(w)
    /\ IF users[requests[w].caller].role = "owner" THEN GoesTo(w, "target") ELSE Answers(w)
    /\ UNCHANGED <<users, sessions, mail, ledger, uuids, history>>

(* POST /invite: the e-mail is free, the token is minted and sent.         *)
Invite(w) ==
    LET r == requests[w]
    IN  /\ At(w, "invite", "target")
        /\ IF users[r.email] = NoAccount THEN MintMail("invite", r.email, r.tenant)
                                         ELSE NoMail
        /\ Answers(w)
        /\ UNCHANGED <<users, sessions, ledger, nextHash, nextFamily, history>>

IsMember(e, t) == users[e] # NoAccount /\ users[e].tenant = t

(* Mutant: the account about to go is counted too.                         *)
NoOwnerAtAll(t, excluding) ==
    ~ \E e \in Subjects : IsMember(e, t) /\ users[e].role = "owner"

(* _would_leave_tenant_without_an_owner.                                   *)
WouldLeaveTenantWithoutAnOwner(t, excluding) ==
    ~ \E e \in Subjects \ {excluding} : IsMember(e, t) /\ users[e].role = "owner"

(* POST /members/{email}/role: the target; only a demotion counts owners.  *)
RoleTarget(w) ==
    LET r == requests[w]
        demotes == users[r.email].role = "owner" /\ r.role = "member"
    IN  /\ At(w, "role", "target")
        /\ IF IsMember(r.email, r.tenant)
             THEN Writes(w, IF demotes THEN "owners" ELSE "add",
                         [users[r.email] EXCEPT !.role = r.role])
             ELSE Answers(w)
        /\ UNCHANGED <<users, sessions, mail, ledger, uuids, history>>

(* DELETE /members/{email}: the target; removing an owner counts owners.   *)
RemoveTarget(w) ==
    LET r == requests[w]
    IN  /\ At(w, "remove", "target")
        /\ IF IsMember(r.email, r.tenant)
             THEN GoesTo(w, IF users[r.email].role = "owner" THEN "owners" ELSE "remove")
             ELSE Answers(w)
        /\ UNCHANGED <<users, sessions, mail, ledger, uuids, history>>

CountOwners(w) ==
    LET r == requests[w]
    IN  /\ r.pc = "owners"
        /\ Runs(w)
        /\ IF WouldLeaveTenantWithoutAnOwner(r.tenant, r.email)
             THEN Answers(w)
             ELSE GoesTo(w, IF r.kind = "role" THEN "add" ELSE "remove")
        /\ UNCHANGED <<users, sessions, mail, ledger, uuids, history>>

-----------------------------------------------------------------------------
(* Writing an account.                                                     *)

(* What is left to do once add() returned.                                 *)
AfterAdd(w) ==
    IF requests[w].kind \in {"role", "verify"} THEN Answers(w)
    ELSE Becomes(w, [requests[w] EXCEPT !.pc = "finish", !.seen = NoAccount])

Stored(w, account) ==
    /\ users' = [users EXCEPT ![requests[w].email] = account]
    /\ founded' = IF requests[w].kind = "register"
                    THEN founded \cup {account.tenant} ELSE founded
    /\ AfterAdd(w)

(* InMemoryUserRepository.add.                                             *)
AddInMemory(w) ==
    /\ ~ SqlBackend
    /\ requests[w].pc = "add"
    /\ Runs(w)
    /\ Stored(w, requests[w].row)
    /\ UNCHANGED <<sessions, mail, ledger, uuids, redeemed, logFailures>>

(* SqlAlchemyUserRepository.add: session.merge loads the row...            *)
MergeLoads(w) ==
    /\ SqlBackend
    /\ requests[w].pc = "add"
    /\ Runs(w)
    /\ Becomes(w, [requests[w] EXCEPT !.pc = "merge", !.seen = users[requests[w].email]])
    /\ UNCHANGED <<users, sessions, mail, ledger, uuids, history>>

(* ... and session.commit writes the columns that differ from it.          *)
Updated(row, seen, current) ==
    [f \in DOMAIN row |-> IF row[f] = seen[f] THEN current[f] ELSE row[f]]

(* Mutant: session.commit() is forgotten.                                  *)
NeverCommits(w) ==
    /\ requests[w].pc = "merge"
    /\ Runs(w)
    /\ AfterAdd(w)
    /\ UNCHANGED <<users, sessions, mail, ledger, uuids, history>>

(* Mutant: a commit that conflicts is tried until it goes through.         *)
ConflictIsRetried(w) ==
    LET r == requests[w]
        current == users[r.email]
    IN  /\ r.pc = "merge"
        /\ Runs(w)
        /\ r.seen = NoAccount <=> current = NoAccount
        /\ Stored(w, Updated(r.row, r.seen, current))
        /\ UNCHANGED <<sessions, mail, ledger, uuids, redeemed, logFailures>>

MergeCommits(w) ==
    LET r == requests[w]
        current == users[r.email]
    IN  /\ r.pc = "merge"
        /\ Runs(w)
        /\ \/ /\ r.seen = NoAccount /\ current = NoAccount
              /\ Stored(w, r.row)
           \/ /\ r.seen # NoAccount /\ (current # NoAccount \/ r.row = r.seen)
              /\ Stored(w, Updated(r.row, r.seen, current))
           \/ /\ \/ r.seen = NoAccount /\ current # NoAccount
                 \/ r.seen # NoAccount /\ current = NoAccount /\ r.row # r.seen
              /\ Answers(w)                     \* IntegrityError, StaleDataError
              /\ UNCHANGED <<users, founded>>
        /\ UNCHANGED <<sessions, mail, ledger, uuids, redeemed, logFailures>>

(* remove() of either repository.                                          *)
RemoveAccount(w) ==
    /\ At(w, "remove", "remove")
    /\ users' = [users EXCEPT ![requests[w].email] = NoAccount]
    /\ GoesTo(w, "finish")
    /\ UNCHANGED <<sessions, mail, ledger, uuids, history>>

-----------------------------------------------------------------------------
(* The end of a handler: calls to the ledger, tokens, the answer.          *)

FinishRegister(w) ==
    LET r == requests[w]
    IN  /\ At(w, "register", "finish")
        /\ MintMail("email_verification", r.email, r.row.tenant)
        /\ OpenSession(r.email, r.row, ledger)
        /\ Answers(w)
        /\ UNCHANGED <<users, nextHash, history>>

FinishLogin(w) ==
    /\ At(w, "login", "finish")
    /\ OpenSession(requests[w].email, requests[w].row, ledger)
    /\ Answers(w)
    /\ UNCHANGED <<users, mail, nextHash, nextJti, history>>

Redeems(w) ==
    redeemed' = redeemed \cup {[jti |-> requests[w].jti, hash |-> requests[w].row.hash]}

FinishAccept(w) ==
    LET r == requests[w]
    IN  /\ At(w, "accept", "finish")
        /\ OpenSession(r.email, r.row, Revoke(ledger, r.jti))
        /\ Redeems(w)
        /\ Answers(w)
        /\ UNCHANGED <<users, mail, nextHash, nextJti, founded, logFailures>>

(* Mutants: the reset token is not spent; the other sessions live on.      *)
ResetTokenKept(w) ==
    LET r == requests[w]
    IN  /\ At(w, "reset", "finish")
        /\ ledger' = RevokeAllSessionsForSubject(ledger, r.email)
        /\ Redeems(w)
        /\ Answers(w)
        /\ UNCHANGED <<users, sessions, mail, uuids, founded, logFailures>>

SessionsOutliveReset(w) ==
    LET r == requests[w]
    IN  /\ At(w, "reset", "finish")
        /\ ledger' = Revoke(ledger, r.jti)
        /\ Redeems(w)
        /\ Answers(w)
        /\ UNCHANGED <<users, sessions, mail, uuids, founded, logFailures>>

FinishReset(w) ==
    LET r == requests[w]
    IN  /\ At(w, "reset", "finish")
        /\ ledger' = RevokeAllSessionsForSubject(Revoke(ledger, r.jti), r.email)
        /\ Redeems(w)
        /\ Answers(w)
        /\ UNCHANGED <<users, sessions, mail, uuids, founded, logFailures>>

(* Mutant: a removed member keeps their sessions.                          *)
SessionsOutliveRemoval(w) ==
    /\ At(w, "remove", "finish")
    /\ Answers(w)
    /\ UNCHANGED <<users, sessions, mail, ledger, uuids, history>>

FinishRemove(w) ==
    /\ At(w, "remove", "finish")
    /\ ledger' = RevokeAllSessionsForSubject(ledger, requests[w].email)
    /\ Answers(w)
    /\ UNCHANGED <<users, sessions, mail, uuids, history>>

(* The ledger after a cascade that broke off before its last append.       *)
BrokenCascades(start, s) ==
    LET families == start.familiesBySubject[s]
    IN  {[start EXCEPT !.revokedFamilies = @ \cup some] :
            some \in (SUBSET families) \ {families}}

BrokenOff(r) ==
    CASE r.kind \in {"register", "login"} -> {ledger}
      [] r.kind = "accept" -> {ledger, Revoke(ledger, r.jti)}
      [] r.kind = "reset"  -> {ledger} \cup BrokenCascades(Revoke(ledger, r.jti), r.email)
      [] r.kind = "remove" -> BrokenCascades(ledger, r.email)

(* An append to the log raises: the handler answers 500 where it stands.   *)
LogRaises(w) ==
    LET r == requests[w]
    IN  /\ r.pc = "finish"
        /\ Runs(w)
        /\ logFailures < MaxLogFailures
        /\ logFailures' = logFailures + 1
        /\ ledger' \in BrokenOff(r)
        /\ IF r.kind = "register"
             THEN MintMail("email_verification", r.email, r.row.tenant)
             ELSE NoMail
        /\ Answers(w)
        /\ UNCHANGED <<users, sessions, nextHash, nextFamily, founded, redeemed>>

(* POST /revoke of a token that came by mail.                              *)
RevokeMail(w, tok) ==
    /\ Arrives(w, "revoke")
    /\ ledger' = Revoke(ledger, tok.jti)
    /\ UNCHANGED <<users, sessions, mail, requests, uuids, history>>

-----------------------------------------------------------------------------
(* A request arrives.                                                      *)
Request(w) ==
    \/ \E e \in Subjects : Register(w, e) \/ Login(w, e) \/ RequestPasswordReset(w, e)
    \/ \E tok \in mail : VerifyEmail(w, tok)
    \/ \E tok \in mail : AcceptInvite(w, tok)
    \/ \E tok \in mail : ResetPassword(w, tok)
    \/ \E tok \in mail : RevokeMail(w, tok)
    \/ \E session \in sessions, e \in Subjects, kind \in {"invite", "remove"} :
         Admit(w, session, kind, e, "none")
    \/ \E session \in sessions, e \in Subjects, role \in Roles :
         Admit(w, session, "role", e, role)

(* A request goes on.                                                      *)
Step(w) ==
    \/ OwnerGate(w) \/ Invite(w) \/ RoleTarget(w) \/ RemoveTarget(w) \/ CountOwners(w)
    \/ InviteeIsNew(w) \/ AccountStillExists(w)
    \/ AddInMemory(w) \/ MergeLoads(w) \/ MergeCommits(w) \/ RemoveAccount(w)
    \/ FinishRegister(w) \/ FinishLogin(w) \/ FinishAccept(w)
    \/ FinishReset(w) \/ FinishRemove(w) \/ LogRaises(w)

Next == \E w \in Workers : Request(w) \/ Step(w)

Spec == Init /\ [][Next]_vars

(***************************************************************************)
(* The event loop resumes every coroutine whose repository call returned,  *)
(* and every such call returns; nothing obliges a client to send anything. *)
(***************************************************************************)
FairSpec == Spec /\ \A w \in Workers : WF_vars(Step(w))

-----------------------------------------------------------------------------
AtRest == \A w \in Workers : ~ InHandler(w)

HasOwner(t) == \E e \in Subjects : IsMember(e, t) /\ users[e].role = "owner"

(***************************************************************************)
(* A tenant never ends up with zero owners (auth.py:52-54), whatever       *)
(* registrations, demotions and removals are in progress at the same time. *)
(***************************************************************************)
TenantsKeepAnOwner == \A t \in founded : HasOwner(t)

(***************************************************************************)
(* A removed member's access stops at once (auth.py:54-58): between        *)
(* handlers, a session that works belongs to somebody with an account.     *)
(***************************************************************************)
RemovedMembersAreLockedOut ==
    AtRest => \A s \in sessions : Live(s) => users[s.sub] # NoAccount

(***************************************************************************)
(* Tokens carry the tenant of their login and are never asked again: still *)
(* no session that works lets its holder into a tenant they are not in.    *)
(***************************************************************************)
SessionsStayInTheirTenant ==
    AtRest => \A s \in sessions :
        Live(s) /\ users[s.sub] # NoAccount => users[s.sub].tenant = s.tenant

(***************************************************************************)
(* A password reset ends every other session (auth.py:33-37): between      *)
(* handlers, a session that works was opened under the password in force.  *)
(***************************************************************************)
ResetEndsOlderSessions ==
    AtRest => \A s \in sessions :
        Live(s) /\ IsMember(s.sub, s.tenant) => users[s.sub].hash = s.hash

(***************************************************************************)
(* An invite and a reset token are good for one answer (auth.py:18-20).    *)
(***************************************************************************)
MailIsSingleUse ==
    \A a, b \in redeemed : a.jti = b.jti => a = b

(***************************************************************************)
(* Writing a whole account back never undoes what another request wrote:   *)
(* an e-mail verified once stays verified while the account exists ("the   *)
(* durable record", auth.py:573-574), and its role changes only on request *)
(* of an owner.                                                            *)
(***************************************************************************)
SameAccount(e) == users[e] # NoAccount /\ users'[e].tenant = users[e].tenant

WritesKeepWhatOthersWrote ==
    [][\A e \in Subjects : SameAccount(e) =>
          /\ users[e].verified => users'[e].verified
          /\ users'[e].role # users[e].role =>
                \E w \in Workers :
                   /\ requests[w].kind = "role" /\ requests[w].email = e
                   /\ requests'[w] = Idle]_vars

(***************************************************************************)
(* The directory of tenants that the handlers implement over a repository  *)
(* that does not suspend: a request happens when it writes its account or, *)
(* if it writes none, when it answers.  From then on its letter is spent   *)
(* and the sessions it is about to end work no more, though the ledger is  *)
(* told only at the end of the handler.                                    *)
(***************************************************************************)
Ending(w, kinds) == requests[w].pc = "finish" /\ requests[w].kind \in kinds

SpentMail ==
    ledger.revokedJtis \cup {requests[w].jti : w \in {v \in Workers : Ending(v, {"accept", "reset"})}}

WorkingSessions ==
    {s \in sessions : /\ Live(s)
                      /\ ~ \E w \in Workers : /\ Ending(w, {"remove", "reset"})
                                              /\ requests[w].email = s.sub}

Directory == INSTANCE TenantDirectory WITH
    People <- Subjects, Vacant <- NoAccount,
    accounts <- users, tenants <- founded, letters <- mail,
    spent <- SpentMail, working <- WorkingSessions

ImplementsTenantDirectory == Directory!Spec

(***************************************************************************)
(* With the SQL repository these promises hold as long as no two handlers  *)
(* overlapped and no append raised: the two steps of merge() alone break   *)
(* none of them.                                                           *)
(***************************************************************************)
OverlapIsToBlame ==
    overlapped \/ logFailures > 0
        \/ /\ TenantsKeepAnOwner
           /\ RemovedMembersAreLockedOut
           /\ SessionsStayInTheirTenant
           /\ ResetEndsOlderSessions
           /\ MailIsSingleUse

(***************************************************************************)
(* "The one real invariant this feature has to maintain" (auth.py:51-54):  *)
(* no change of role and no removal takes a tenant's last owner.           *)
(***************************************************************************)
LastOwnerIsProtected ==
    [][\A w \in Workers, t \in founded :
          /\ requests[w].kind \in {"role", "remove"}
          /\ requests[w].tenant = t
          /\ requests'[w] # requests[w]
          /\ HasOwner(t)
          => HasOwner(t)']_vars

(***************************************************************************)
(* Every request is answered: no handler waits for another, and none ends  *)
(* in a step with no continuation.                                         *)
(***************************************************************************)
EveryRequestIsAnswered ==
    \A w \in Workers : requests[w] # Idle ~> requests[w] = Idle
=============================================================================
