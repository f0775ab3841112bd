---------------------------- MODULE TenantDirectory ----------------------------
(***************************************************************************)
(* What the account routes (api/routes/auth.py) promise, with no handler,  *)
(* no token and no log in sight: every request happens at once.            *)
(*                                                                         *)
(* A person has at most one account, in one tenant.  A tenant is founded   *)
(* by its first owner and has an owner ever after.  A letter (an invite, a *)
(* password reset, a request to confirm an address) goes to one person; an *)
(* invite and a reset are honoured once, and not after they were revoked.  *)
(* A session that works is that of an account, in the account's tenant and *)
(* opened under the password in force.                                     *)
(***************************************************************************)
CONSTANTS People, Vacant

VARIABLES accounts,   \* person -> their account, or Vacant
          tenants,    \* the tenants that were founded
          letters,    \* the letters that were sent
          spent,      \* the numbers of those that were honoured or revoked
          working     \* the sessions that work

dvars == <<accounts, tenants, letters, spent, working>>

Init ==
    /\ accounts = [p \in People |-> Vacant]
    /\ tenants = {} /\ letters = {} /\ spent = {} /\ working = {}

Has(p) == accounts[p] # Vacant

AnotherOwner(p) ==
    \E q \in People \ {p} : /\ Has(q)
                            /\ accounts[q].tenant = accounts[p].tenant
                            /\ accounts[q].role = "owner"

Becomes(p, account) == accounts' = [accounts EXCEPT ![p] = account]

Honour(letter, type) ==
    /\ letter \in letters /\ letter.type = type /\ letter.jti \notin spent
    /\ spent' = spent \cup {letter.jti}

EndSessions(p) == working' = {s \in working : s.sub # p}

-----------------------------------------------------------------------------
Found(p, account) ==
    /\ ~ Has(p)
    /\ account.role = "owner" /\ account.tenant \notin tenants
    /\ Becomes(p, account)
    /\ tenants' = tenants \cup {account.tenant}
    /\ UNCHANGED <<letters, spent, working>>

Join(letter, account) ==
    /\ ~ Has(letter.sub)
    /\ account.role = "member" /\ account.tenant = letter.tenant
    /\ Honour(letter, "invite")
    /\ Becomes(letter.sub, account)
    /\ UNCHANGED <<tenants, letters, working>>

SetPassword(letter, hash) ==
    /\ Has(letter.sub)
    /\ Honour(letter, "password_reset")
    /\ Becomes(letter.sub, [accounts[letter.sub] EXCEPT !.hash = hash])
    /\ EndSessions(letter.sub)
    /\ UNCHANGED <<tenants, letters>>

Confirm(letter) ==
    /\ Has(letter.sub)
    /\ letter \in letters /\ letter.type = "email_verification"
    /\ Becomes(letter.sub, [accounts[letter.sub] EXCEPT !.verified = TRUE])
    /\ UNCHANGED <<tenants, letters, spent, working>>

SetRole(p, role) ==
    /\ Has(p)
    /\ accounts[p].role = "owner" /\ role # "owner" => AnotherOwner(p)
    /\ Becomes(p, [accounts[p] EXCEPT !.role = role])
    /\ UNCHANGED <<tenants, letters, spent, working>>

Dismiss(p) ==
    /\ Has(p)
    /\ accounts[p].role = "owner" => AnotherOwner(p)
    /\ Becomes(p, Vacant)
    /\ EndSessions(p)
    /\ UNCHANGED <<tenants, letters, spent>>

-----------------------------------------------------------------------------
(* A letter is new.  An invite is to a tenant that was founded and goes to *)
(* somebody without an account, any other to somebody about their own.     *)
Posted(letter) ==
    /\ \A other \in letters : other.jti # letter.jti
    /\ IF letter.type = "invite"
         THEN ~ Has(letter.sub) /\ letter.tenant \in tenants
         ELSE Has(letter.sub) /\ letter.tenant = accounts[letter.sub].tenant
    /\ letters' = letters \cup {letter}

Opened(session) ==
    /\ Has(session.sub)
    /\ session.tenant = accounts[session.sub].tenant
    /\ session.hash = accounts[session.sub].hash
    /\ \A other \in working : other.family # session.family
    /\ working' = working \cup {session}

Send(letter) ==
    /\ Posted(letter)
    /\ UNCHANGED <<accounts, tenants, spent, working>>

SignIn(session) ==
    /\ Opened(session)
    /\ UNCHANGED <<accounts, tenants, letters, spent>>

(* Who founds a tenant is signed in, and asked to confirm their address.   *)
Welcome(letter, session) ==
    /\ letter.type = "email_verification" /\ letter.sub = session.sub
    /\ Posted(letter)
    /\ Opened(session)
    /\ UNCHANGED <<accounts, tenants, spent>>

Revoke(letter) ==
    /\ letter \in letters
    /\ spent' = spent \cup {letter.jti}
    /\ UNCHANGED <<accounts, tenants, letters, working>>

-----------------------------------------------------------------------------
Next ==
    \/ \E p \in People :
         \/ Found(p, accounts'[p])
         \/ SetRole(p, accounts'[p].role)
         \/ Dismiss(p)
    \/ \E letter \in letters :
         \/ Join(letter, accounts'[letter.sub])
         \/ SetPassword(letter, accounts'[letter.sub].hash)
         \/ Confirm(letter)
         \/ Revoke(letter)
    \/ \E letter \in letters' :
         \/ Send(letter)
         \/ \E session \in working' : Welcome(letter, session)
    \/ \E session \in working' : SignIn(session)

Spec == Init /\ [][Next]_dvars
=============================================================================
