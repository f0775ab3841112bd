--------------------------- MODULE SessionAuthority ---------------------------
(***************************************************************************)
(* What login sessions promise, with no token and no log in sight.         *)
(*                                                                         *)
(* A session belongs to one subject from the moment it is opened.  At any  *)
(* moment it has at most one live credential, the refresh credential that  *)
(* can be exchanged for the next one.  Credentials are never handed out    *)
(* twice.  Sessions are closed in groups that belong to one subject, and a *)
(* closed session has no live credential and never gets another one.       *)
(***************************************************************************)
EXTENDS Naturals

CONSTANTS Holders, SessionIds

VARIABLES sessionsOf,   \* the sessions each subject ever opened
          closed,       \* the sessions that have been closed
          live,         \* session -> its live credential, {} or a singleton
          issued        \* no credential above this one was ever handed out

avars == <<sessionsOf, closed, live, issued>>

Init ==
    /\ sessionsOf = [s \in Holders |-> {}]
    /\ closed = {}
    /\ live = [f \in SessionIds |-> {}]
    /\ issued = 0

(* A new credential is above every credential handed out before.           *)
HandOut(f) ==
    /\ issued' > issued
    /\ live' = [live EXCEPT ![f] = {issued'}]

Open(s, f) ==
    /\ \A h \in Holders : f \notin sessionsOf[h]
    /\ sessionsOf' = [sessionsOf EXCEPT ![s] = @ \cup {f}]
    /\ HandOut(f)
    /\ UNCHANGED closed

Rotate(f) ==
    /\ live[f] # {}
    /\ HandOut(f)
    /\ UNCHANGED <<sessionsOf, closed>>

(* The live credential expires or is revoked; the session is not closed.   *)
Lapse(f) ==
    /\ live' = [live EXCEPT ![f] = {}]
    /\ UNCHANGED <<sessionsOf, closed, issued>>

Close(F) ==
    /\ closed' = closed \cup F
    /\ live' = [f \in SessionIds |-> IF f \in F THEN {} ELSE live[f]]
    /\ UNCHANGED <<sessionsOf, issued>>

(* Numbers may be used up by tokens that are no refresh credential.        *)
Skip ==
    /\ issued' > issued
    /\ UNCHANGED <<sessionsOf, closed, live>>

Next ==
    \/ \E s \in Holders, f \in SessionIds : Open(s, f)
    \/ \E f \in SessionIds : Rotate(f) \/ Lapse(f)
    \/ \E s \in Holders : \E F \in SUBSET sessionsOf[s] : Close(F)
    \/ Skip

Spec == Init /\ [][Next]_avars
=============================================================================
