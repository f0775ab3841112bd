--------------------------- MODULE ConsentRegister ---------------------------
(***************************************************************************)
(* What the consent gate promises to a tenant, whatever happens to the     *)
(* log: the standing that was last acknowledged is the one enforced, now   *)
(* and after every restart.  Only a change whose caller got an error may   *)
(* still surface at a restart, and only until the next change goes well.   *)
(***************************************************************************)
EXTENDS Naturals

CONSTANTS Parties, Standings, Unaccepted

VARIABLES standing,     \* party -> what the gate enforces
          doubtful,     \* changes that failed, and may still surface
          serving       \* the gate answers

rvars == <<standing, doubtful, serving>>

Changes == [party : Parties, value : Standings]

Init ==
    /\ standing = [p \in Parties |-> Unaccepted]
    /\ doubtful = {}
    /\ serving = TRUE

Change(p, v) ==
    /\ serving
    /\ standing' = [standing EXCEPT ![p] = v]
    /\ doubtful' = {}
    /\ UNCHANGED serving

ChangeFails(c) ==
    /\ serving
    /\ doubtful' \subseteq doubtful \cup {c}
    /\ UNCHANGED <<standing, serving>>

(* The log moves on without a change of standing.                          *)
Settle ==
    /\ serving
    /\ doubtful' \subseteq doubtful
    /\ UNCHANGED <<standing, serving>>

Stop ==
    /\ serving
    /\ serving' = FALSE
    /\ UNCHANGED <<standing, doubtful>>

Restart ==
    /\ ~ serving
    /\ serving' = TRUE
    /\ doubtful' = {}
    /\ \E D \in SUBSET doubtful :
         /\ \A c, d \in D : c.party = d.party => c = d
         /\ standing' = [p \in Parties |->
               IF \E c \in D : c.party = p
                 THEN (CHOOSE c \in D : c.party = p).value
                 ELSE standing[p]]

Next ==
    \/ \E p \in Parties, v \in Standings : Change(p, v)
    \/ \E c \in Changes : ChangeFails(c)
    \/ Settle
    \/ Stop
    \/ Restart

Spec == Init /\ [][Next]_rvars
=============================================================================
