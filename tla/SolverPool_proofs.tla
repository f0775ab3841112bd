--------------------------- MODULE SolverPool_proofs ---------------------------
(***************************************************************************)
(* The pool for any number of requests, threads and slots.  The invariant  *)
(* counts: a slot is free or somebody solves in it.  Verdicts are sound,   *)
(* but for the label of the clause, because a solve that begins takes a    *)
(* place no other solve has, and nobody enters it before it ends.          *)
(***************************************************************************)
EXTENDS SolverPool, FiniteSetTheorems, TLAPS

SlotsAreCounted == free + Cardinality(Solving) = PoolSize

ThreadsAreCounted == Cardinality(Busy) <= Threads

OwnContexts ==
    \A r \in Solving :
        /\ context[r] \in Contexts
        /\ \A q \in Solving \ {r} : context[q] # context[r]

OnlyFormulasAreChecked ==
    \A r \in Requests : stage[r] \in {"queued", "waiting", "solving"} => r \in Compiling

PoolInv ==
    /\ TypeOK
    /\ SlotsAreCounted
    /\ ThreadsAreCounted
    /\ OwnContexts
    /\ OnlyFormulasAreChecked
    /\ VerdictsAreSound

USE SolverPoolAssumption

(* The outcomes of a check and the other answers are told apart by their   *)
(* fields.                                                                 *)
LEMMA AnswersDiffer ==
    /\ Sat.satisfiable /\ Sat.core = {}
    /\ ~Unsat.satisfiable /\ Unsat.core # {}
    /\ \A a \in {GaveUp, TimedOut, Crashed, Refused, Served, Silence} :
          ~a.satisfiable /\ a.core = {}
    /\ \A a \in {Sat, Unsat, GaveUp, TimedOut, Crashed, Served} : a # Refused
  <1>1. {"goal"} # {}
    OBVIOUS
  <1>2. QED
    BY <1>1 DEF Sat, Unsat, GaveUp, TimedOut, Crashed, Refused, Served, Silence, Proof, Says

(* Those who solve and those who keep a thread are finitely many.          *)
LEMMA FiniteCrowds ==
    /\ IsFiniteSet(Solving) /\ IsFiniteSet(Busy) /\ Solving \subseteq Busy
    /\ Cardinality(Solving) \in Nat /\ Cardinality(Busy) \in Nat
  <1>1. Solving \subseteq Requests /\ Busy \subseteq Requests /\ Solving \subseteq Busy
    BY DEF Solving, Busy
  <1>2. QED
    BY <1>1, FS_Subset, FS_CardinalityType

LEMMA PoolInit == Init => PoolInv
  <1> SUFFICES ASSUME Init PROVE PoolInv
    OBVIOUS
  <1>1. TypeOK
    BY DEF Init, TypeOK, Stages
  <1>2. Solving = {} /\ Busy = {}
    BY DEF Init, Solving, Busy
  <1>3. SlotsAreCounted /\ ThreadsAreCounted
    BY <1>2, FS_EmptySet DEF Init, SlotsAreCounted, ThreadsAreCounted
  <1>4. OwnContexts /\ OnlyFormulasAreChecked /\ VerdictsAreSound
    BY <1>2 DEF Init, OwnContexts, OnlyFormulasAreChecked, VerdictsAreSound, Clauses
  <1>5. QED
    BY <1>1, <1>3, <1>4 DEF PoolInv

(* The only model a label costs is one in which a predicate of its name is *)
(* false.                                                                  *)
LEMMA TheLabelIsAllThatCosts ==
    /\ Provable \subseteq Satisfiable
    /\ \A r \in Satisfiable \ Provable : NamesTheLabel(ClauseOf[r])
  BY DEF Provable, Satisfiable, Z!Satisfiable

(* A solve alone in its context comes to a true verdict, or to none.       *)
LEMMA SolvesAlone ==
    ASSUME PoolInv, NEW r \in Requests, stage[r] = "solving", r \in Sane,
           NEW outcome \in OutcomesOf(r)
    PROVE  /\ outcome = Sat => r \in Satisfiable
           /\ outcome = Unsat => r \notin Satisfiable \/ NamesTheLabel(ClauseOf[r])
  <1>1. ~Intruded(r)
    BY DEF PoolInv, OwnContexts, Solving, Intruded
  <1>2. outcome \in {IF r \in Provable THEN Sat ELSE Unsat, GaveUp, TimedOut, Crashed}
    BY <1>1 DEF OutcomesOf
  <1>3. Sat # Unsat
    BY AnswersDiffer
  <1>4. GaveUp \notin {Sat, Unsat} /\ TimedOut \notin {Sat, Unsat} /\ Crashed \notin {Sat, Unsat}
    BY AnswersDiffer
  <1>5. QED
    BY <1>2, <1>3, <1>4, TheLabelIsAllThatCosts

LEMMA PoolStep == PoolInv /\ [Next]_vars => PoolInv'
  <1> SUFFICES ASSUME PoolInv, [Next]_vars PROVE PoolInv'
    OBVIOUS
  <1> USE DEF PoolInv
  <1>0. /\ Cardinality(Solving) \in Nat /\ Cardinality(Busy) \in Nat
        /\ IsFiniteSet(Solving) /\ IsFiniteSet(Busy)
    BY FiniteCrowds
  <1>1. CASE UNCHANGED vars
    BY <1>1 DEF vars, TypeOK, SlotsAreCounted, ThreadsAreCounted, OwnContexts,
                OnlyFormulasAreChecked, VerdictsAreSound, Solving, Busy
  <1>2. ASSUME NEW r \in Requests, Arrive(r) PROVE PoolInv'
    <2>1. Solving' = Solving /\ Busy' = Busy
      BY <1>2 DEF Arrive, Move, Solving, Busy, TypeOK
    <2>2. TypeOK'
      BY <1>2 DEF Arrive, Move, TypeOK, Stages
    <2>3. (SlotsAreCounted /\ ThreadsAreCounted /\ OwnContexts)'
      BY <1>2, <2>1 DEF Arrive, SlotsAreCounted, ThreadsAreCounted, OwnContexts
    <2>4. (OnlyFormulasAreChecked /\ VerdictsAreSound)'
      BY <1>2 DEF Arrive, Move, OnlyFormulasAreChecked, VerdictsAreSound, TypeOK
    <2>5. QED
      BY <2>2, <2>3, <2>4
  <1>3. ASSUME NEW r \in Requests, ResolveDependencies(r) PROVE PoolInv'
    <2>1. Solving' = Solving /\ Busy' = Busy
      BY <1>3 DEF ResolveDependencies, Respond, Move, Solving, Busy, TypeOK
    <2>2. TypeOK'
      BY <1>3 DEF ResolveDependencies, Respond, Move, TypeOK, Stages
    <2>3. (SlotsAreCounted /\ ThreadsAreCounted /\ OwnContexts)'
      BY <1>3, <2>1 DEF ResolveDependencies, SlotsAreCounted, ThreadsAreCounted, OwnContexts
    <2>4. OnlyFormulasAreChecked'
      BY <1>3 DEF ResolveDependencies, Respond, Move, OnlyFormulasAreChecked, TypeOK
    <2>5. VerdictsAreSound'
      <3>1. CASE r \notin Clauses
        BY <1>3, <3>1 DEF ResolveDependencies, Respond, Move, VerdictsAreSound, TypeOK, Clauses
      <3>2. CASE r \in Clauses \ Compiling
        <4>1. answer' = [answer EXCEPT ![r] = Refused]
              /\ stage' = [stage EXCEPT ![r] = "answered"]
          BY <1>3, <3>2 DEF ResolveDependencies, Respond, Move
        <4>2. r \notin Sane
          BY <3>2 DEF Sane
        <4>3. QED
          BY <3>2, <4>1, <4>2 DEF VerdictsAreSound, TypeOK, Clauses
      <3>3. CASE r \in Compiling
        BY <1>3, <3>3 DEF ResolveDependencies, Move, VerdictsAreSound, TypeOK, Compiling, Clauses
      <3>4. QED
        BY <3>1, <3>2, <3>3
    <2>6. QED
      BY <2>2, <2>3, <2>4, <2>5
  <1>4. ASSUME NEW r \in Requests, StartCheck(r) PROVE PoolInv'
    <2>1. Solving' = Solving /\ r \notin Busy /\ Busy' = Busy \cup {r}
      BY <1>4 DEF StartCheck, Move, Solving, Busy, TypeOK
    <2>2. ThreadsAreCounted'
      <3>1. Cardinality(Busy') = Cardinality(Busy) + 1
        BY <1>0, <2>1, FS_AddElement
      <3>2. Cardinality(Busy) < Threads
        BY <1>4 DEF StartCheck, ThreadIsFree
      <3>3. QED
        BY <1>0, <3>1, <3>2 DEF ThreadsAreCounted
    <2>3. TypeOK'
      BY <1>4 DEF StartCheck, Move, TypeOK, Stages
    <2>4. (SlotsAreCounted /\ OwnContexts)'
      BY <1>4, <2>1 DEF StartCheck, SlotsAreCounted, OwnContexts
    <2>5. (OnlyFormulasAreChecked /\ VerdictsAreSound)'
      BY <1>4 DEF StartCheck, Move, OnlyFormulasAreChecked, VerdictsAreSound, TypeOK
    <2>6. QED
      BY <2>2, <2>3, <2>4, <2>5
  <1>5. ASSUME NEW r \in Requests, EnterSlot(r) PROVE PoolInv'
    <2>1. r \notin Solving /\ Solving' = Solving \cup {r} /\ Busy' = Busy
      BY <1>5 DEF EnterSlot, Move, Solving, Busy, TypeOK
    <2>2. SlotsAreCounted'
      <3>1. Cardinality(Solving') = Cardinality(Solving) + 1
        BY <1>0, <2>1, FS_AddElement
      <3>2. free' = free - 1 /\ free \in Nat
        BY <1>5 DEF EnterSlot, TypeOK
      <3>3. QED
        BY <1>0, <3>1, <3>2 DEF SlotsAreCounted
    <2>3. OwnContexts'
      <3>1. PICK c \in FreshContexts(r) : context' = [context EXCEPT ![r] = c]
        BY <1>5 DEF EnterSlot
      <3>2. c \in Contexts /\ \A q \in Solving : context[q] # c
        BY <3>1 DEF FreshContexts
      <3>3. context'[r] = c /\ \A q \in Solving : context'[q] = context[q]
        BY <2>1, <3>1 DEF TypeOK, Solving
      <3>4. QED
        BY <2>1, <3>2, <3>3 DEF OwnContexts
    <2>4. TypeOK'
      <3>1. PICK c \in Contexts : context' = [context EXCEPT ![r] = c]
        BY <1>5 DEF EnterSlot, FreshContexts
      <3>2. QED
        BY <1>5, <3>1 DEF EnterSlot, Move, TypeOK, Stages
    <2>5. ThreadsAreCounted'
      BY <1>5, <2>1 DEF EnterSlot, ThreadsAreCounted
    <2>6. (OnlyFormulasAreChecked /\ VerdictsAreSound)'
      BY <1>5 DEF EnterSlot, Move, OnlyFormulasAreChecked, VerdictsAreSound, TypeOK
    <2>7. QED
      BY <2>2, <2>3, <2>4, <2>5, <2>6
  <1>6. ASSUME NEW r \in Requests, LeaveSlot(r) PROVE PoolInv'
    <2>1. PICK outcome \in OutcomesOf(r) : Respond(r, outcome) /\ free' = free + 1
      BY <1>6 DEF LeaveSlot, Released
    <2>2. stage[r] = "solving" /\ context' = [context EXCEPT ![r] = NoContext]
      BY <1>6 DEF LeaveSlot
    <2>3. r \in Solving /\ Solving' = Solving \ {r} /\ r \in Busy /\ Busy' = Busy \ {r}
      BY <2>1, <2>2 DEF Respond, Move, Solving, Busy, TypeOK
    <2>4. Cardinality(Solving') = Cardinality(Solving) - 1
          /\ Cardinality(Busy') = Cardinality(Busy) - 1
      BY <1>0, <2>3, FS_RemoveElement
    <2>5. SlotsAreCounted' /\ ThreadsAreCounted'
      BY <1>0, <2>1, <2>4 DEF SlotsAreCounted, ThreadsAreCounted, TypeOK
    <2>6. free' \in 0..PoolSize
      <3>1. Cardinality(Solving') \in Nat
        BY <1>0, <2>3, FS_RemoveElement, FS_CardinalityType
      <3>2. QED
        BY <1>0, <2>1, <2>4, <3>1 DEF SlotsAreCounted, TypeOK
    <2>7. outcome \in Outcomes
      BY DEF OutcomesOf, Outcomes
    <2>8. TypeOK'
      BY <2>1, <2>2, <2>6, <2>7 DEF Respond, Move, TypeOK, Stages
    <2>9. OwnContexts' /\ OnlyFormulasAreChecked'
      <3>1. \A q \in Solving' : q \in Solving /\ context'[q] = context[q]
        BY <2>2, <2>3 DEF TypeOK, Solving
      <3>2. OwnContexts'
        BY <2>3, <3>1 DEF OwnContexts
      <3>3. QED
        BY <2>1, <3>2 DEF Respond, Move, OnlyFormulasAreChecked, TypeOK
    <2>10. VerdictsAreSound'
      <3>1. /\ stage' = [stage EXCEPT ![r] = "answered"]
            /\ answer' = [answer EXCEPT ![r] = outcome]
        BY <2>1 DEF Respond, Move
      <3>2. r \in Compiling
        BY <2>2 DEF OnlyFormulasAreChecked
      <3>3. outcome # Refused
        BY <2>7, AnswersDiffer DEF Outcomes
      <3>4. /\ outcome.satisfiable <=> outcome = Sat
            /\ outcome.core # {} <=> outcome = Unsat
        BY <2>7, AnswersDiffer DEF Outcomes
      <3>5. r \in Sane =>
              /\ outcome = Sat => r \in Satisfiable
              /\ outcome = Unsat => r \notin Satisfiable \/ NamesTheLabel(ClauseOf[r])
        BY <2>2, SolvesAlone
      <3>6. QED
        BY <3>1, <3>2, <3>3, <3>4, <3>5 DEF VerdictsAreSound, TypeOK, Clauses
    <2>11. QED
      BY <2>5, <2>8, <2>9, <2>10
  <1>7. QED
    BY <1>1, <1>2, <1>3, <1>4, <1>5, <1>6 DEF Next

(* The counting invariant holds of every run of the pool.                  *)
THEOREM PoolInvariantHolds == Spec => []PoolInv
  <1>1. Init => PoolInv
    BY PoolInit
  <1>2. PoolInv /\ [Next]_vars => PoolInv'
    BY PoolStep
  <1>3. QED
    BY <1>1, <1>2, PTL DEF Spec

(* A verdict is the truth about its own request, whatever else is being    *)
(* solved and however many threads and slots there are.                    *)
THEOREM SoundUnderLoad == Spec => []VerdictsAreSound
  <1>1. PoolInv => VerdictsAreSound
    BY DEF PoolInv
  <1>2. QED
    BY <1>1, PoolInvariantHolds, PTL

(* At most PoolSize checks run at once, on at most Threads threads.        *)
THEOREM PoolIsBounded == Spec => []BoundsHold
  <1>1. PoolInv => BoundsHold
    <2> SUFFICES ASSUME PoolInv PROVE BoundsHold
      OBVIOUS
    <2>1. Cardinality(Solving) \in Nat /\ free \in 0..PoolSize
      BY FiniteCrowds DEF PoolInv, TypeOK
    <2>2. QED
      BY <2>1 DEF PoolInv, SlotsAreCounted, ThreadsAreCounted, BoundsHold
  <1>2. QED
    BY <1>1, PoolInvariantHolds, PTL
=============================================================================
