------------------------------ MODULE SolverPool ------------------------------
(***************************************************************************)
(* POST /verification/verify under load: requests on one event loop, the   *)
(* thread pool of the web framework, and the SolverPool of                 *)
(* formal_logic/solver_pool.py, which lets PoolSize threads solve at once. *)
(*                                                                         *)
(* The framework runs every dependency that is a plain function on a       *)
(* thread of the same pool, so a request to any other route needs a thread *)
(* too.  Threads are given out in any order: first come, first served is   *)
(* one of them.  Z3 is external: in a context of its own it answers what   *)
(* is true of what was asserted there (EPR.tla), or gives up for its time  *)
(* or its memory.  What was asserted is the clause under a label.          *)
(***************************************************************************)
EXTENDS Naturals, FiniteSets

Z == INSTANCE EPR

CONSTANTS
    Requests,
    ClauseOf,    \* request -> the clause to verify, or Other
    Other,       \* no clause: a request to another route
    Contexts,    \* the places for a z3.Context
    NoContext,
    Threads,     \* tokens of the framework's thread limiter
    PoolSize     \* settings.z3_pool_size

ASSUME SolverPoolAssumption ==
    /\ IsFiniteSet(Requests)
    /\ ClauseOf \in [Requests -> Z!Clause \cup {Other}]
    /\ NoContext \notin Contexts
    /\ IsFiniteSet(Contexts) => Cardinality(Contexts) >= PoolSize
    /\ Threads \in Nat \ {0}
    /\ PoolSize \in Nat \ {0}

VARIABLES
    stage,     \* request -> where it stands
    context,   \* request -> the z3.Context it solves in
    answer,    \* request -> its response
    free       \* value of SolverPool._semaphore

vars == <<stage, context, answer, free>>

Stages == {"new", "arrived", "queued", "waiting", "solving", "answered"}

Proof(satisfiable, core, timedOut) ==
    [kind |-> "proof", satisfiable |-> satisfiable, core |-> core, timedOut |-> timedOut]
Says(kind) == [kind |-> kind, satisfiable |-> FALSE, core |-> {}, timedOut |-> FALSE]

Sat == Proof(TRUE, {}, FALSE)
Unsat == Proof(FALSE, {"goal"}, FALSE)
GaveUp == Proof(FALSE, {}, TRUE)         \* unknown, and not for its time
TimedOut == Says("SolverTimeoutError")
Crashed == Says("Z3Exception")
Refused == Says("NotEPRFragmentError")
Served == Says("served")                 \* what another route answers
Silence == Says("none")

Outcomes == {Sat, Unsat, GaveUp, TimedOut, Crashed}

-----------------------------------------------------------------------------
(* What is asked, and what Z3 finds.                                       *)

Clauses == {r \in Requests : ClauseOf[r] # Other}

Compiling == {r \in Clauses : Z!Compiles(ClauseOf[r])}

\* A connective without operands goes to the context of the process, or to
\* none: what comes of it is undefined.
Sane == {r \in Compiling : ~ Z!HasHole(ClauseOf[r])}

\* The label of assert_and_track is a Bool, and so is a predicate without
\* arguments: of one name they are one constant.
NamesTheLabel(clause) == Z!Atom("goal", <<>>) \in Z!AtomsOf(clause.matrix)

\* The clause has a model in which its label is true.
Provable ==
    {r \in Sane : \E true \in Z!Interpretations(ClauseOf[r]) :
        /\ NamesTheLabel(ClauseOf[r]) => <<>> \in true["goal"]
        /\ Z!IsModel(ClauseOf[r], true)}

Satisfiable == {r \in Sane : Z!Satisfiable(ClauseOf[r])}

-----------------------------------------------------------------------------
Init ==
    /\ stage = [r \in Requests |-> "new"]
    /\ context = [r \in Requests |-> NoContext]
    /\ answer = [r \in Requests |-> Silence]
    /\ free = PoolSize

Solving == {r \in Requests : stage[r] = "solving"}
Busy == {r \in Requests : stage[r] \in {"waiting", "solving"}}

ThreadIsFree == Cardinality(Busy) < Threads

Move(r, where) == stage' = [stage EXCEPT ![r] = where]

Respond(r, what) ==
    /\ Move(r, "answered")
    /\ answer' = [answer EXCEPT ![r] = what]

-----------------------------------------------------------------------------
Arrive(r) ==
    /\ stage[r] = "new"
    /\ Move(r, "arrived")
    /\ UNCHANGED <<context, answer, free>>

\* A thread runs get_solver_pool, or what another route depends on, and is
\* given back; the event loop goes on to compile the clause.
ResolveDependencies(r) ==
    /\ stage[r] = "arrived" /\ ThreadIsFree
    /\ CASE r \notin Clauses -> Respond(r, Served)
         [] r \in Clauses \ Compiling -> Respond(r, Refused)
         [] OTHER -> Move(r, "queued") /\ UNCHANGED answer
    /\ UNCHANGED <<context, free>>

\* run_in_threadpool(solver_pool.check, formula)
StartCheck(r) ==
    /\ stage[r] = "queued" /\ ThreadIsFree
    /\ Move(r, "waiting")
    /\ UNCHANGED <<context, answer, free>>

\* Mutant: the default context of Z3, one for the process.
SharedContext(r) == {CHOOSE c \in Contexts : TRUE}

\* z3.Context(): a place that no context in use has.
FreshContexts(r) == Contexts \ {context[q] : q \in Solving}

\* The thread has its slot, and makes the context and the solver.
EnterSlot(r) ==
    /\ stage[r] = "waiting" /\ free > 0
    /\ free' = free - 1
    /\ Move(r, "solving")
    /\ \E c \in FreshContexts(r) : context' = [context EXCEPT ![r] = c]
    /\ UNCHANGED answer

Intruded(r) == \E q \in Solving \ {r} : context[q] = context[r]

OutcomesOf(r) ==
    IF Intruded(r) \/ r \notin Sane THEN Outcomes
    ELSE {IF r \in Provable THEN Sat ELSE Unsat, GaveUp, TimedOut, Crashed}

\* Mutant: the slot is given back after a result only, not in a finally.
ReleasedAfterResult(outcome) == IF outcome.kind = "proof" THEN free + 1 ELSE free

Released(outcome) == free + 1

\* The solver is done; check returns or raises, and the slot, the thread and
\* the context are given back.
LeaveSlot(r) ==
    /\ stage[r] = "solving"
    /\ \E outcome \in OutcomesOf(r) :
          /\ Respond(r, outcome)
          /\ free' = Released(outcome)
    /\ context' = [context EXCEPT ![r] = NoContext]

Next ==
    \E r \in Requests :
        \/ Arrive(r) \/ ResolveDependencies(r) \/ StartCheck(r)
        \/ EnterSlot(r) \/ LeaveSlot(r)

\* Z3 keeps to its timeout, and neither the loop nor a lock forgets a waiter.
Spec ==
    /\ Init /\ [][Next]_vars
    /\ \A r \in Requests : WF_vars(ResolveDependencies(r) \/ StartCheck(r)
                                     \/ EnterSlot(r) \/ LeaveSlot(r))

-----------------------------------------------------------------------------
TypeOK ==
    /\ stage \in [Requests -> Stages]
    /\ context \in [Requests -> Contexts \cup {NoContext}]
    /\ answer \in [Requests -> Outcomes \cup {Refused, Served, Silence}]
    /\ free \in 0..PoolSize

(* Whatever else is being solved, a verdict is the truth about the clause  *)
(* of its own request, and only what does not compile is refused           *)
(* (solver_pool.py, module docstring).  There are two exceptions: a clause *)
(* with an empty connective may be told anything, and one with a predicate *)
(* that is called like the label may be told it is unsatisfiable when only *)
(* its models without that predicate are (solver_pool.py:157-158).         *)
VerdictsAreSound ==
    \A r \in Clauses : stage[r] = "answered" =>
        /\ answer[r] = Refused <=> r \notin Compiling
        /\ r \in Sane =>
              /\ answer[r] = Sat => r \in Satisfiable
              /\ answer[r] = Unsat => r \notin Satisfiable \/ NamesTheLabel(ClauseOf[r])
              /\ answer[r].satisfiable <=> answer[r] = Sat
              /\ answer[r].core # {} <=> answer[r] = Unsat

(* Every request is answered, the ones to other routes too, although a     *)
(* check that waits for a slot keeps its thread: no slot is lost, however  *)
(* a check ends (_slot).                                                   *)
EveryRequestIsAnswered ==
    \A r \in Requests : stage[r] = "arrived" ~> stage[r] = "answered"

(* The bounds the pool is for: at most PoolSize checks run at once, on at  *)
(* most Threads threads.                                                   *)
BoundsHold == Cardinality(Solving) <= PoolSize /\ Cardinality(Busy) <= Threads
=============================================================================
