----------------------------- MODULE MCSolverPool -----------------------------
EXTENDS SolverPool, TLC

CONSTANTS r1, r2, r3, r4, r5, r6

\* A sentence about nothing but the parts of its matrix.
Sentence(domain, matrix) ==
    [exists |-> <<>>, forall |-> <<>>, domain |-> domain, matrix |-> matrix]

\* Satisfiable, unsatisfiable, satisfiable without its label only, empty, not
\* of the fragment; and a request to another route.  More checks than threads,
\* more threads than slots.
MCClauseOf ==
    LET open == Z!Atom("open", <<>>)
        goal == Z!Atom("goal", <<>>)
    IN r1 :> Sentence(<<"a">>, <<open>>)
         @@ r2 :> Sentence(<<"a">>, <<open, Z!Not(1), Z!And(<<1, 2>>)>>)
         @@ r3 :> Sentence(<<"a">>, <<goal, Z!Not(1)>>)
         @@ r4 :> Sentence(<<"a">>, <<Z!And(<<>>)>>)
         @@ r5 :> Sentence(<<>>, <<open>>)
         @@ r6 :> Other
=============================================================================
