---------------------------------- MODULE EPR ----------------------------------
(***************************************************************************)
(* Formulas of the decidable fragment: what epr_compiler.py accepts, and   *)
(* what it means.  Z3 itself is external: a formula means what logic says  *)
(* it means.                                                               *)
(***************************************************************************)
EXTENDS Naturals, Sequences, Functions, TLC

Constant(n) == [kind |-> "constant", name |-> n]
Variable(n) == [kind |-> "variable", name |-> n]
Atom(p, args) == [op |-> "atom", predicate |-> p, args |-> args]
Not(f) == [op |-> "not", of |-> <<f>>]
And(fs) == [op |-> "and", of |-> fs]
Or(fs) == [op |-> "or", of |-> fs]
Implies(f, g) == [op |-> "implies", of |-> <<f, g>>]

Term == [kind : {"constant", "variable"}, name : STRING]

Atomic == [op : {"atom"}, predicate : STRING, args : Seq(Term)]

Connective == [op : {"not", "and", "or", "implies"}, of : Seq(Nat)]

\* A formula lists its parts, operands before the connective that takes them
\* by their places, and itself last.  A connective without operands passes
\* every check.
Formula ==
    {f \in Seq(Atomic \cup Connective) :
        /\ f # <<>>
        /\ \A k \in DOMAIN f : f[k].op # "atom" => Range(f[k].of) \subseteq 1..k - 1}

Clause ==
    [exists : Seq(STRING), forall : Seq(STRING), domain : Seq(STRING), matrix : Formula]

AtomsOf(f) == {f[k] : k \in {j \in DOMAIN f : f[j].op = "atom"}}

Predicates(r) == {a.predicate : a \in AtomsOf(r.matrix)}

Bound(r) == Range(r.exists) \cup Range(r.forall)

\* A connective somewhere has no operands.
HasHole(r) == \E k \in DOMAIN r.matrix : r.matrix[k].op # "atom" /\ r.matrix[k].of = <<>>

-----------------------------------------------------------------------------
(* compile_epr_formula.                                                    *)

MaxDomainSize == 10000

DomainIsFinite(r) == Len(r.domain) \in 1..MaxDomainSize /\ IsInjective(r.domain)

EachVariableOnce(r) == IsInjective(r.exists \o r.forall)

TermsAreKnown(r) ==
    \A a \in AtomsOf(r.matrix) : \A t \in Range(a.args) :
        t.name \in IF t.kind = "variable" THEN Bound(r) ELSE Range(r.domain)

AritiesAgree(r) ==
    \A a, b \in AtomsOf(r.matrix) :
        a.predicate = b.predicate => Len(a.args) = Len(b.args)

Compiles(r) ==
    DomainIsFinite(r) /\ EachVariableOnce(r) /\ TermsAreKnown(r) /\ AritiesAgree(r)

-----------------------------------------------------------------------------
(* What a compiled formula means: its domain has no other members, its     *)
(* constants name themselves, and SolverPool.check binds the variables.    *)

Value(t, binding) == IF t.kind = "constant" THEN t.name ELSE binding[t.name]

Holds(f, true, binding) ==
    LET holds[k \in 1..Len(f)] ==
          LET Operand(i) == holds[f[k].of[i]] IN
          CASE f[k].op = "atom" ->
                 [i \in DOMAIN f[k].args |-> Value(f[k].args[i], binding)]
                     \in true[f[k].predicate]
            [] f[k].op = "not" -> ~Operand(1)
            [] f[k].op = "and" -> \A i \in DOMAIN f[k].of : Operand(i)
            [] f[k].op = "or" -> \E i \in DOMAIN f[k].of : Operand(i)
            [] f[k].op = "implies" -> Operand(1) => Operand(2)
    IN holds[Len(f)]

\* Predicate -> the tuples of which it is true.
Interpretations(r) ==
    LET tuples == UNION {[1..Len(a.args) -> Range(r.domain)] : a \in AtomsOf(r.matrix)}
    IN [Predicates(r) -> SUBSET tuples]

IsModel(r, true) ==
    \E some \in [Range(r.exists) -> Range(r.domain)] :
      \A all \in [Range(r.forall) -> Range(r.domain)] : Holds(r.matrix, true, all @@ some)

Satisfiable(r) == \E true \in Interpretations(r) : IsModel(r, true)
=================================================================================
