-------------------------------- MODULE SmtText --------------------------------
(***************************************************************************)
(* The text that smt_generator.py keeps for the auditor of a formula of    *)
(* EPR, and what a reader of SMT-LIB makes of it.  Predicates, constants   *)
(* and variables are written as they are called, all in one name space: a  *)
(* name means its nearest binder, a quantifier before a declaration.       *)
(***************************************************************************)
EXTENDS EPR

\* The names that a reader takes for somebody's own: no word of the language
\* (not, true, let), nothing with a space or a parenthesis in it.
CONSTANT Symbols

\* An atom without arguments is its head alone.
Written(part) ==
    IF part.op = "atom"
    THEN [op |-> "atom", head |-> part.predicate,
          args |-> [i \in DOMAIN part.args |-> part.args[i].name]]
    ELSE part

\* Mutant: each quantifier binds the variables of the other.
SwapsQuantifiers(r) ==
    [exists |-> r.forall, forall |-> r.exists, domain |-> r.domain,
     matrix |-> [k \in DOMAIN r.matrix |-> Written(r.matrix[k])]]

\* generate_smt_lib2: the domain declares its members, and every atom its
\* head.
SmtLib2(r) ==
    [exists |-> r.exists, forall |-> r.forall, domain |-> r.domain,
     matrix |-> [k \in DOMAIN r.matrix |-> Written(r.matrix[k])]]

-----------------------------------------------------------------------------
(* The reader.                                                             *)

Heads(text) == {a.head : a \in AtomsOf(text.matrix)}

Resolve(text, n) ==
    IF n \in Bound(text) THEN Variable(n)
    ELSE IF n \in Range(text.domain) THEN Constant(n)
    ELSE [kind |-> "predicate", name |-> n]

\* Every name is a symbol and declared once, heads are predicates and their
\* arguments are not, and every connective has an operand.
Readable(text) ==
    /\ Bound(text) \cup Range(text.domain) \cup Heads(text) \subseteq Symbols
    /\ Heads(text) \cap Range(text.domain) = {}
    /\ \A a \in AtomsOf(text.matrix) :
          /\ Resolve(text, a.head).kind = "predicate"
          /\ \A n \in Range(a.args) : Resolve(text, n).kind # "predicate"
    /\ ~ HasHole(text)

Understood(text, part) ==
    IF part.op = "atom"
    THEN Atom(part.head, [i \in DOMAIN part.args |-> Resolve(text, part.args[i])])
    ELSE part

ReadBack(text) ==
    [exists |-> text.exists, forall |-> text.forall, domain |-> text.domain,
     matrix |-> [k \in DOMAIN text.matrix |-> Understood(text, text.matrix[k])]]

-----------------------------------------------------------------------------
(* What the compiler lets through and the text does not survive.  A clause *)
(* of which the text is no SMT-LIB: a name is not a symbol, a predicate is *)
(* called like a variable or a member of the domain, or a connective has   *)
(* no operands.                                                            *)

HasNoText(r) ==
    \/ ~ (Bound(r) \cup Range(r.domain) \cup Predicates(r) \subseteq Symbols)
    \/ Predicates(r) \cap (Bound(r) \cup Range(r.domain)) # {}
    \/ HasHole(r)

\* A clause of which the text says something else: a variable has the name
\* of a constant, and captures it.
Captures(r) == Bound(r) \cap Range(r.domain) # {}
=============================================================================
