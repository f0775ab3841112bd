----------------------------- MODULE StatuteIndex -----------------------------
(***************************************************************************)
(* Where a statute goes when POST /graph/statutes takes it: the graph and  *)
(* the vector index of its tenant, which the TenantIndexRegistry builds on *)
(* first use, and the StatuteRepository, which is what a restart rebuilds  *)
(* them from.                                                              *)
(*                                                                         *)
(* FastAPI runs the synchronous dependencies get_graph_service and         *)
(* get_vector_index in a thread pool, so the lines of graph_for and        *)
(* vector_for interleave.  Handlers run on the event loop, up to the await *)
(* of the repository.                                                      *)
(*                                                                         *)
(* instances[slot][t] are the objects ever installed for a tenant, in that *)
(* order: the registry holds the last, the others only requests still have.*)
(* An index is the set of statutes in it; the graph's edges are in module  *)
(* StatuteGraph.                                                           *)
(***************************************************************************)
EXTENDS SequencesExt

CONSTANTS Tenants,
          Workers,            \* requests in progress at the same time
          MaxStatutes,        \* bound: statutes ever submitted
          MaxWriteFailures    \* bound: repository writes that raise

ASSUME IndexConstants ==
    /\ MaxStatutes \in Nat /\ MaxWriteFailures \in Nat

VARIABLES
    sqlBackend,   \* settings.statute_backend = "sql", for good
    up,           \* the lifespan of the application is past its start-up
    instances,    \* slot -> tenant -> the instances installed, oldest first
    rows,         \* the statute repository
    requests,     \* what each worker is doing
    nextStatute,  \* supply of statute ids
    failed        \* history: statutes whose write raised, since the last start

vars == <<sqlBackend, up, instances, rows, requests, nextStatute, failed>>

Slots == {"graph", "vector"}

(* The indexes a request asks for, in the order of its parameters.         *)
SlotsOf(kind) ==
    [add |-> <<"graph", "vector">>, preemption |-> <<"graph">>, search |-> <<"vector">>][kind]

RequestKinds == {"add", "preemption", "search"}

StatuteRow == [id : Nat, tenant : Tenants]

(* `slots` are the dependencies to resolve, `got` the instances resolved.  *)
NoStatute == [id |-> 0, tenant |-> "none"]

Idle == [kind |-> "none", pc |-> "idle", slots |-> <<>>, got |-> <<>>,
         statute |-> NoStatute]

RequestSet ==
    [kind : RequestKinds \cup {"none"},
     pc : {"idle", "look", "build", "take", "handle", "write"},
     slots : Seq(Slots), got : Seq(Nat), statute : StatuteRow \cup {NoStatute}]

TypeOK ==
    /\ sqlBackend \in BOOLEAN
    /\ up \in BOOLEAN
    /\ instances \in [Slots -> [Tenants -> Seq(SUBSET StatuteRow)]]
    /\ rows \subseteq StatuteRow
    /\ requests \in [Workers -> RequestSet]
    /\ nextStatute \in Nat
    /\ failed \subseteq StatuteRow

Empty == [slot \in Slots |-> [t \in Tenants |-> <<>>]]

RowsOf(t) == {r \in rows : r.tenant = t}

Init ==
    /\ sqlBackend \in BOOLEAN
    /\ up = TRUE
    /\ instances = Empty
    /\ rows = {}
    /\ requests = [w \in Workers |-> Idle]
    /\ nextStatute = 1
    /\ failed = {}

-----------------------------------------------------------------------------
Becomes(w, r) == requests' = [requests EXCEPT ![w] = r]

(* A request of tenant t; a new statute gets its id when it is submitted.  *)
Arrive(w, kind, t) ==
    /\ up
    /\ requests[w] = Idle
    /\ kind = "add" => nextStatute <= MaxStatutes
    /\ nextStatute' = IF kind = "add" THEN nextStatute + 1 ELSE nextStatute
    /\ Becomes(w, [kind |-> kind, pc |-> "look", slots |-> SlotsOf(kind), got |-> <<>>,
                   statute |-> [id |-> nextStatute, tenant |-> t]])
    /\ UNCHANGED <<sqlBackend, up, instances, rows, failed>>

(* graph_for, vector_for: is the tenant in the dictionary?                 *)
Look(w) ==
    LET r == requests[w]
    IN  /\ r.pc = "look"
        /\ Becomes(w, [r EXCEPT !.pc =
               IF instances[Head(r.slots)][r.statute.tenant] = <<>> THEN "build" ELSE "take"])
        /\ UNCHANGED <<sqlBackend, up, instances, rows, nextStatute, failed>>

(* The assignment of a new instance.                                       *)
Build(w) ==
    LET r == requests[w]
    IN  /\ r.pc = "build"
        /\ instances' = [instances EXCEPT ![Head(r.slots)][r.statute.tenant] = Append(@, {})]
        /\ Becomes(w, [r EXCEPT !.pc = "take"])
        /\ UNCHANGED <<sqlBackend, up, rows, nextStatute, failed>>

(* The lookup that is returned; then the next dependency, or the handler.  *)
Take(w) ==
    LET r == requests[w]
    IN  /\ r.pc = "take"
        /\ Becomes(w, [r EXCEPT
               !.slots = Tail(@),
               !.got = Append(@, Len(instances[Head(r.slots)][r.statute.tenant])),
               !.pc = IF Len(r.slots) = 1 THEN "handle" ELSE "look"])
        /\ UNCHANGED <<sqlBackend, up, instances, rows, nextStatute, failed>>

(* Mutant: the vector index is left to somebody else.                      *)
IndexedInGraphOnly(r) ==
    [instances EXCEPT !["graph"][r.statute.tenant][r.got[1]] = @ \cup {r.statute}]

Indexed(r) ==
    [slot \in Slots |-> [instances[slot] EXCEPT
        ![r.statute.tenant][r.got[IF slot = "graph" THEN 1 ELSE 2]] = @ \cup {r.statute}]]

(* POST /graph/statutes: both indexes, then the repository, which suspends *)
(* if it is the SQL one.                                                   *)
AddStatute(w) ==
    LET r == requests[w]
    IN  /\ r.pc = "handle" /\ r.kind = "add"
        /\ instances' = Indexed(r)
        /\ \/ /\ sqlBackend
              /\ Becomes(w, [r EXCEPT !.pc = "write"])
              /\ UNCHANGED rows
           \/ /\ ~ sqlBackend
              /\ Becomes(w, Idle)
              /\ rows' = rows \cup {r.statute}
        /\ UNCHANGED <<sqlBackend, up, nextStatute, failed>>

(* GET /graph/preemption/{entity}, POST /graph/search.                     *)
AnswerQuery(w) ==
    /\ requests[w].pc = "handle" /\ requests[w].kind \in {"preemption", "search"}
    /\ Becomes(w, Idle)
    /\ UNCHANGED <<sqlBackend, up, instances, rows, nextStatute, failed>>

WriteRow(w) ==
    /\ requests[w].pc = "write"
    /\ rows' = rows \cup {requests[w].statute}
    /\ Becomes(w, Idle)
    /\ UNCHANGED <<sqlBackend, up, instances, nextStatute, failed>>

(* The write raises: 500, and the statute stays in both indexes.           *)
WriteFails(w) ==
    /\ requests[w].pc = "write"
    /\ Cardinality(failed) < MaxWriteFailures
    /\ failed' = failed \cup {requests[w].statute}
    /\ Becomes(w, Idle)
    /\ UNCHANGED <<sqlBackend, up, instances, rows, nextStatute>>

(* The process dies.  A commit on its way may have reached the database.   *)
Crash ==
    /\ up
    /\ up' = FALSE
    /\ instances' = Empty
    /\ requests' = [w \in Workers |-> Idle]
    /\ failed' = {}
    /\ \/ /\ sqlBackend
          /\ \E W \in SUBSET {w \in Workers : requests[w].pc = "write"} :
               rows' = rows \cup {requests[w].statute : w \in W}
       \/ ~ sqlBackend /\ rows' = {}
    /\ UNCHANGED <<sqlBackend, nextStatute>>

(* Mutants: all rows go to every tenant; the vector index is not rebuilt.  *)
HydratedWithoutTenant(slot, t) == IF RowsOf(t) = {} THEN <<>> ELSE <<rows>>
HydratedGraphOnly(slot, t) ==
    IF RowsOf(t) = {} \/ slot = "vector" THEN <<>> ELSE <<RowsOf(t)>>

(* hydrate_indexes, for the tenants that have statutes on record.          *)
Hydrated(slot, t) == IF RowsOf(t) = {} THEN <<>> ELSE <<RowsOf(t)>>

Start ==
    /\ ~ up
    /\ up' = TRUE
    /\ instances' = [slot \in Slots |-> [t \in Tenants |-> Hydrated(slot, t)]]
    /\ UNCHANGED <<sqlBackend, rows, requests, nextStatute, failed>>

Next ==
    \/ \E w \in Workers, kind \in RequestKinds, t \in Tenants : Arrive(w, kind, t)
    \/ \E w \in Workers : Look(w) \/ Build(w) \/ Take(w)
    \/ \E w \in Workers : AddStatute(w) \/ AnswerQuery(w) \/ WriteRow(w) \/ WriteFails(w)
    \/ Crash
    \/ Start

Spec == Init /\ [][Next]_vars

-----------------------------------------------------------------------------
InFlight(t) ==
    {requests[w].statute : w \in {v \in Workers :
        requests[v].pc = "write" /\ requests[v].statute.tenant = t}}

FailedOf(t) == {r \in failed : r.tenant = t}

Submitted(t) == RowsOf(t) \cup InFlight(t) \cup FailedOf(t)

(***************************************************************************)
(* Each index of a tenant holds what the repository holds (hydration.py),  *)
(* with the statutes on their way there and those whose write raised, as   *)
(* long as only one instance was installed for it.                         *)
(***************************************************************************)
IndexesMatchTheRepository ==
    up => \A slot \in Slots, t \in Tenants :
        /\ Len(instances[slot][t]) = 0 => Submitted(t) = {}
        /\ Len(instances[slot][t]) = 1 => instances[slot][t][1] = Submitted(t)

(***************************************************************************)
(* Two requests that come first at the same time may install one instance  *)
(* each.  That is the only way an index misses a durable statute: it is in *)
(* the graph some request held, through restarts and failed writes.        *)
(***************************************************************************)
MissingOnlyByReplacement ==
    up => \A slot \in Slots, row \in rows :
        \E i \in 1..Len(instances[slot][row.tenant]) : row \in instances[slot][row.tenant][i]

(***************************************************************************)
(* No index of a tenant ever holds a statute of another, not even one that *)
(* has been replaced (tenant_registry.py:8-15).                            *)
(***************************************************************************)
TenantsAreIsolated ==
    \A slot \in Slots, t \in Tenants :
        \A i \in 1..Len(instances[slot][t]) :
            \A row \in instances[slot][t][i] : row.tenant = t

=============================================================================
