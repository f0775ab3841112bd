# Verification of the Aero Legal Engine

TLA+ models of the Legal Engine Platform: of the parts that keep state and of
the pure algorithms that decide legal questions, with the TLC configurations that
check them and proofs checked by TLAPS. Paths below are
relative to `src/src/legal_engine/` unless they say otherwise.

## 1. The system: inventory

One FastAPI process (`api/main.py`). Handlers are coroutines on one event loop;
synchronous dependencies and background library calls run in a thread pool.

| Component | State | Operations | Interacts with |
|---|---|---|---|
| Token ledger and sessions (`compliance/token_ledger.py`, `api/security.py`, `api/routes/auth.py`) | revoked jtis, redeemed refresh jtis, revoked families, families by subject; the tokens are in the clients' hands | login, refresh, revoke, single-purpose tokens, cascades | appends every fact to the log, rebuilt from it |
| Write-ahead log (`core/wal.py`) | entries in memory, lines on disk | append, verify, load | both ledgers; the signing key |
| Consent ledger (`compliance/consent.py`, `api/routes/legal.py`) | latest acceptance per tenant | accept, revoke, gate | the log; `require_consent` |
| Accounts and tenants (`api/routes/auth.py`, `persistence/user_repository.py`, `persistence/sql_repository.py`) | one row per e-mail: tenant, role, password hash, verified | register, login, verify, reset, invite, accept, change role, remove | repository calls (awaits), the token ledger (no await) |
| Preemption and statute graph (`knowledge_graph/preemption.py`, `graph_service.py`) | statutes, entities, `preempts` edges, per tenant | add a statute, resolve an entity | graph and verification routes |
| Statute storage and indexes (`knowledge_graph/tenant_registry.py`, `persistence/*`, `api/routes/graph.py`) | statute rows; per-tenant graph and vector index | submit, query, hydrate at start | thread pool, repository, restarts |
| Fetcher and crawler (`ingestion/rate_limiter.py`, `crawler_manager.py`, `workers/`) | semaphore, host locks, last request per host, robots cache | fetch, retry, batch | remote hosts; the API and the worker start batches |
| Solver pool (`formal_logic/solver_pool.py`, `api/routes/verification.py`) | a semaphore, the threads of the framework | check | Z3, every route with a synchronous dependency |
| Formal logic (`formal_logic/epr_compiler.py`, `smt_generator.py`) | none | compile a rule, write its SMT text | the solver pool |
| Extraction (`obligations/extraction.py`, `api/routes/extraction.py`) | none | read ordinance prose, gate a model's answers | doctrines, uncertainty |
| Doctrines (`obligations/authority.py`, `express_preemption.py`, `floors.py`, `corpus.py`) | none | does a higher law displace a lower one | extraction |
| Deontic logic (`deontic/`) | none | preference models, ought, may, conflict | - |
| Refactoring (`refactoring/`) | none | negative cycles, the equations of a correction | refactoring route |
| Uncertainty (`uncertainty/`) | none | cluster answers by meaning, abstain | extraction |
| Game theory, embeddings, parsers and OCR (`game_theory/`, `embeddings/`, `ingestion/parsers`) | none | numerics and conversions | routes, workers |
| Keys, timestamps, configuration, e-mail | the key file | load or create, sign, stamp | the log |

What is hard in it:

* **Interleaving.** With the SQL repository a handler suspends at each repository
  call, and the check it made is stale when it writes. With the in-memory one it
  never suspends. The registry of indexes is called from several threads.
* **Partial failure.** `append` changes memory before the file; a cascade is many
  appends; a statute goes to two indexes before the repository.
* **Crash and restart.** Everything the ledgers and the indexes hold is rebuilt
  from the log and from the statute rows.
* **Shared limits.** Batches share a semaphore, host locks and a robots cache
  whose first answer stays; checks wait on threads that other routes need.
* **Silent loss.** A phrase that no pattern knows, a marker in the middle of a
  text, a list inside a provision: what the extractor does not read it must at
  least report, or a rule disappears without an error.
* **Protocol sequences.** Rotation, replay, revocation and expiry of tokens in
  any order; preemption edges that accumulate and are never removed.

`PROJECT.json` lists each of these under "hazards" with its line and the
properties aimed at it.

What makes each component correct:

* sessions: a session is traceable to its subject, has one live refresh token,
  and once closed never comes back (`SessionAuthority` is that promise);
* log: what was acknowledged survives, in order, in every process that comes up;
* consent: the gate enforces the last acknowledged standing (`ConsentRegister`);
* accounts: a tenant keeps an owner, removal and reset end sessions, mailed
  tokens are good for one answer (`TenantDirectory`, where every request happens
  at once, is that promise);
* preemption: edges follow the hierarchy forever and form no circle;
* indexes: they hold what the repository holds, and tenants do not mix;
* fetcher: a page is requested only as the robots.txt that was read allows, one
  host is asked at most once per delay, every batch ends;
* solver pool: a verdict is about its own clause, whatever else is solved or named
  in it, and every request is answered;
* extraction: what is extracted is in the text, what is not is reported, and no
  backend is believed about words the text does not contain;
* doctrines: a verdict follows from the facts, an unknown fact leaves it open,
  and of a floor the stricter rule stays;
* deontic logic: a model is refused unless every question has an answer in it,
  and no question is both obligatory and forbidden;
* refactoring: a correction reaches every loophole that is reported;
* audit text: a reader of SMT-LIB finds in it the formula that was decided.

## 2. Plan

In the order of importance, all written:

1. `TokenLedger`, `Sessions`, `SessionAuthority`; `WriteAheadLog`;
   `ConsentLedger`, `ConsentRegister`, `TrustLog` (which composes the log with both
   ledgers); `Accounts`, `TenantDirectory`.
2. `Preemption`, `StatuteGraph`; `StatuteIndex`.
3. `Fetcher`; `SolverPool`.
4. `Doctrine`, `SystemE`, `Extraction`, `SemanticEntropy`, `Loopholes` (over
   `Sums`), `EPR` and `SmtText`, and `Decisions`, which calls them; `Corpus`, and
   `Algorithms`, which adds the reading of a text to the calls of `Decisions`.
5. The proof modules `Sessions_proofs`, `TrustLog_proofs` (the log's proofs, then
   those of the ledgers), `Accounts_proofs`, `StatuteIndex_proofs`,
   `Fetcher_proofs`, `SolverPool_proofs`, `Decisions_proofs`, which holds what is
   proved of the algorithms and of `StatuteGraph`, and `Loopholes_proofs` over it,
   about the corrections and the audit text.

What could follow: `KeyFile` (creation, a crash in the middle, two first starts);
`Replicas` (two processes over one log file: each ledger sees its own appends
only). An abstract specification still worth stating: a single authoritative
index for `StatuteIndex`. A proof still worth
writing: that the pieces of `Extraction` below the sentence (the lead-in of a list,
the order of modalities) answer as `TextsAreReadAsWritten` says.

## 3. Modules and the code

### TokenLedger, Sessions, SessionAuthority

`TokenLedger` is a record of the four sets of the class. `Index` is `_index`; an
operator named after a method returns the ledger after the method. `Sessions`
has one action per handler that touches the ledger, and each is one step. Login,
refresh, logout and removal do not await between what they read of the ledger and
what they write. Accepting an invite (`auth.py:338-352`) and resetting a password
(`auth.py:535-547`) do await the repository between finding the letter unspent and
spending it; those handlers are taken apart, with what can happen meanwhile, in
`Accounts`. `Sessions` is about the tokens that come out of them, to which the order
of these two steps makes no difference. Who may log in or
remove whom is the concern of `Accounts`: here any subject may. A token is the
record of the claims that the code reads back, a uuid is a number from a counter,
and `Expire` takes a token out of `tokens`, at any moment.

`SessionAuthority` is the promise without tokens or log: a session has one owner,
at most one live credential, is closed for good. `Sessions` implements it with
`live` = the rotatable refresh tokens of the family.

### WriteAheadLog

`entries` is the list in memory, `disk` the lines of `audit.jsonl`. An entry carries its
sequence number, the hash of its predecessor, its fact and its own hash; a hash is the
number of the append, which is fresh because the digest covers the timestamp.
`AppendFails` is the write that raises after the entry went into memory, in the three
shapes the file can be left in: nothing written, part of the line, the line without its
newline (`tailOpen`: the next write continues it and spoils it). `_load` fails on a line
that does not parse, so `StartLog` needs `Loadable`. A signer that raises does so before
memory or file is touched; that is a step of the handler (`SigningRaises` in
`TrustLog`). A fourth shape is left out: the line is whole and `close` raises. The
caller has an error, and the entry a place in the log for good; with that shape
`ConsentRegister` would have to let such a change surface even after later appends went
well. Signatures and hashes are assumed sound: nobody alters an entry in this model. A
power failure that loses acknowledged writes out of the operating system's cache is not
modelled (`_persist` flushes on close and does not fsync).

### ConsentLedger, TrustLog, ConsentRegister

`TrustLog` instantiates `WriteAheadLog` with the facts of both ledgers and adds
the two projections. A handler is a list of facts still to append (`handler`):
`AppendNext` writes one and indexes it, `AppendRaises` and `SigningRaises` end the
handler with an error, `Crash` may come between any two. A reset revokes its letter
first and goes on to the cascade (`auth.py:547`), so that its facts are one more
than those of a removal. `Start` loads the log, replays it into
both indexes, and may deploy a later disclaimer version. `ConsentRegister` is the
promise: the last acknowledged standing is enforced, and only a change whose
caller got an error may still surface at a restart, while its line can be read
back and nothing later went well.

An entry whose write failed is in `entries` and in no index (`lost`).
`IndexesMatchTheLog` says that this is the only difference between an index and a
replay of `wal.entries()`. The docstrings know of none; `IndexesAreRederivable`
is what they say, and the run `rederivable` refutes it.

### Accounts, TenantDirectory

One action is one repository call with the decisions that follow it, or one
stretch of ledger calls. `Runs(w)` is the scheduler: with the in-memory
repository no other handler is in progress, because its coroutines never suspend;
with the SQL one any may be. Before the handler (`pc = "admitted"`) requests
interleave in both, since the dependencies around the check of the token are
resolved in the thread pool. `SqlAlchemyUserRepository.add` is two steps:
`MergeLoads` reads the row, `MergeCommits` writes the columns that differ from
what was read, or raises (a row that appeared or vanished). `remove` is one step:
its select and delete are one transaction whose only effect is the deletion.
`LogRaises` breaks a handler off at any of its appends. `overlapped`, `founded`,
`redeemed` and `logFailures` are history variables. The salted hash of a password
is a fresh number, and a new tenant takes the number of its founder's hash.

`TenantDirectory` is the promise without handlers, tokens or log: accounts, the
tenants founded, the letters sent, which of them are spent, and the sessions that
work. An invite or a reset is honoured once, for the person it names; an owner
steps down or leaves only while another one stays; a new password or a dismissal
ends the sessions in the same step. In `Accounts` that one step is the
write to the repository. The handler tells the ledger later, so the mapping takes
a letter as spent and the sessions as ended from the write on (`SpentMail`,
`WorkingSessions`: what the ledger says and what a handler in `"finish"` is about
to tell it), and every other step of a handler is a stutter.

### Preemption, StatuteGraph

`Preemption` holds pure operators, one per field of the result: `Governing` is
empty or a singleton. Tiers and dates are numbers, an undated statute has date 0,
a scope is the set of entities the graph links the statute to. `StatuteGraph` has
the two operations on the graph. A restart, which drops the edges, is not in it:
every property is about edges that are there.

### StatuteIndex

`instances[slot][t]` are the instances the registry ever installed for a tenant;
the dictionary holds the last one, requests may still hold an earlier one. `Look`,
`Build` and `Take` are the test, the assignment and the return of `graph_for` and
`vector_for`, interleaved across threads. `AddStatute` indexes in both and then
awaits the repository, which suspends if it is the SQL one. `Crash` may lose or
keep a commit in flight. `Start` runs `hydrate_indexes` before requests arrive.
The initial state chooses the repository.

### Fetcher

One action is what a coroutine does between two awaits that suspend. The order of a
fetch is the code's: once, under the cache's guard, the robots question (a request
through the same client that is not throttled, cached on its first answer); then, for
every attempt, the semaphore, the host's lock, the delay since the last request, the
release of the lock, the request, the release of the slot, and on a busy answer a sleep
the server may choose. asyncio serves waiters in order, so a lock and the semaphore are
queues whose first elements hold them. `Finish` includes `asyncio.gather`: the first
failure answers the batch while the other jobs run on, and their documents are lost. A
robots.txt that cannot be fetched is kept as a refusal of everything for the life of the
process. Only `httpx.HTTPError` counts as that (`rate_limiter.py:67`): whatever else is
raised fails the job and leaves nothing in the cache (`RobotsRaises`), so the next job
of the host asks again. Hosts answer anything; what a host publishes does not change
during a run. Time is what `time.monotonic` differences tell apart, counted up to
`MinDelay`. The API and the Celery task pass one job per batch; `run_ingestion_jobs`
takes any number, and so does the model. The limiter is per process: two workers are two
fetchers.

### SolverPool

A request needs a thread for its synchronous dependencies, then another for
`check`, which blocks in `acquire` (it has no timeout) while holding the thread;
`PoolSize` of them solve. `z3.Context()` is a place in memory that no context in use
has (`FreshContexts`); places are given back with the slot and used again. In a
context that nobody shares, Z3 answers what is true of what was asserted there, or
gives up, or raises. In a shared one, and for a connective without operands, which is
handed to the binding without a context, the outcome is undefined: any of them.

What is asserted is not only the clause. `assert_and_track` (`solver_pool.py:157-158`)
puts it under the Bool constant `goal`, and asks for a model in which that constant
is true. A predicate without arguments is a Bool constant too, and one called `goal`
is the same one: of such a clause only the models with `goal` true count
(`Provable`), so that `not goal` comes back as unsatisfiable. `VerdictsAreSound` has
this as an exception, and the run has that clause. The documented
`SolverResourceLimitError` is never raised: memory exhaustion comes
back as a time-out, not satisfiable, or as an exception of the binding (`Crashed`).

### Doctrine, Corpus

One operator per function of `authority.py`, `express_preemption.py` and
`floors.py`; an early return is a branch, in the same order. The wording of
reasons is left out. `Corpus` is the worked Florida corpus. Authority compares
bare names (`authority.py:57`), so a city with its state's name is in it; the
model keeps that.

### Extraction, SemanticEntropy

A text is a sequence of words. A regular expression is the set of word sequences
it looks for, a few of each alternation, so that overlaps (`must not` with `must`,
a permit inside `no permit is required`) are those of the code. `Extraction` has
the whole control: the cut at the history marker, the numbering of sections, the
lead-in of a list with its limbs, the order in which modalities are tried, the
bearer, the thresholds, the checks on a model's payload and the order in which a
payload is refused, and `sample_and_gate`. What the properties had to name, because
the code does it: a section marker in front of "No person may" leaves a permission,
and in front of "A city" hides who is bound, because both patterns are anchored at
the start; "must not" is an obligation; a marked provision after a list joins its
last limb; a history note in the middle of a text takes what follows it along;
a payload of which one text is no string (a number, a list, an explicit null) passes
the schema's own check and ends the request with an error nobody catches, the good
items with it (`NotAString`); two
answers with the same words, each about another subject, agree. Beside these, and
outside the inputs of the run: "cannot" is no modal verb and the sentence is passed
over, "no permit is required" and "shall be exempt" are obligations, and "register
with the department" binds the department. `_LIMB_TAIL` also strips an "or" or "and"
that ends a word ("vendor"); a text of whole words cannot show it, and it changes the
letters of a limb, not which limbs there are.

`SemanticEntropy` clusters greedily against the first member of each cluster with
entailment both ways (`Joined` is the step for one text). Entropy is in units of
0.0001 nats from a table of n ln n, for up to six samples, multiplied by the number
of samples so that no division is needed. Entailment is a share of tokens, so one
more token weighs the less the longer a text is: `ClustersAreMeanings` says exactly
how long a text may be to be told from its negation at a threshold.

### SystemE

A formula is its atoms and the points where it holds, which is all `deontic/` asks
of one. Both constructors with every refusal, best worlds, the operators and
`evaluate`. The explicit constructor's checks together admit exactly the
relations a ranking gives: `DeonticAnswersAreSound` says that a draft is answered if
and only if its relation is a ranking of its worlds (`IsRanked`) and it assigns the
atoms of the question. A tier is a set, so that a world repeated inside one tier,
which `system_e.py:161` refuses, cannot be put.

### Loopholes, EPR, SmtText

`Loopholes` is the graph as networkx keeps it (of parallel edges the last weight
stays), the negative cycles as `cycle_detector.py` reports them and the fundamental
basis whose equations the correction solves; the least-squares solver is numpy's.
A loop of the code is a function of the number of turns: the `while` over the
queue of the spanning forest is given one turn for each node, and is over by then
because a node enters the queue once.

`EPR` is what the compiler refuses and what an accepted rule means over its finite
domain. A formula is the listing of its parts, operands before
the connective that takes them by their places, so that its meaning is a recursive
function over the listing.

`SmtText` is the text of `smt_generator.py` and its reader. The text has names and no
kinds: an atom is a head and arguments, all written as they are called, in the one
name space of SMT-LIB. The reader (`Resolve`) takes a name for its nearest binder, a
quantifier before a declaration, and refuses what is no SMT-LIB (`Readable`). So
every clash of names can be put, and the property says what becomes of each. There is
no readable text when a name is not a symbol (`true`, or one with a space), a
predicate has the name of a variable or of a member of the domain, or a connective is
empty (`HasNoText`). It reads as something else when a variable has the name of a
constant (`Captures`). Everywhere else it is faithful, and
"only there" is part of the property for the first kind.

### Decisions, Algorithms

One front: `call` is an algorithm and its input, `answer` its result, one action
per entry point. `Decisions` has the calls whose promises are proved: a payload of
a backend, repeated samples, a gate, express preemption, floors, and questions to a
preference model, finding loopholes and verifying a clause. What they may be asked
is a set of inputs for each, a CONSTANT, and four named assumptions
(`BackendInputs`, `GateInputs`, `DecisionInputs`, `RequestInputs`) say
only that the inputs are of the types of the code, that token sets are finite and
that the table of n ln n reaches as far as the samples do. `MCAlgorithms` gives
these constants finite values for TLC. `Algorithms` adds reading a text, from sets
of phrases of its own. The promises are
invariants of the pair, so each is checked on every input, and the laws compare the
answers with a definition written from the meaning, not from the code.

## 4. Runs

| Run | What it checks | Bounds |
|---|---|---|
| `sessions` | the safety of sessions and the refinement of `SessionAuthority` | 2 subjects, 1 tenant, 5 tokens, 2 sessions, invite and reset tokens |
| `trustlog` | durability, chain and sequence numbers of the log, both projections over it, the consent register | 1 tenant, 1 user, 2 versions, 4 appends, 3 failed writes of any shape |
| `rederivable` | a statement the code does not keep | as `trustlog` |
| `accounts` | every account promise and the refinement of `TenantDirectory`, in-memory repository | 2 people, 2 requests at a time, 3 passwords, mails and sessions |
| `accounts_sql` | which promises survive suspension; every request is answered | 2 people, 2 requests, 2 of each, 1 failed append |
| `statute_graph` | circles, survivors, lower tiers | 3 statutes, 3 entities, 2 tiers, 2 dates and none |
| `statute_index` | indexes against repository, isolation | 2 tenants, 2 requests, 3 statutes, 1 failed write |
| `fetcher` | robots, spacing, every batch ends | 4 jobs, 2 hosts, 2 batches, 2 slots, 1 retry, delay 1 |
| `solver_pool` | verdicts, every request is answered | 5 clauses and a plain request, 3 threads, 2 slots, 2 places for contexts |
| `algorithms` | every law of the pure algorithms | the input sets of `MCAlgorithms` and `Algorithms` |
| `last_owner` | a statement the code does not keep | as `accounts_sql` |
| `inverted` | a statement the code does not keep | as `algorithms` |

Why the bounds are enough to be interesting: a replay needs one rotation and its
predecessor (four tokens), a single-purpose token makes five; e-mail verification
tokens, which the ledger never meets, are left to the proofs; two sessions tell
"all of a subject's sessions" from "one"; a broken chain needs a failed write, a
good one, and a restart, a spoiled line one more, and a duplicated number the same:
four appends; a scope can be narrower, equal,
overlapping or disjoint over three entities, and three statutes are needed for a
survivor that beats one rival and not another; two requests are enough for every
race the hazards name, because each is between one reader and one writer. The
fetcher has two pages of one host in two batches, one page elsewhere that its
robots.txt forbids, and a job without a parser that fails its batch under way; two
slots for four jobs let one host hold both. Three threads for five clauses and a
plain request fill the pool, two slots for three threads leave a thread waiting, and
of two places a solve that begins must take the one that is left. The five clauses
are one of each kind a verdict can come from: satisfiable, unsatisfiable, satisfiable
without its label only, with an empty connective, not of the fragment.
The inputs of `algorithms` are products: every list of three and of five results
out of five, gates of four samples at a threshold of nothing, of half a nat, and just
below and just at the most that four samples can reach (4 x 13863 is their entropy
when all differ), with half and with full entailment; each branch of a doctrine with each
missing fact, each opener with each modal phrase and each list shape, every ranking
and every small relation over three worlds, every graph of up to three nodes
with a loop of either sign, every rule with one quantifier of each kind and each way
in which its names can clash.

`CHECK_DEADLOCK FALSE` everywhere: the bounds run out, a call is answered once,
and a log whose file is damaged refuses to start, by design of `_load`. `Symmetry`
is declared over sets that only occur symmetrically, and not in a run with a
liveness property.

The three violation runs show statements of the repository's text that the code
does not keep; the findings in `PROJECT.json` quote the lines. After an append that
raises, an index is not what a replay of the log gives (`rederivable`). Two concurrent
demotions over SQL leave a tenant without owner (`last_owner`), and "must not" is
recorded as an obligation (`inverted`).

More disagreements between text and code were met while modelling. They are
kept here in words; the properties of the passing runs name each as an exception or
state what the code does instead.

* `auth.py:41-43` says a replay ends the session. A refresh token that was
  revoked, and is then replayed, is refused by `token_ledger.py:137` before the
  cascade; `ReuseEndsTheSession` speaks of rotated ones.
* A failed write followed by a good one and a restart makes `verify()` report
  tampering (`wal.py:92`, `104`); `ChainBreaksOnlyAfterFailedWrite` says it takes that.
* `preemption.py:238` returns as unresolved candidates also defeated ones.
* Two first requests of a tenant can lose a statute from its index until the next
  start (`tenant_registry.py:44`); `MissingOnlyByReplacement` says it takes that.
* `extraction.py:507-514` and `808-809` say that a bad item of a backend becomes an
  abstention and never an exception that discards the rest. An item whose text is no
  string passes the check at `829` and raises at `841` when there is a source to look
  in; `BackendIsNotTakenOnTrust` says it is the only such item.
* `entailment.py:23-29` says a text and its negation never collapse into one cluster.
  Containment is a share: at the default threshold of 0.9 they do from nine tokens
  on. `ClustersAreMeanings` gives the length for every threshold.
* `extraction.py:716-720` and `740` say that repeated extractions are clustered by exact
  match of their canonical forms. They are clustered by the set of words in the form,
  so that two obligations which swap their subjects agree; `GateTellsDisagreement`
  speaks of tokens (`CanonicalTokens`).
* `solver_pool.py:3-6` says conjuncts are tracked, so that a core names the
  culprits. One label, `goal`, tracks the whole clause (`157-158`), and every core is
  that label.
* That label is a Bool constant, and a predicate of the name without arguments is the
  same: a satisfiable clause can be answered unsatisfiable. `VerdictsAreSound` says
  it takes that.
* `smt_generator.py:5-8` calls its result the literal text that was reasoned about. Where
  names clash or a connective is empty it is another formula, or none;
  `AuditTextIsFaithful` lists when.

What the accounts runs can and cannot show: the races of the first hazards need a
handler that suspends, so `accounts`, over memory, says that the handlers are right by
themselves and together implement the directory. Over SQL they break promises;
`last_owner` shows one, and `OverlapIsToBlame` says that without an overlap or a failed
append nothing breaks. It says nothing about a run in which handlers did overlap.

The type invariants of the stateful modules are stated beside `Init`. Those of
`Sessions`, `WriteAheadLog`, `TrustLog`, `Accounts`, `StatuteGraph`, `StatuteIndex`
and `SolverPool` are proved, so that no run repeats them; of `Fetcher`, the proofs
contain the part they need (`LocksOK`).

### Fairness

Three runs have a liveness property, each under weak fairness only.

* `accounts_sql`: each request that has arrived (`Step(w)`). The event loop resumes
  every coroutine whose awaited call returned, and repository calls return.
  Nothing is assumed of clients, and no handler waits for another one.
* `fetcher`: each step of each job, and `Tick`. The client has a time-out, so a
  request ends; time passes; a free lock goes to the first in its queue, so no
  strong fairness is needed. Nobody has to start a batch.
* `solver_pool`: each request. Z3 keeps its time-out, so a held slot is released; a
  waiter of the semaphore and of the thread limiter is served by any order that
  forgets nobody, and since requests are finite in number weak fairness is enough.

## 5. Proofs

For every value of the constants:

* `Sessions_proofs`. The inductive invariant relates tokens, ledger and counters:
  every jti and family in use is below its counter, in tokens and in the ledger
  alike, no two tokens share a jti, every session token's family is recorded
  under its subject and nobody else, and a family has one unspent refresh token.
  From it: `TypeOK`, `SessionsAreTraceable`,
  `OneUnspentRefreshPerSession`; the action properties `ClosedSessionsStayClosed`,
  `CascadeEndsEverySession`, `ReuseEndsTheSession`; and, action by action, that
  every step is a step or a stutter of `SessionAuthority`.
* `TrustLog_proofs`, about the log. The invariant says that a file that still loads
  holds every acknowledged entry, that hashes increase along `entries` and along
  the intact lines of `disk`, and that neither passes `clock`. From it: `LogTypeOK`,
  `AcknowledgedFactsSurvive`, `LogIsChronological`. It is needed because the
  properties speak of memory and are re-established at a restart from the file.
  A second invariant is about the chain: a file that loads and verifies is what
  memory begins with, and numbered by position. An append that follows a failed
  one writes an entry whose predecessor is missing, so the file stops verifying
  for ever; otherwise the file stays a prefix. From it
  `ChainBreaksOnlyAfterFailedWrite` and `SequenceNamesOneEntry`.
* `TrustLog_proofs`, about the ledgers. `TrustLog` extends the log, so its invariant
  (`TrustInv`) stands on the log's own. Both indexes are a replay of the entries in
  memory, and also of the lines on disk as long as these load, in either case without
  the entries whose write failed; such a line can only be the last and unterminated
  (`LostIsLast`), because the next append spoils it; versions only grow along the log;
  and what a handler will answer it has written or still owes. `Replay` is a recursive
  function of the length of the log. What it leaves, an acceptance of a tenant that no
  later line revokes and every token fact, is proved of every log by its least
  counterexample (`ReplayRecordsTheLog`), and so is that one more line is one more step.
  From it, with no bound on appends, failures and restarts, `IndexesMatchTheLog`,
  `AnswersOutliveTheProcess`, `LatestAcceptanceIsEnough` and `ConsentIsTraceable`; that
  the handlers use the log only as `WriteAheadLog` allows; and, step by step, that the
  gate implements `ConsentRegister`. A restart is the hard step: it is a `Restart` of
  the register that surfaces exactly the change on the last, unacknowledged line.
* `Accounts_proofs`. The invariant has three parts. What holds whatever overlaps and
  fails (`BaseInv`: types, which request may be where, families on record). That
  every password hash is new, which is what keeps two requests from carrying the
  same tenant. And, as long as no two handlers have overlapped (`AloneInv`), that
  each is alone in the repository and finds it as it read it, that sessions fit the
  accounts of their holders unless the handler that ends them is on its way, and
  that a tenant has an owner. From it `OverlapIsToBlame` for both repositories, any
  number of accounts and requests: what goes wrong takes an overlap or a failed
  append. Over the repository in memory handlers never overlap, so there
  `TenantsKeepAnOwner`, `MailIsSingleUse`, `WritesKeepWhatOthersWrote` hold outright,
  and `RemovedMembersAreLockedOut`, `SessionsStayInTheirTenant`,
  `ResetEndsOlderSessions` if no append fails (`MaxLogFailures = 0`).
  `LastOwnerInMemoryIsProtected` proves for memory what the run `last_owner` refutes
  for SQL.
* `Accounts_proofs`, about the directory. Over the repository in memory, when no
  append fails, every step is a step or a stutter of `TenantDirectory`
  (`AccountsInMemoryAreATenantDirectory`). `DirectoryInv` adds what the mapping
  needs: letters and families in use are below their counters, so that a new one
  is not spent or revoked already; the families of two subjects are disjoint, so
  that ending one subject's sessions ends nobody else's; nobody is or acts in a
  tenant that was not founded; and what a handler carries from its checks to its
  write is still so (`Carried`). The hard step is the write: that another owner
  was there when the handler counted must hold when it writes, which is so because
  one handler runs at a time (`TheOneWhoRunsDecides`), and over SQL is not.
* `StatuteIndex_proofs`. The two indexes are updated in one step but installed and
  replaced one at a time, so no single instance is inductive. The invariant
  compares the contents of all instances of an index together with all that was
  submitted (rows, writes under way, writes that raised), and says where each
  request is in resolving its indexes. From it `TypeOK`, `TenantsAreIsolated`,
  `MissingOnlyByReplacement` and `IndexesMatchTheRepository`, over both repositories.
* `Fetcher_proofs`. The invariant says who holds what: a job that asks for
  robots.txt is the head of the guard and its host is unknown; a job that was let
  through is still allowed, because a known host is never asked about again; a job
  that sleeps before a request is the head of its host's lock and its sleep ends
  when the delay is over. From it `PagesFollowRobots` and `PagesAreSpaced`; neither
  needs the semaphore or the backoff.
* `SolverPool_proofs`. The invariant counts: `free` and the requests that solve add
  up to `PoolSize`, those that hold a thread are at most `Threads`. That no two solving
  requests have one context (`OwnContexts`) is kept by every step because a place
  is taken only when nobody who solves has it; hence nobody intrudes upon a solve
  (`SolvesAlone`), and an answer is an outcome of its own formula. What such an answer says
  is the truth about the clause, unless the clause names the label; then a model of
  what was asserted is still a model of the clause, so only "unsatisfiable" can be
  wrong (`TheLabelIsAllThatCosts`). From it `VerdictsAreSound` for any number of
  requests and any clauses, and that the pool is bounded.
* `Decisions_proofs`, about `StatuteGraph`. `Defeats` is irreflexive and transitive,
  so a finite set of candidates has an undefeated member below every other, and a
  lone survivor defeats all (`SurvivorBeatsEveryRival`, which is the comment of
  `preemption.py:199-202` proved). Hence every edge goes from a statute that
  outranks the other, and an order has no circles. The invariant carries the
  finiteness of the set and the distinctness of ids. A statute of a lower tier
  changes no answer (`LowerTiersNeverDisturb`).
* `Decisions_proofs`, about the doctrines. For any obligation and rule: earlier
  adoption never harms, and a provision of unknown date stands only where it would
  with any date (`DateIsMonotone`); an answer is left open exactly when the missing
  date decides it (`OpenMeansUndecidable`); a floor leaves the more protective of
  the two standards in force, and enacting it again changes nothing
  (`FloorLeavesTheStricter`); the first finding of `analyze_all` speaks for all
  (`TheHeadlineDecides`). Together `DoctrinesDecideByTheFacts`.
* `Decisions_proofs`, about deontic logic. For any worlds and atoms: disjoint tiers
  make a model that passes every check of the constructor, and order the worlds as
  listed (`RankingIsAModel`); conversely, and together, a draft passes every check of
  the explicit constructor exactly when it is a ranking of its worlds
  (`ModelsAreTheRankings`); the failure flags of a verdict exclude each other and
  say what the operators say (`VerdictsAreClear`); a permitted fact ends no duty
  (`DutiesSurvive`, rational monotony); and in a finite model the best worlds of a
  condition are those that the fewest worlds beat, so there is one wherever it
  holds (`TheBestAreFewestAbove`, by an order on a finite set having a minimum).
  Together `DeonticAnswersAreSound`.
* `Decisions_proofs`, about a backend's payload. Each item is read or refused, the two
  lists of the result are the parts of one list, and so each item is answered for once;
  the request fails exactly when some item has a text that is no string and is
  well-formed otherwise. The filter is a recursive function over the sequence of items;
  that such functions are defined and stay in their type is proved once for any step
  (`RecursionIsDefined`, `RecursionStays`, both from `EveryPrefix`, which is a least
  element of the prefixes where a claim fails). From it `BackendIsNotTakenOnTrust`, for
  any payloads and sources.
* `Decisions_proofs`, about the gate. Clusters are kept `WellGrouped` by each text
  that joins: their sizes add up to the texts read, each text is in one, a
  cluster has one meaning and two clusters have two. At full threshold the same
  meaning is the same tokens (`FullThresholdIsEquality`), so the length of a cluster
  counts votes, and the winner has the most. The entropy of a partition is bounded
  from below by that of one dissenter (`OneMoreCluster`, `EntropyOfAPartition`); this
  uses the values of the table, so it is limited to the six samples the table has.
  Two texts that differ in one token are in different clusters while the shorter is
  short for the threshold (`OneTokenMoreTakesLength`).
  From it `GateTellsDisagreement` for any texts, thresholds and percentages.

* `Loopholes_proofs`, about corrections. For any graph, loops, opposite and repeated
  edges included: the forest hangs every node once, below one that was hung
  earlier, on an edge between the two. So every node has a path to its root, the
  row of an edge is the difference of the two paths minus a one in the column of
  the edge, and the row of an edge of the forest would be nothing. Around a
  rotation the differences cancel, because each node is left as often as it is
  entered, and what is left is the cycle itself (`EquationsReachEveryLoophole`).
  Weights that solve every equation therefore leave no directed cycle with a weight
  other than zero (`CorrectedGraphsHaveNoLoophole`, which is what the docstring of
  `zero_arbitrage.py` says); that the solver finds such weights is assumed. All of
  it rests on the loops being defined at every turn, which `RecursionIsDefined` and
  `RecursionStays` say of any step.
* `Loopholes_proofs`, about audit texts. For any clause that compiles: its text can be
  read if and only if its names are symbols, its predicates are called like nothing
  else and no connective is empty; and if moreover no variable has the name of a member
  of the domain, every name resolves to what it was written from, so that the reader
  has the clause itself and its verdict (`AuditTextsAreFaithful`).

The assumptions are the named ASSUMEs of the modules, which TLC evaluates in the
runs. Those of `Decisions` restrict its input sets to the types of the code. A theorem
about one repository assumes `SqlBackend` or its negation, and a theorem about
working writes `MaxLogFailures = 0`, as the runs do.

Only model-checked:

* the three liveness properties, `EveryRequestIsAnswered` of `Accounts` and of
  `SolverPool` and `EveryBatchEnds`: liveness under fairness is out of this
  prover's reach;
* `TextsAreReadAsWritten`, whose statement is about texts put together from
  drafting habits, that is about the phrases `Algorithms` lists: there is no
  constant to generalise over, and TLC reads every text they make.

No module declares a RECURSIVE operator: recursion is a recursive function, which
the provers can reason about.

## 6. Not modelled

* Parsers and OCR: conversions of external XML, HTML and images by third-party
  libraries; no state, and no decision beyond layout.
* Game theory, the sparse optimiser and the least-squares solver of corrections:
  floating-point numerics, outside what TLC represents.
* The language models and the cross-encoder: external; `Extraction` takes their
  answers as inputs. The disambiguator is a prompt for one of them.
* Signing keys and timestamps: calls to cryptography, KMS, Vault and a stamping
  service, assumed sound by `WriteAheadLog`. The key file is written in place, a
  hazard listed without a property.
* Configuration, start-up checks, e-mail, logging, middleware: glue and I/O; a model
  of the checks would repeat them.
* Embeddings and similarity search: pure numerics. Neo4j and Qdrant backends are
  marked untested by the repository.
* More than one process over one log or one politeness limiter: a hazard listed
  and planned.

Cryptography, SQLAlchemy, asyncio, networkx, Z3 and httpx are external and taken at
what the code relies on.
