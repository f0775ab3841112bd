-------------------------------- MODULE Fetcher --------------------------------
(***************************************************************************)
(* The polite crawler: PoliteFetcher with its RobotsCache and RateLimiter  *)
(* (ingestion/rate_limiter.py), under the batches of crawler_manager.py    *)
(* that the API and the worker start.                                      *)
(*                                                                         *)
(* Everything runs on one event loop, so an action is what a coroutine     *)
(* does between two awaits that suspend.  asyncio locks and semaphores     *)
(* serve their waiters in order of arrival: a lock is the queue of those   *)
(* who asked for it, its holder the head; of the semaphore's queue the     *)
(* first MaxConcurrency hold a slot.                                       *)
(*                                                                         *)
(* Time passes in Tick.  What the code computes from time.monotonic() is   *)
(* kept as the age of the last request, counted up to MinDelay, and as the *)
(* time a sleeper has left.                                                *)
(***************************************************************************)
EXTENDS Naturals, Sequences, SequencesExt, FiniteSets

CONSTANTS
    Jobs, Hosts, Batches,
    Host,             \* job -> host of its url
    Batch,            \* job -> call of run_ingestion_jobs that it belongs to
    Parsable,         \* jobs whose source type has a parser in _PARSERS
    Published,        \* jobs whose url the robots.txt of its host lets us fetch
    RespectRobots,    \* settings.ingestion_respect_robots_txt
    MaxConcurrency,   \* settings.ingestion_max_concurrency
    MinDelay,         \* settings.ingestion_min_delay_seconds
    MaxRetries,
    RetryAfter        \* delays a server may ask for

ASSUME FetcherAssumption ==
    /\ Host \in [Jobs -> Hosts]
    /\ Batch \in [Jobs -> Batches]
    /\ Parsable \subseteq Jobs /\ Published \subseteq Jobs
    /\ RespectRobots \in BOOLEAN
    /\ MaxConcurrency \in Nat \ {0}
    /\ MinDelay \in Nat /\ MaxRetries \in Nat /\ RetryAfter \subseteq Nat

VARIABLES
    pc,        \* job -> where its coroutine stands
    timer,     \* job -> what is left of its sleep
    attempt,   \* job -> busy answers it had
    rules,     \* host -> what the cached RobotFileParser lets through
    guard,     \* RobotsCache._guard
    slots,     \* RateLimiter._semaphore
    turns,     \* host -> its lock in RateLimiter._host_locks
    age,       \* host -> time since its _last_request_at
    batch      \* batch -> what asyncio.gather has answered

vars == <<pc, timer, attempt, rules, guard, slots, turns, age, batch>>

Unknown == "unknown"

Init ==
    /\ pc = [j \in Jobs |-> "new"]
    /\ timer = [j \in Jobs |-> 0]
    /\ attempt = [j \in Jobs |-> 0]
    /\ rules = [h \in Hosts |-> Unknown]
    /\ guard = <<>>
    /\ slots = <<>>
    /\ turns = [h \in Hosts |-> <<>>]
    /\ age = [h \in Hosts |-> MinDelay]
    /\ batch = [b \in Batches |-> "none"]

-----------------------------------------------------------------------------
(* Locks.                                                                  *)

Holds(queue, j, capacity) ==
    \E i \in 1..Len(queue) : i <= capacity /\ queue[i] = j

Mine(lock, j) == Holds(lock, j, 1)

Allowed(j) ==
    CASE rules[Host[j]] = "file" -> j \in Published
      [] rules[Host[j]] = "absent" -> TRUE
      [] OTHER -> FALSE

Go(j, where) == pc' = [pc EXCEPT ![j] = where]

\* A job is over.  gather answers with the documents of all its jobs, or
\* raises what the first of them raised and leaves the others running.
Finish(j, outcome) ==
    /\ Go(j, outcome)
    /\ batch' = [batch EXCEPT ![Batch[j]] =
            IF @ # "running" THEN @
            ELSE IF outcome = "failed" THEN "raised"
            ELSE IF \A k \in Jobs \ {j} : Batch[k] = Batch[j] => pc[k] = "parsed"
                 THEN "documents" ELSE @]

-----------------------------------------------------------------------------
(* RobotsCache                                                             *)

Enter(j) ==
    IF RespectRobots
    THEN Go(j, "robots") /\ guard' = Append(guard, j) /\ UNCHANGED slots
    ELSE Go(j, "slot") /\ slots' = Append(slots, j) /\ UNCHANGED guard

RunIngestionJobs(b) ==
    /\ batch[b] = "none"
    /\ batch' = [batch EXCEPT ![b] = "running"]
    /\ UNCHANGED <<pc, timer, attempt, rules, guard, slots, turns, age>>

\* _run_one looks up the parser and calls fetch.
RunOne(j) ==
    /\ pc[j] = "new"
    /\ batch[Batch[j]] # "none"
    /\ \/ j \in Parsable /\ Enter(j) /\ UNCHANGED batch
       \/ j \notin Parsable /\ Finish(j, "failed") /\ UNCHANGED <<guard, slots>>
    /\ UNCHANGED <<timer, attempt, rules, turns, age>>

\* The host is cached: is_allowed answers, and fetch goes on or refuses.
ConsultRobots(j) ==
    /\ pc[j] = "robots"
    /\ Mine(guard, j)
    /\ rules[Host[j]] # Unknown
    /\ guard' = Tail(guard)
    /\ IF Allowed(j)
       THEN Go(j, "slot") /\ slots' = Append(slots, j) /\ UNCHANGED batch
       ELSE Finish(j, "failed") /\ UNCHANGED slots
    /\ UNCHANGED <<timer, attempt, rules, turns, age>>

\* Mutant: whether the host is cached is looked up before _guard is taken.
AskRobotsAtOnce(j) ==
    /\ pc[j] = "robots"
    /\ rules[Host[j]] = Unknown
    /\ Go(j, "asking")
    /\ UNCHANGED <<timer, attempt, rules, guard, slots, turns, age, batch>>

\* The host is not cached: robots.txt is requested with _guard held.
AskRobots(j) ==
    /\ pc[j] = "robots"
    /\ Mine(guard, j)
    /\ rules[Host[j]] = Unknown
    /\ Go(j, "asking")
    /\ UNCHANGED <<timer, attempt, rules, guard, slots, turns, age, batch>>

\* Status 200 gives the file, 404 and 410 its absence; anything else, and
\* any httpx.HTTPError, is cached as a ban of the whole host.
RobotsAnswer(j) ==
    /\ pc[j] = "asking"
    /\ \E answer \in {"file", "absent", "ban"} :
            rules' = [rules EXCEPT ![Host[j]] = answer]
    /\ Go(j, "robots")
    /\ UNCHANGED <<timer, attempt, guard, slots, turns, age, batch>>

\* What is raised besides (httpx.InvalidURL, say) is not caught: the job is
\* over, nothing is cached, and the next one asks again.
RobotsRaises(j) ==
    /\ pc[j] = "asking"
    /\ guard' = Tail(guard)
    /\ Finish(j, "failed")
    /\ UNCHANGED <<timer, attempt, rules, slots, turns, age>>

-----------------------------------------------------------------------------
(* RateLimiter                                                             *)

\* A slot of the semaphore is taken before, and kept during, the wait for
\* the host's lock.
AskTurn(j) ==
    /\ pc[j] = "slot"
    /\ Holds(slots, j, MaxConcurrency)
    /\ turns' = [turns EXCEPT ![Host[j]] = Append(@, j)]
    /\ Go(j, "turn")
    /\ UNCHANGED <<timer, attempt, rules, guard, slots, age, batch>>

\* Mutant: no lock per host.
SpaceAtOnce(j) ==
    /\ pc[j] = "turn"
    /\ timer' = [timer EXCEPT ![j] = MinDelay - age[Host[j]]]
    /\ Go(j, "spacing")
    /\ UNCHANGED <<attempt, rules, guard, slots, turns, age, batch>>

\* The lock is held: what remains of the delay is computed, then slept.
Space(j) ==
    /\ pc[j] = "turn"
    /\ Mine(turns[Host[j]], j)
    /\ timer' = [timer EXCEPT ![j] = MinDelay - age[Host[j]]]
    /\ Go(j, "spacing")
    /\ UNCHANGED <<attempt, rules, guard, slots, turns, age, batch>>

\* The time is stamped, the lock released and the page requested.
SendRequest(j) ==
    /\ pc[j] = "spacing"
    /\ timer[j] = 0
    /\ age' = [age EXCEPT ![Host[j]] = 0]
    /\ turns' = [turns EXCEPT ![Host[j]] = Tail(@)]
    /\ Go(j, "sent")
    /\ UNCHANGED <<timer, attempt, rules, guard, slots, batch>>

-----------------------------------------------------------------------------
(* PoliteFetcher.fetch and the job around it                               *)

Release(j) == slots' = Remove(slots, j)

\* Mutant: the slot is given back after the call, not in a finally.
PageArrivesOrKeepsSlot(j) ==
    /\ pc[j] = "sent"
    /\ \/ Release(j) /\ Finish(j, "parsed")
       \/ Finish(j, "failed") /\ UNCHANGED slots
    /\ UNCHANGED <<timer, attempt, rules, guard, turns, age>>

\* An error of the transport; a response that is not 429 or 503, on which
\* raise_for_status and the parser of the job may raise; or a busy one with
\* a Retry-After that _retry_delay cannot convert (a date without a zone).
PageArrives(j) ==
    /\ pc[j] = "sent"
    /\ Release(j)
    /\ \E outcome \in {"parsed", "failed"} : Finish(j, outcome)
    /\ UNCHANGED <<timer, attempt, rules, guard, turns, age>>

\* 429 or 503, once too often: raise_for_status raises.
GiveUp(j) ==
    /\ pc[j] = "sent"
    /\ attempt[j] = MaxRetries
    /\ Release(j)
    /\ Finish(j, "failed")
    /\ UNCHANGED <<timer, attempt, rules, guard, turns, age>>

\* 429 or 503: sleep as long as Retry-After says, or 2^attempt seconds.
BackOff(j) ==
    /\ pc[j] = "sent"
    /\ attempt[j] < MaxRetries
    /\ Release(j)
    /\ attempt' = [attempt EXCEPT ![j] = @ + 1]
    /\ \E d \in RetryAfter \cup {2 ^ (attempt[j] + 1)} :
            timer' = [timer EXCEPT ![j] = d]
    /\ Go(j, "backoff")
    /\ UNCHANGED <<rules, guard, turns, age, batch>>

Retry(j) ==
    /\ pc[j] = "backoff"
    /\ timer[j] = 0
    /\ slots' = Append(slots, j)
    /\ Go(j, "slot")
    /\ UNCHANGED <<timer, attempt, rules, guard, turns, age, batch>>

Tick ==
    /\ timer' = [j \in Jobs |-> IF timer[j] > 0 THEN timer[j] - 1 ELSE 0]
    /\ age' = [h \in Hosts |-> IF age[h] < MinDelay THEN age[h] + 1 ELSE age[h]]
    /\ <<timer, age>>' # <<timer, age>>
    /\ UNCHANGED <<pc, attempt, rules, guard, slots, turns, batch>>

Step(j) ==
    \/ RunOne(j) \/ ConsultRobots(j) \/ AskRobots(j)
    \/ RobotsAnswer(j) \/ RobotsRaises(j)
    \/ AskTurn(j) \/ Space(j) \/ SendRequest(j)
    \/ PageArrives(j) \/ GiveUp(j) \/ BackOff(j) \/ Retry(j)

Next ==
    \/ \E b \in Batches : RunIngestionJobs(b)
    \/ \E j \in Jobs : Step(j)
    \/ Tick

\* The loop runs every coroutine that can go on, httpx ends every request
\* by an answer or a time-out, and time passes.  Nobody has to start a batch.
Spec == Init /\ [][Next]_vars /\ (\A j \in Jobs : WF_vars(Step(j))) /\ WF_vars(Tick)

-----------------------------------------------------------------------------
(* Properties                                                              *)

\* A page is requested only of a host whose robots.txt was read before and,
\* in the one version that is kept for the life of the process, lets the
\* page through, however many jobs met the host for the first time at once
\* (is_allowed holds _guard while it asks).
PagesFollowRobots ==
    RespectRobots => \A j \in Jobs : pc[j] = "sent" => Allowed(j)

\* Two requests for pages of one host are at least MinDelay apart, also
\* when they are retries and whoever waited in between (throttle).
PagesAreSpaced ==
    [][\A j \in Jobs :
          pc[j] # "sent" /\ pc'[j] = "sent" => age[Host[j]] = MinDelay]_vars

\* Every batch is answered and its last job ends, also after gather has
\* raised: no robots.txt, queue, slow host, busy answer or failed sibling
\* holds a job, and the slot it occupies, for ever.
EveryBatchEnds ==
    \A b \in Batches :
        batch[b] = "running" ~>
            /\ batch[b] \in {"documents", "raised"}
            /\ \A j \in Jobs : Batch[j] = b => pc[j] \in {"parsed", "failed"}

=============================================================================
