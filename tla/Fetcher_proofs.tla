---------------------------- MODULE Fetcher_proofs ----------------------------
(***************************************************************************)
(* Politeness for any number of jobs, hosts, batches and slots, any delay  *)
(* and any retries.  The semaphore and the backoff have no part in it:     *)
(* what keeps the promises are the two locks, whose holder is the head of  *)
(* the queue.                                                              *)
(***************************************************************************)
EXTENDS Fetcher, TLAPS

LocksOK ==
    /\ pc = [j \in Jobs |-> pc[j]]
    /\ timer = [j \in Jobs |-> timer[j]]
    /\ rules = [h \in Hosts |-> rules[h]]
    /\ guard \in Seq(Jobs)
    /\ turns \in [Hosts -> Seq(Jobs)]
    /\ age \in [Hosts -> 0..MinDelay]

(* Who asks for robots.txt holds the guard, and nothing is known yet.      *)
AskersHoldTheGuard ==
    \A j \in Jobs : pc[j] = "asking" =>
        guard # <<>> /\ guard[1] = j /\ rules[Host[j]] = Unknown

(* Whoever was let through is still allowed.                               *)
Underway == {"slot", "turn", "spacing", "sent", "backoff"}

TheAllowedStayAllowed ==
    RespectRobots => \A j \in Jobs : pc[j] \in Underway => Allowed(j)

(* Who sleeps before a request has the turn of its host, and will have     *)
(* slept enough when the sleep is over.                                    *)
SleepersHoldTheTurn ==
    \A j \in Jobs : pc[j] = "spacing" =>
        /\ turns[Host[j]] # <<>> /\ turns[Host[j]][1] = j
        /\ timer[j] = MinDelay - age[Host[j]]

PoliteInv ==
    /\ LocksOK
    /\ AskersHoldTheGuard
    /\ TheAllowedStayAllowed
    /\ SleepersHoldTheTurn

USE FetcherAssumption

(* The head of a queue holds the lock, and keeps it when others queue up.  *)
LEMMA HeadHolds ==
    ASSUME NEW queue \in Seq(Jobs), NEW j \in Jobs
    PROVE  /\ Mine(queue, j) => queue # <<>> /\ queue[1] = j
           /\ Append(queue, j) \in Seq(Jobs)
           /\ queue # <<>> => /\ Append(queue, j) # <<>> /\ Append(queue, j)[1] = queue[1]
                              /\ Tail(queue) \in Seq(Jobs)
  BY DEF Mine, Holds

(* What a host lets through is a matter of its rules alone.                *)
LEMMA RulesDecide ==
    ASSUME NEW k \in Jobs, UNCHANGED rules, Allowed(k)
    PROVE  Allowed(k)'
  BY DEF Allowed

LEMMA PoliteInit == Init => PoliteInv
  <1> SUFFICES ASSUME Init PROVE PoliteInv
    OBVIOUS
  <1>1. LocksOK
    BY DEF Init, LocksOK
  <1>2. \A j \in Jobs : pc[j] = "new"
    BY DEF Init
  <1>3. QED
    BY <1>1, <1>2
       DEF PoliteInv, AskersHoldTheGuard, TheAllowedStayAllowed, SleepersHoldTheTurn, Underway

(* Steps that leave rules, guard and turns alone.                          *)
LEMMA LocksUntouched ==
    ASSUME PoliteInv, NEW j \in Jobs, NEW where, Go(j, where),
           where \notin {"asking", "spacing"},
           where \in Underway => pc[j] \in Underway,
           timer' = [k \in Jobs |-> timer'[k]],
           \A k \in Jobs \ {j} : timer'[k] = timer[k],
           UNCHANGED <<rules, guard, turns, age>>
    PROVE  PoliteInv'
  <1>1. /\ pc' = [k \in Jobs |-> pc'[k]] /\ pc'[j] = where
        /\ \A k \in Jobs : k # j => pc'[k] = pc[k]
    BY DEF PoliteInv, LocksOK, Go
  <1>2. LocksOK'
    BY <1>1 DEF PoliteInv, LocksOK
  <1>3. AskersHoldTheGuard'
    BY <1>1 DEF PoliteInv, AskersHoldTheGuard
  <1>4. TheAllowedStayAllowed'
    BY <1>1 DEF PoliteInv, TheAllowedStayAllowed, Allowed
  <1>5. SleepersHoldTheTurn'
    BY <1>1 DEF PoliteInv, SleepersHoldTheTurn
  <1>6. QED
    BY <1>2, <1>3, <1>4, <1>5 DEF PoliteInv

LEMMA RunOneIsPolite ==
    ASSUME PoliteInv, NEW j \in Jobs, RunOne(j)
    PROVE  PoliteInv'
  <1>1. CASE j \notin Parsable
    BY <1>1, LocksUntouched DEF RunOne, Finish, PoliteInv, LocksOK, Underway
  <1>2. CASE j \in Parsable /\ RespectRobots
    <2>1. /\ Go(j, "robots") /\ guard' = Append(guard, j)
          /\ UNCHANGED <<timer, rules, turns, age>>
      BY <1>2 DEF RunOne, Enter
    <2>2. /\ pc' = [k \in Jobs |-> pc'[k]] /\ pc'[j] = "robots"
          /\ \A k \in Jobs : k # j => pc'[k] = pc[k]
      BY <2>1 DEF PoliteInv, LocksOK, Go
    <2>3. guard' \in Seq(Jobs) /\ (guard # <<>> => guard' # <<>> /\ guard'[1] = guard[1])
      BY <2>1, HeadHolds DEF PoliteInv, LocksOK
    <2>4. LocksOK'
      BY <2>1, <2>2, <2>3 DEF PoliteInv, LocksOK
    <2>5. AskersHoldTheGuard'
      BY <2>1, <2>2, <2>3 DEF PoliteInv, AskersHoldTheGuard
    <2>6. TheAllowedStayAllowed' /\ SleepersHoldTheTurn'
      BY <2>1, <2>2
         DEF PoliteInv, TheAllowedStayAllowed, Allowed, SleepersHoldTheTurn, Underway
    <2>7. QED
      BY <2>4, <2>5, <2>6 DEF PoliteInv
  <1>3. CASE j \in Parsable /\ ~ RespectRobots
    <2>1. Go(j, "slot") /\ UNCHANGED <<timer, rules, guard, turns, age>>
      BY <1>3 DEF RunOne, Enter
    <2>2. /\ pc' = [k \in Jobs |-> pc'[k]] /\ pc'[j] = "slot"
          /\ \A k \in Jobs : k # j => pc'[k] = pc[k]
      BY <2>1 DEF PoliteInv, LocksOK, Go
    <2>3. QED
      BY <1>3, <2>1, <2>2
         DEF PoliteInv, LocksOK, AskersHoldTheGuard, TheAllowedStayAllowed,
             SleepersHoldTheTurn
  <1>4. QED
    BY <1>1, <1>2, <1>3

LEMMA ConsultRobotsIsPolite ==
    ASSUME PoliteInv, NEW j \in Jobs, ConsultRobots(j)
    PROVE  PoliteInv'
  <1>1. /\ pc[j] = "robots" /\ Mine(guard, j) /\ guard' = Tail(guard)
        /\ \/ Allowed(j) /\ Go(j, "slot")
           \/ Go(j, "failed")
        /\ UNCHANGED <<timer, rules, turns, age>>
    BY DEF ConsultRobots, Finish
  <1>2. /\ pc' = [k \in Jobs |-> pc'[k]]
        /\ pc'[j] = "failed" \/ (pc'[j] = "slot" /\ Allowed(j))
        /\ \A k \in Jobs : k # j => pc'[k] = pc[k]
    BY <1>1 DEF PoliteInv, LocksOK, Go
  <1>3. guard # <<>> /\ guard[1] = j /\ guard' \in Seq(Jobs)
    BY <1>1, HeadHolds DEF PoliteInv, LocksOK
  <1>4. LocksOK'
    BY <1>1, <1>2, <1>3 DEF PoliteInv, LocksOK
  <1>5. AskersHoldTheGuard'
    <2>1. \A k \in Jobs : pc[k] # "asking"
      BY <1>1, <1>3 DEF PoliteInv, AskersHoldTheGuard
    <2>2. QED
      BY <1>2, <2>1 DEF AskersHoldTheGuard
  <1>6. TheAllowedStayAllowed'
    <2>1. SUFFICES ASSUME RespectRobots, NEW k \in Jobs, pc'[k] \in Underway
                   PROVE  Allowed(k)'
      BY DEF TheAllowedStayAllowed
    <2>2. Allowed(k)
      BY <1>2, <2>1 DEF PoliteInv, TheAllowedStayAllowed, Underway
    <2>3. QED
      BY <1>1, <2>2, RulesDecide
  <1>7. SleepersHoldTheTurn'
    BY <1>1, <1>2 DEF PoliteInv, SleepersHoldTheTurn
  <1>8. QED
    BY <1>4, <1>5, <1>6, <1>7 DEF PoliteInv

LEMMA RobotsRaisesIsPolite ==
    ASSUME PoliteInv, NEW j \in Jobs, RobotsRaises(j)
    PROVE  PoliteInv'
  <1>1. /\ pc[j] = "asking" /\ guard' = Tail(guard) /\ Go(j, "failed")
        /\ UNCHANGED <<timer, rules, turns, age>>
    BY DEF RobotsRaises, Finish
  <1>2. /\ pc' = [k \in Jobs |-> pc'[k]] /\ pc'[j] = "failed"
        /\ \A k \in Jobs : k # j => pc'[k] = pc[k]
    BY <1>1 DEF PoliteInv, LocksOK, Go
  <1>3. guard # <<>> /\ guard[1] = j /\ guard' \in Seq(Jobs)
    BY <1>1, HeadHolds DEF PoliteInv, LocksOK, AskersHoldTheGuard
  <1>4. LocksOK'
    BY <1>1, <1>2, <1>3 DEF PoliteInv, LocksOK
  <1>5. AskersHoldTheGuard'
    BY <1>2, <1>3 DEF PoliteInv, AskersHoldTheGuard
  <1>6. TheAllowedStayAllowed'
    BY <1>1, <1>2 DEF PoliteInv, TheAllowedStayAllowed, Allowed, Underway
  <1>7. SleepersHoldTheTurn'
    BY <1>1, <1>2 DEF PoliteInv, SleepersHoldTheTurn
  <1>8. QED
    BY <1>4, <1>5, <1>6, <1>7 DEF PoliteInv

LEMMA AskingIsPolite ==
    ASSUME PoliteInv, NEW j \in Jobs, AskRobots(j) \/ RobotsAnswer(j)
    PROVE  PoliteInv'
  <1>1. CASE AskRobots(j)
    <2>1. /\ Mine(guard, j) /\ rules[Host[j]] = Unknown /\ Go(j, "asking")
          /\ UNCHANGED <<timer, rules, guard, turns, age>>
      BY <1>1 DEF AskRobots
    <2>2. /\ pc' = [k \in Jobs |-> pc'[k]] /\ pc'[j] = "asking"
          /\ \A k \in Jobs : k # j => pc'[k] = pc[k]
      BY <2>1 DEF PoliteInv, LocksOK, Go
    <2>3. guard # <<>> /\ guard[1] = j
      BY <2>1, HeadHolds DEF PoliteInv, LocksOK
    <2>4. QED
      BY <2>1, <2>2, <2>3
         DEF PoliteInv, LocksOK, AskersHoldTheGuard, TheAllowedStayAllowed, Allowed,
             SleepersHoldTheTurn, Underway
  <1>2. CASE RobotsAnswer(j)
    <2>1. /\ pc[j] = "asking" /\ Go(j, "robots")
          /\ \E answer : rules' = [rules EXCEPT ![Host[j]] = answer]
          /\ UNCHANGED <<timer, guard, turns, age>>
      BY <1>2 DEF RobotsAnswer
    <2>2. /\ pc' = [k \in Jobs |-> pc'[k]] /\ pc'[j] = "robots"
          /\ \A k \in Jobs : k # j => pc'[k] = pc[k]
      BY <2>1 DEF PoliteInv, LocksOK, Go
    <2>3. /\ rules' = [h \in Hosts |-> rules'[h]]
          /\ \A h \in Hosts : h # Host[j] => rules'[h] = rules[h]
      BY <2>1 DEF PoliteInv, LocksOK
    <2>4. guard[1] = j /\ rules[Host[j]] = Unknown
      BY <2>1 DEF PoliteInv, AskersHoldTheGuard
    <2>5. \A k \in Jobs : Host[k] \in Hosts
      OBVIOUS
    <2>6. AskersHoldTheGuard'
      <3>1. \A k \in Jobs : pc'[k] # "asking"
        BY <2>2, <2>4 DEF PoliteInv, AskersHoldTheGuard
      <3>2. QED
        BY <3>1 DEF AskersHoldTheGuard
    <2>7. TheAllowedStayAllowed'
      <3>1. SUFFICES ASSUME RespectRobots, NEW k \in Jobs, pc'[k] \in Underway
                     PROVE  Allowed(k)'
        BY DEF TheAllowedStayAllowed
      <3>2. k # j /\ Allowed(k)
        BY <2>2, <3>1 DEF PoliteInv, TheAllowedStayAllowed, Underway
      <3>3. Host[k] # Host[j]
        BY <2>4, <3>2 DEF Allowed, Unknown
      <3>4. QED
        BY <2>3, <2>5, <3>2, <3>3 DEF Allowed
    <2>8. LocksOK'
      BY <2>1, <2>2, <2>3 DEF PoliteInv, LocksOK
    <2>9. SleepersHoldTheTurn'
      BY <2>1, <2>2 DEF PoliteInv, SleepersHoldTheTurn
    <2>10. QED
      BY <2>6, <2>7, <2>8, <2>9 DEF PoliteInv
  <1>3. QED
    BY <1>1, <1>2

LEMMA TurnsArePolite ==
    ASSUME PoliteInv, NEW j \in Jobs, AskTurn(j) \/ Space(j) \/ SendRequest(j)
    PROVE  PoliteInv'
  <1>1. CASE AskTurn(j)
    <2>1. /\ pc[j] = "slot" /\ Go(j, "turn")
          /\ turns' = [turns EXCEPT ![Host[j]] = Append(@, j)]
          /\ UNCHANGED <<timer, rules, guard, age>>
      BY <1>1 DEF AskTurn
    <2>2. /\ pc' = [k \in Jobs |-> pc'[k]] /\ pc'[j] = "turn"
          /\ \A k \in Jobs : k # j => pc'[k] = pc[k]
      BY <2>1 DEF PoliteInv, LocksOK, Go
    <2>3. /\ turns' \in [Hosts -> Seq(Jobs)]
          /\ \A h \in Hosts : turns[h] # <<>> => turns'[h] # <<>> /\ turns'[h][1] = turns[h][1]
      <3>1. turns \in [Hosts -> Seq(Jobs)] /\ Host[j] \in Hosts
        BY DEF PoliteInv, LocksOK
      <3>2. \A h \in Hosts :
                turns'[h] = IF h = Host[j] THEN Append(turns[h], j) ELSE turns[h]
        BY <2>1, <3>1
      <3>3. Append(turns[Host[j]], j) \in Seq(Jobs)
        BY <3>1, HeadHolds
      <3>4. turns' \in [Hosts -> Seq(Jobs)]
        BY <2>1, <3>1, <3>3
      <3>5. turns[Host[j]] # <<>> =>
                /\ Append(turns[Host[j]], j) # <<>>
                /\ Append(turns[Host[j]], j)[1] = turns[Host[j]][1]
        BY <3>1, HeadHolds
      <3>6. QED
        BY <3>2, <3>4, <3>5
    <2>4. LocksOK' /\ AskersHoldTheGuard'
      BY <2>1, <2>2, <2>3 DEF PoliteInv, LocksOK, AskersHoldTheGuard
    <2>5. TheAllowedStayAllowed'
      <3>1. SUFFICES ASSUME RespectRobots, NEW k \in Jobs, pc'[k] \in Underway
                     PROVE  Allowed(k)'
        BY DEF TheAllowedStayAllowed
      <3>2. Allowed(k)
        BY <2>1, <2>2, <3>1 DEF PoliteInv, TheAllowedStayAllowed, Underway
      <3>3. QED
        BY <2>1, <3>2, RulesDecide
    <2>6. SleepersHoldTheTurn'
      <3>1. SUFFICES ASSUME NEW k \in Jobs, pc'[k] = "spacing"
                     PROVE  /\ turns'[Host[k]] # <<>> /\ turns'[Host[k]][1] = k
                            /\ timer'[k] = MinDelay - age'[Host[k]]
        BY DEF SleepersHoldTheTurn
      <3>2. /\ turns[Host[k]] # <<>> /\ turns[Host[k]][1] = k
            /\ timer[k] = MinDelay - age[Host[k]] /\ Host[k] \in Hosts
        BY <2>2, <3>1 DEF PoliteInv, SleepersHoldTheTurn
      <3>3. QED
        BY <2>1, <2>3, <3>2
    <2>7. QED
      BY <2>4, <2>5, <2>6 DEF PoliteInv
  <1>2. CASE Space(j)
    <2>1. /\ pc[j] = "turn" /\ Mine(turns[Host[j]], j) /\ Go(j, "spacing")
          /\ timer' = [timer EXCEPT ![j] = MinDelay - age[Host[j]]]
          /\ UNCHANGED <<rules, guard, turns, age>>
      BY <1>2 DEF Space
    <2>2. /\ pc' = [k \in Jobs |-> pc'[k]] /\ pc'[j] = "spacing"
          /\ \A k \in Jobs : k # j => pc'[k] = pc[k]
      BY <2>1 DEF PoliteInv, LocksOK, Go
    <2>3. /\ timer' = [k \in Jobs |-> timer'[k]] /\ timer'[j] = MinDelay - age[Host[j]]
          /\ \A k \in Jobs : k # j => timer'[k] = timer[k]
      BY <2>1 DEF PoliteInv, LocksOK
    <2>4. turns[Host[j]] # <<>> /\ turns[Host[j]][1] = j
      BY <2>1, HeadHolds DEF PoliteInv, LocksOK
    <2>5. LocksOK' /\ AskersHoldTheGuard'
      BY <2>1, <2>2, <2>3 DEF PoliteInv, LocksOK, AskersHoldTheGuard
    <2>6. TheAllowedStayAllowed'
      BY <2>1, <2>2 DEF PoliteInv, TheAllowedStayAllowed, Allowed, Underway
    <2>7. SleepersHoldTheTurn'
      BY <2>1, <2>2, <2>3, <2>4 DEF PoliteInv, SleepersHoldTheTurn
    <2>8. QED
      BY <2>5, <2>6, <2>7 DEF PoliteInv
  <1>3. CASE SendRequest(j)
    <2>1. /\ pc[j] = "spacing" /\ Go(j, "sent")
          /\ age' = [age EXCEPT ![Host[j]] = 0]
          /\ turns' = [turns EXCEPT ![Host[j]] = Tail(@)]
          /\ UNCHANGED <<timer, rules, guard>>
      BY <1>3 DEF SendRequest
    <2>2. /\ pc' = [k \in Jobs |-> pc'[k]] /\ pc'[j] = "sent"
          /\ \A k \in Jobs : k # j => pc'[k] = pc[k]
      BY <2>1 DEF PoliteInv, LocksOK, Go
    <2>3. turns[Host[j]] # <<>> /\ turns[Host[j]][1] = j
      BY <2>1 DEF PoliteInv, SleepersHoldTheTurn
    <2>4. /\ turns' \in [Hosts -> Seq(Jobs)] /\ age' \in [Hosts -> 0..MinDelay]
          /\ \A h \in Hosts : h # Host[j] => turns'[h] = turns[h] /\ age'[h] = age[h]
      <3>1. turns \in [Hosts -> Seq(Jobs)] /\ Host[j] \in Hosts /\ age \in [Hosts -> 0..MinDelay]
        BY DEF PoliteInv, LocksOK
      <3>2. Tail(turns[Host[j]]) \in Seq(Jobs) /\ 0 \in 0..MinDelay
        BY <2>3, <3>1, HeadHolds
      <3>3. QED
        BY <2>1, <3>1, <3>2
    <2>5. SleepersHoldTheTurn'
      <3>1. SUFFICES ASSUME NEW k \in Jobs, pc'[k] = "spacing"
                     PROVE  /\ turns'[Host[k]] # <<>> /\ turns'[Host[k]][1] = k
                            /\ timer'[k] = MinDelay - age'[Host[k]]
        BY DEF SleepersHoldTheTurn
      <3>2. /\ pc[k] = "spacing" /\ k # j
            /\ turns[Host[k]] # <<>> /\ turns[Host[k]][1] = k
            /\ timer[k] = MinDelay - age[Host[k]]
        BY <2>2, <3>1 DEF PoliteInv, SleepersHoldTheTurn
      <3>3. Host[k] # Host[j] /\ Host[k] \in Hosts
        BY <2>3, <3>2
      <3>4. QED
        BY <2>1, <2>4, <3>2, <3>3
    <2>6. AskersHoldTheGuard' /\ TheAllowedStayAllowed'
      BY <2>1, <2>2
         DEF PoliteInv, AskersHoldTheGuard, TheAllowedStayAllowed, Allowed, Underway
    <2>7. LocksOK'
      BY <2>1, <2>2, <2>4 DEF PoliteInv, LocksOK
    <2>8. QED
      BY <2>5, <2>6, <2>7 DEF PoliteInv
  <1>4. QED
    BY <1>1, <1>2, <1>3

LEMMA AnswersArePolite ==
    ASSUME PoliteInv, NEW j \in Jobs,
           PageArrives(j) \/ GiveUp(j) \/ BackOff(j) \/ Retry(j)
    PROVE  PoliteInv'
  <1>1. timer = [k \in Jobs |-> timer[k]]
    BY DEF PoliteInv, LocksOK
  <1>2. CASE PageArrives(j) \/ GiveUp(j)
    <2>1. \E outcome \in {"parsed", "failed"} : Go(j, outcome)
      BY <1>2 DEF PageArrives, GiveUp, Finish
    <2>2. UNCHANGED <<timer, rules, guard, turns, age>>
      BY <1>2 DEF PageArrives, GiveUp
    <2>3. QED
      BY <1>1, <2>1, <2>2, LocksUntouched DEF Underway
  <1>3. CASE BackOff(j)
    <2>1. /\ pc[j] = "sent" /\ Go(j, "backoff")
          /\ \E d : timer' = [timer EXCEPT ![j] = d]
          /\ UNCHANGED <<rules, guard, turns, age>>
      BY <1>3 DEF BackOff
    <2>2. /\ timer' = [k \in Jobs |-> timer'[k]]
          /\ \A k \in Jobs \ {j} : timer'[k] = timer[k]
      BY <1>1, <2>1
    <2>3. QED
      BY <2>1, <2>2, LocksUntouched DEF Underway
  <1>4. CASE Retry(j)
    <2>1. /\ pc[j] = "backoff" /\ Go(j, "slot")
          /\ UNCHANGED <<timer, rules, guard, turns, age>>
      BY <1>4 DEF Retry
    <2>2. QED
      BY <1>1, <2>1, LocksUntouched DEF Underway
  <1>5. QED
    BY <1>2, <1>3, <1>4

(* A sleep shortens as the host's last request gets older.                 *)
LEMMA TickIsPolite ==
    ASSUME PoliteInv, Tick
    PROVE  PoliteInv'
  <1>1. /\ timer' = [j \in Jobs |-> IF timer[j] > 0 THEN timer[j] - 1 ELSE 0]
        /\ age' = [h \in Hosts |-> IF age[h] < MinDelay THEN age[h] + 1 ELSE age[h]]
        /\ UNCHANGED <<pc, rules, guard, turns>>
    BY DEF Tick
  <1>2. \A h \in Hosts : age[h] \in 0..MinDelay
    BY DEF PoliteInv, LocksOK
  <1>3. age' \in [Hosts -> 0..MinDelay]
    <2>1. \A h \in Hosts : (IF age[h] < MinDelay THEN age[h] + 1 ELSE age[h]) \in 0..MinDelay
      BY <1>2
    <2>2. QED
      BY <1>1, <2>1
  <1>4. LocksOK'
    BY <1>1, <1>3 DEF PoliteInv, LocksOK
  <1>5. SleepersHoldTheTurn'
    <2>1. SUFFICES ASSUME NEW j \in Jobs, pc[j] = "spacing"
                   PROVE  /\ turns[Host[j]] # <<>> /\ turns[Host[j]][1] = j
                          /\ timer'[j] = MinDelay - age'[Host[j]]
      BY <1>1 DEF SleepersHoldTheTurn
    <2>2. /\ turns[Host[j]] # <<>> /\ turns[Host[j]][1] = j
          /\ timer[j] = MinDelay - age[Host[j]] /\ Host[j] \in Hosts
      BY <2>1 DEF PoliteInv, SleepersHoldTheTurn
    <2>3. QED
      BY <1>1, <1>2, <2>2
  <1>6. AskersHoldTheGuard' /\ TheAllowedStayAllowed'
    BY <1>1 DEF PoliteInv, AskersHoldTheGuard, TheAllowedStayAllowed, Allowed
  <1>7. QED
    BY <1>4, <1>5, <1>6 DEF PoliteInv

LEMMA PoliteStep == PoliteInv /\ [Next]_vars => PoliteInv'
  <1>1. ASSUME PoliteInv, NEW b \in Batches, RunIngestionJobs(b) PROVE PoliteInv'
    BY <1>1 DEF RunIngestionJobs, PoliteInv, LocksOK, AskersHoldTheGuard,
       TheAllowedStayAllowed, Allowed, SleepersHoldTheTurn
  <1>2. ASSUME PoliteInv, UNCHANGED vars PROVE PoliteInv'
    BY <1>2 DEF vars, PoliteInv, LocksOK, AskersHoldTheGuard,
       TheAllowedStayAllowed, Allowed, SleepersHoldTheTurn
  <1>3. QED
    BY <1>1, <1>2, RunOneIsPolite, ConsultRobotsIsPolite, AskingIsPolite,
       RobotsRaisesIsPolite, TurnsArePolite, AnswersArePolite, TickIsPolite DEF Next, Step

(* The locks are held as the code intends, however jobs interleave.        *)
THEOREM PoliteInvariantHolds == Spec => []PoliteInv
  <1>1. QED
    BY PoliteInit, PoliteStep, PTL DEF Spec

(* No page is requested that the robots.txt of its host, read once and     *)
(* kept, does not let through (RobotsCache.is_allowed).                    *)
THEOREM RobotsAreRespected == Spec => []PagesFollowRobots
  <1>1. PoliteInv => PagesFollowRobots
    BY DEF PoliteInv, TheAllowedStayAllowed, PagesFollowRobots, Underway
  <1>2. QED
    BY <1>1, PoliteInvariantHolds, PTL

(* Requests for pages of one host are MinDelay apart, retries included     *)
(* (RateLimiter.throttle).                                                 *)
THEOREM RequestsAreSpaced == Spec => PagesAreSpaced
  <1> DEFINE Spaced ==
         \A j \in Jobs : pc[j] # "sent" /\ pc'[j] = "sent" => age[Host[j]] = MinDelay
  <1>1. PoliteInv /\ [Next]_vars => [Spaced]_vars
    <2> SUFFICES ASSUME PoliteInv, Next, NEW j \in Jobs, pc[j] # "sent", pc'[j] = "sent"
                 PROVE  age[Host[j]] = MinDelay
      OBVIOUS
    <2>1. SendRequest(j)
      <3>1. PICK k \in Jobs : Step(k)
        BY DEF Next, RunIngestionJobs, Tick
      <3>2. \A where : Go(k, where) => k = j /\ where = "sent"
        BY DEF PoliteInv, LocksOK, Go
      <3>3. ~ RunOne(k)
        BY <3>2 DEF RunOne, Enter, Finish
      <3>4. ~ ConsultRobots(k) /\ ~ RobotsRaises(k) /\ ~ PageArrives(k) /\ ~ GiveUp(k)
        BY <3>2 DEF ConsultRobots, RobotsRaises, PageArrives, GiveUp, Finish
      <3>5. /\ ~ AskRobots(k) /\ ~ RobotsAnswer(k) /\ ~ AskTurn(k) /\ ~ Space(k)
            /\ ~ BackOff(k) /\ ~ Retry(k)
        BY <3>2 DEF AskRobots, RobotsAnswer, AskTurn, Space, BackOff, Retry
      <3>6. SendRequest(k) /\ k = j
        BY <3>1, <3>2, <3>3, <3>4, <3>5 DEF Step, SendRequest
      <3>7. QED
        BY <3>6
    <2>2. pc[j] = "spacing" /\ timer[j] = 0
      BY <2>1 DEF SendRequest
    <2>3. 0 = MinDelay - age[Host[j]] /\ Host[j] \in Hosts /\ age[Host[j]] \in 0..MinDelay
      BY <2>2 DEF PoliteInv, SleepersHoldTheTurn, LocksOK
    <2>4. QED
      BY <2>3
  <1>2. QED
    BY <1>1, PoliteInvariantHolds, PTL DEF Spec, PagesAreSpaced
=============================================================================
