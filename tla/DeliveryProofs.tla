--------------------------- MODULE DeliveryProofs ---------------------------
(* Theorems about Delivery, for every number of posts and every duration. *)
EXTENDS Delivery, TLAPS

\* A request never gives up before it starts, nor after the deadline unless it
\* starts after it; and one that is answered ends before the deadline.
LEMMA GivesUpFacts ==
    ASSUME NEW s \in Nat
    PROVE  /\ GivesUp(s) \in Nat
           /\ s <= GivesUp(s)
           /\ GivesUp(s) <= s \/ GivesUp(s) <= Deadline
           /\ \A d \in Nat : InTime(s, d) => s + d < Deadline
BY DeliveryAssumption DEF GivesUp, Least, InTime

\* A post starts now or after the spacing.
LEMMA PostStartFacts ==
    ASSUME TypeOK
    PROVE  /\ PostStart \in Nat
           /\ clock <= PostStart
           /\ PostStart <= clock + Spacing
           /\ retrying => PostStart = clock
           /\ at = 1 => PostStart = clock
BY DeliveryAssumption DEF PostStart, TypeOK

\* The steps of Next, one by one.
Sends ==
    \/ \E d \in Delays : Accepted(d) \/ Refused(d)
    \/ Broken

\* Recording a result moves on to the next post.
LEMMA RecordFacts ==
    ASSUME TypeOK, at <= Posts,
           NEW r \in {"none", "sent", "refused", "failed"}, Record(r)
    PROVE  /\ results' \in [1..Posts -> {"none", "sent", "refused", "failed"}]
           /\ at' = at + 1 /\ at' \in 1..(Posts + 1)
           /\ retrying' = FALSE
           /\ at \in 1..Posts
BY DeliveryAssumption DEF TypeOK, Record

\* A post that is through: what it costs, and that Slack took it once at most.
LEMMA SendsFacts ==
    ASSUME TypeOK, Sends
    PROVE  /\ at \in 1..Posts
           /\ clock' \in Nat
           /\ clock' <= clock + Spacing \/ clock' <= Deadline
           /\ quiet' \in Nat
           /\ results' \in [1..Posts -> {"none", "sent", "refused", "failed"}]
           /\ at' = at + 1 /\ at' \in 1..(Posts + 1) /\ retrying' = FALSE
           /\ taken' = taken \/ taken' = [taken EXCEPT ![at] = @ + 1]
           /\ UNCHANGED <<beats, pinged, blips>>
<1>1. ASSUME NEW d \in Delays, Accepted(d) \/ Refused(d)
      PROVE  /\ at <= Posts /\ (Record("sent") \/ Record("refused"))
             /\ clock' = PostStart + d /\ quiet' = 0
             /\ InTime(PostStart, d) /\ d \in Nat
             /\ taken' = taken \/ taken' = [taken EXCEPT ![at] = @ + 1]
             /\ UNCHANGED <<beats, pinged, blips>>
  <2>1. PostStart \in Nat /\ d \in Nat
    BY DeliveryAssumption, PostStartFacts
  <2>2. PostStart + d + 0 = PostStart + d
    BY <2>1
  <2>3. QED BY <1>1, <2>1, <2>2 DEF Accepted, Refused, Spend
<1>2. CASE \E d \in Delays : Accepted(d) \/ Refused(d)
  <2>1. PICK d \in Delays : Accepted(d) \/ Refused(d)
    BY <1>2
  <2>2. clock' = PostStart + d /\ d \in Nat /\ PostStart \in Nat
        /\ InTime(PostStart, d)
    BY <1>1, <2>1, PostStartFacts
  <2>3. PostStart + d < Deadline
    BY <2>2, GivesUpFacts
  <2>4. clock' \in Nat /\ clock' <= Deadline
    BY <2>2, <2>3, DeliveryAssumption
  <2>5. /\ at <= Posts /\ (Record("sent") \/ Record("refused"))
        /\ quiet' \in Nat
        /\ taken' = taken \/ taken' = [taken EXCEPT ![at] = @ + 1]
        /\ UNCHANGED <<beats, pinged, blips>>
    BY <1>1, <2>1
  <2>6. CASE Record("sent")
    BY <2>4, <2>5, <2>6, RecordFacts
  <2>7. CASE Record("refused")
    BY <2>4, <2>5, <2>7, RecordFacts
  <2>8. QED BY <2>5, <2>6, <2>7
<1>3. CASE Broken
  <2>1. clock' = GivesUp(PostStart) + 0 /\ quiet' = 0 /\ at <= Posts
        /\ Record("failed") /\ UNCHANGED <<beats, pinged, blips>>
        /\ (taken' = taken \/ taken' = [taken EXCEPT ![at] = @ + 1])
    BY <1>3 DEF Broken, Spend
  <2>2. PostStart \in Nat /\ PostStart <= clock + Spacing
    BY PostStartFacts
  <2>3. /\ GivesUp(PostStart) \in Nat
        /\ GivesUp(PostStart) <= PostStart \/ GivesUp(PostStart) <= Deadline
    BY <2>2, GivesUpFacts
  <2>4. clock \in Nat /\ Spacing \in Nat /\ Deadline \in Nat
    BY DeliveryAssumption DEF TypeOK
  <2>5. clock' \in Nat /\ (clock' <= clock + Spacing \/ clock' <= Deadline)
    BY <2>1, <2>2, <2>3, <2>4
  <2>6. QED BY <2>1, <2>5, RecordFacts
<1>4. QED BY <1>2, <1>3 DEF Sends

\* A first 429: the post is still the same, and the sleep starts in time.
LEMMA LimitedFacts ==
    ASSUME TypeOK, NEW d \in Delays, NEW wait \in RetryAfter, Limited(d, wait)
    PROVE  /\ clock' \in Nat /\ clock' <= Deadline + MaxRetryAfter
           /\ quiet' \in Nat /\ retrying' = TRUE
           /\ UNCHANGED <<at, results, taken, beats, pinged, blips>>
<1>1. d \in Nat /\ wait \in Nat /\ wait <= MaxRetryAfter /\ MaxRetryAfter \in Nat
      /\ PostStart \in Nat
  BY DeliveryAssumption, PostStartFacts
<1>2. PostStart + d < Deadline
  BY <1>1, GivesUpFacts DEF Limited
<1>3. clock' = PostStart + d + wait /\ quiet' = wait
  BY DEF Limited, Spend
<1>4. QED BY <1>1, <1>2, <1>3, DeliveryAssumption DEF Limited, Spend

Beats ==
    \/ \E d \in Delays : PingAnswered(d) \/ PingRefused(d)
    \/ PingFails

\* An attempt to ping, with the pause after it.
LEMMA BeatsFacts ==
    ASSUME TypeOK, Beats
    PROVE  /\ clock' \in Nat
           /\ \/ clock' <= clock + (beats + 1) * Pause
              \/ clock' <= Deadline + (beats + 1) * Pause
           /\ beats' = beats + 1 /\ beats' \in 0..Attempts
           /\ pinged' \in BOOLEAN /\ blips' \in Nat
           /\ UNCHANGED <<at, retrying, results, taken, quiet>>
<1>1. PICK until \in Nat, answered \in BOOLEAN :
        /\ Beat(until, answered)
        /\ until <= clock \/ until <= Deadline
        /\ blips' \in Nat
  <2>1. CASE \E d \in Delays : PingAnswered(d) \/ PingRefused(d)
    <3>1. PICK d \in Delays : PingAnswered(d) \/ PingRefused(d)
      BY <2>1
    <3>2. clock \in Nat /\ d \in Nat /\ Deadline \in Nat /\ blips \in Nat
      BY DeliveryAssumption DEF TypeOK
    <3>3. InTime(clock, d) /\ (blips' = blips \/ blips' = blips + 1)
      BY <3>1 DEF PingAnswered, PingRefused
    <3>4. clock + d < Deadline
      BY <3>2, <3>3, GivesUpFacts
    <3>5. clock + d \in Nat /\ clock + d <= Deadline /\ blips' \in Nat
      BY <3>2, <3>3, <3>4
    <3>6. Beat(clock + d, TRUE) \/ Beat(clock + d, FALSE)
      BY <3>1 DEF PingAnswered, PingRefused
    <3>7. QED BY <3>5, <3>6
  <2>2. CASE PingFails
    <3>1. GivesUp(clock) \in Nat
          /\ (GivesUp(clock) <= clock \/ GivesUp(clock) <= Deadline)
      BY GivesUpFacts DEF TypeOK
    <3>2. blips' \in Nat
      BY <2>2 DEF TypeOK, PingFails
    <3>3. QED BY <2>2, <3>1, <3>2 DEF PingFails
  <2>3. QED BY <2>1, <2>2 DEF Beats
<1>2. (beats + 1) * Pause \in Nat
  BY DeliveryAssumption DEF TypeOK
<1>3. clock' = until \/ clock' = until + (beats + 1) * Pause
  BY <1>1 DEF Beat
<1>4. clock \in Nat /\ beats \in 0..Attempts /\ beats < Attempts
      /\ Attempts \in Nat /\ Deadline \in Nat
  BY <1>1, DeliveryAssumption DEF TypeOK, Beat, Pinging
<1>5. beats' = beats + 1 /\ pinged' = answered
      /\ UNCHANGED <<at, retrying, results, taken, quiet>>
  BY <1>1 DEF Beat
<1>6. QED BY <1>1, <1>2, <1>3, <1>4, <1>5

\* Next, as the three kinds of steps the proofs distinguish.
LEMMA NextSteps ==
    ASSUME [Next]_vars
    PROVE  \/ Sends
           \/ \E d \in Delays, wait \in RetryAfter : Limited(d, wait)
           \/ Beats
           \/ UNCHANGED vars
BY DEF Next, Sends, Beats, Terminated

-----------------------------------------------------------------------------
(* Type correctness *)

\* A run that is about to deliver is well formed.
LEMMA InitType == Init => TypeOK
<1> SUFFICES ASSUME Init PROVE TypeOK
  OBVIOUS
<1>1. clock \in Nat /\ quiet \in Nat /\ beats \in 0..Attempts /\ blips \in Nat
      /\ at \in 1..(Posts + 1)
  BY DeliveryAssumption DEF Init
<1>2. /\ results \in [1..Posts -> {"none", "sent", "refused", "failed"}]
      /\ taken \in [1..Posts -> Nat]
  BY DEF Init
<1>3. retrying \in BOOLEAN /\ pinged \in BOOLEAN
  BY DEF Init
<1>4. QED BY <1>1, <1>2, <1>3 DEF TypeOK

\* Every step keeps the state well formed.
LEMMA NextType == TypeOK /\ [Next]_vars => TypeOK'
<1> SUFFICES ASSUME TypeOK, [Next]_vars PROVE TypeOK'
  OBVIOUS
<1>1. CASE Sends
  <2>1. taken' \in [1..Posts -> Nat]
    <3>1. at \in 1..Posts /\ taken \in [1..Posts -> Nat]
      BY <1>1, SendsFacts DEF TypeOK
    <3>2. taken[at] + 1 \in Nat
      BY <3>1
    <3>3. [taken EXCEPT ![at] = taken[at] + 1] \in [1..Posts -> Nat]
      BY <3>1, <3>2
    <3>4. taken' = taken \/ taken' = [taken EXCEPT ![at] = taken[at] + 1]
      BY <1>1, SendsFacts
    <3>5. QED BY <3>1, <3>3, <3>4
  <2>2. beats' \in 0..Attempts /\ pinged' \in BOOLEAN /\ blips' \in Nat
    BY <1>1, SendsFacts DEF TypeOK
  <2>3. QED BY <1>1, <2>1, <2>2, SendsFacts DEF TypeOK
<1>2. CASE \E d \in Delays, wait \in RetryAfter : Limited(d, wait)
  BY <1>2, LimitedFacts DEF TypeOK
<1>3. CASE Beats
  BY <1>3, BeatsFacts DEF TypeOK
<1>4. CASE UNCHANGED vars
  BY <1>4 DEF vars, TypeOK
<1>5. QED BY <1>1, <1>2, <1>3, <1>4, NextSteps

\* The state of a delivery is well formed.
THEOREM TypeCorrect == Spec => []TypeOK
<1>1. TypeOK /\ [Next]_vars => TypeOK'
  BY NextType
<1>2. QED BY <1>1, InitType, PTL DEF Spec

-----------------------------------------------------------------------------
(* No duplicates *)

\* Strengthening: Slack has not taken a post Deliver has not finished with.
Untaken ==
    \A p \in 1..Posts : taken[p] <= 1 /\ (p >= at => taken[p] = 0)

\* A post is taken in the step that moves Deliver past it, so never again.
LEMMA NextUntaken == TypeOK /\ Untaken /\ [Next]_vars => Untaken'
<1> SUFFICES ASSUME TypeOK, Untaken, [Next]_vars PROVE Untaken'
  OBVIOUS
<1>1. CASE Sends
  <2>1. /\ at \in 1..Posts /\ at' = at + 1
        /\ taken' = taken \/ taken' = [taken EXCEPT ![at] = @ + 1]
    BY <1>1, SendsFacts
  <2>2. taken \in [1..Posts -> Nat] /\ Posts \in Nat
    BY DeliveryAssumption DEF TypeOK
  <2>3. QED BY <2>1, <2>2 DEF Untaken
<1>2. CASE \E d \in Delays, wait \in RetryAfter : Limited(d, wait)
  BY <1>2, LimitedFacts DEF Untaken
<1>3. CASE Beats
  BY <1>3, BeatsFacts DEF Untaken
<1>4. CASE UNCHANGED vars
  BY <1>4 DEF vars, Untaken
<1>5. QED BY <1>1, <1>2, <1>3, <1>4, NextSteps

\* Slack takes every post of a run once at most, whatever it answers and however
\* late: the only retry follows an answer that says it was not taken.
THEOREM NoDuplicates == Spec => []TakenAtMostOnce
<1>1. Init => TypeOK /\ Untaken
  BY InitType DEF Init, Untaken
<1>2. TypeOK /\ Untaken /\ [Next]_vars => (TypeOK /\ Untaken)'
  BY NextType, NextUntaken
<1>3. Untaken => TakenAtMostOnce
  BY DEF Untaken, TakenAtMostOnce
<1>4. QED BY <1>1, <1>2, <1>3, PTL DEF Spec

-----------------------------------------------------------------------------
(* The run is bounded *)

\* Strengthening: what the posts and the pings so far may have cost.
Budget ==
    clock <= Deadline + MaxRetryAfter + (at - 1) * Spacing
             + beats * (Attempts * Pause)

\* Nothing is spent when Deliver starts.
LEMMA InitBudget == Init => Budget
<1> SUFFICES ASSUME Init PROVE Budget
  OBVIOUS
<1>1. clock \in Nat /\ clock <= Deadline /\ at = 1 /\ beats = 0
  BY DeliveryAssumption DEF Init
<1>2. (1 - 1) * Spacing = 0 /\ 0 * (Attempts * Pause) = 0
  BY DeliveryAssumption
<1>3. QED BY <1>1, <1>2, DeliveryAssumption DEF Budget

\* A request ends by the deadline; beyond it, a step costs a spacing or a pause.
LEMMA NextBudget == TypeOK /\ Budget /\ [Next]_vars => Budget'
<1> SUFFICES ASSUME TypeOK, Budget, [Next]_vars PROVE Budget'
  OBVIOUS
<1> DEFINE posts == (at - 1) * Spacing
           pings == beats * (Attempts * Pause)
<1>a. /\ clock \in Nat /\ Deadline \in Nat /\ MaxRetryAfter \in Nat
      /\ Spacing \in Nat /\ Pause \in Nat /\ Attempts \in Nat
      /\ at \in Nat /\ at >= 1 /\ beats \in Nat /\ Attempts * Pause \in Nat
  BY DeliveryAssumption DEF TypeOK
<1>b. posts \in Nat /\ pings \in Nat
  BY <1>a
<1>c. clock <= Deadline + MaxRetryAfter + posts + pings
  BY DEF Budget
<1>1. CASE Sends
  <2>1. /\ at' = at + 1 /\ beats' = beats /\ clock' \in Nat
        /\ clock' <= clock + Spacing \/ clock' <= Deadline
    BY <1>1, SendsFacts
  <2>2. ((at + 1) - 1) * Spacing = posts + Spacing
    BY <1>a
  <2> HIDE DEF posts, pings
  <2>3. clock' <= Deadline + MaxRetryAfter + (posts + Spacing) + pings
    BY <1>a, <1>b, <1>c, <2>1
  <2>4. QED BY <2>1, <2>2, <2>3 DEF Budget, pings
<1>2. CASE \E d \in Delays, wait \in RetryAfter : Limited(d, wait)
  <2>1. /\ at' = at /\ beats' = beats /\ clock' \in Nat
        /\ clock' <= Deadline + MaxRetryAfter
    BY <1>2, LimitedFacts
  <2>2. clock' <= Deadline + MaxRetryAfter + posts + pings
    <3> HIDE DEF posts, pings
    <3>1. QED BY <1>a, <1>b, <2>1
  <2>3. QED BY <2>1, <2>2 DEF Budget
<1>3. CASE Beats
  <2>1. /\ at' = at /\ beats' = beats + 1 /\ beats' \in 0..Attempts
        /\ clock' \in Nat
        /\ \/ clock' <= clock + (beats + 1) * Pause
           \/ clock' <= Deadline + (beats + 1) * Pause
    BY <1>3, BeatsFacts
  <2>2. (beats + 1) * Pause <= Attempts * Pause /\ (beats + 1) * Pause \in Nat
    <3>1. PICK n \in Nat : Attempts = (beats + 1) + n
      BY <1>a, <2>1
    <3>2. Attempts * Pause = (beats + 1) * Pause + n * Pause /\ n * Pause \in Nat
      BY <1>a, <3>1
    <3>3. QED BY <1>a, <3>2
  <2>3. (beats + 1) * (Attempts * Pause) = pings + Attempts * Pause
    BY <1>a
  <2>4. clock' <= Deadline + MaxRetryAfter + posts + (pings + Attempts * Pause)
    <3> DEFINE step == (beats + 1) * Pause
               full == Attempts * Pause
    <3> HIDE DEF posts, pings, step, full
    <3>1. step \in Nat /\ full \in Nat /\ step <= full
      BY <1>a, <2>2 DEF step, full
    <3>2. clock' <= clock + step \/ clock' <= Deadline + step
      BY <2>1 DEF step
    <3>3. clock' <= Deadline + MaxRetryAfter + posts + (pings + full)
      BY <1>a, <1>b, <1>c, <2>1, <3>1, <3>2
    <3>4. QED BY <3>3 DEF full
  <2>5. QED BY <2>1, <2>3, <2>4 DEF Budget
<1>4. CASE UNCHANGED vars
  BY <1>4 DEF vars, Budget
<1>5. QED BY <1>1, <1>2, <1>3, <1>4, NextSteps

\* The posts and the attempts being bounded, so is the time.
LEMMA BudgetBounds == TypeOK /\ Budget => RunIsBounded
<1> SUFFICES ASSUME TypeOK, Budget PROVE RunIsBounded
  OBVIOUS
<1>a. /\ clock \in Nat /\ Deadline \in Nat /\ MaxRetryAfter \in Nat
      /\ Spacing \in Nat /\ Pause \in Nat /\ Attempts \in Nat /\ Posts \in Nat
      /\ at \in 1..(Posts + 1) /\ beats \in 0..Attempts /\ Attempts * Pause \in Nat
  BY DeliveryAssumption DEF TypeOK
<1>1. (at - 1) * Spacing <= Posts * Spacing /\ (at - 1) * Spacing \in Nat
      /\ Posts * Spacing \in Nat
  <2>1. PICK n \in Nat : Posts = (at - 1) + n
    BY <1>a
  <2>2. Posts * Spacing = (at - 1) * Spacing + n * Spacing /\ n * Spacing \in Nat
        /\ (at - 1) * Spacing \in Nat
    BY <1>a, <2>1
  <2>3. QED BY <2>2
<1>2. beats * (Attempts * Pause) <= Attempts * Attempts * Pause
      /\ beats * (Attempts * Pause) \in Nat /\ Attempts * Attempts * Pause \in Nat
  <2>1. PICK n \in Nat : Attempts = beats + n
    BY <1>a
  <2>2. Attempts * (Attempts * Pause) =
          beats * (Attempts * Pause) + n * (Attempts * Pause)
        /\ n * (Attempts * Pause) \in Nat /\ beats * (Attempts * Pause) \in Nat
    BY <1>a, <2>1
  <2>3. Attempts * Attempts * Pause = Attempts * (Attempts * Pause)
    BY <1>a
  <2>4. QED BY <2>2, <2>3
<1> DEFINE posts == (at - 1) * Spacing
           allPosts == Posts * Spacing
           pings == beats * (Attempts * Pause)
           allPings == Attempts * Attempts * Pause
<1>3. clock <= Deadline + MaxRetryAfter + posts + pings
  BY DEF Budget
<1>4. posts <= allPosts /\ pings <= allPings /\ posts \in Nat /\ allPosts \in Nat
      /\ pings \in Nat /\ allPings \in Nat
  BY <1>1, <1>2
<1> HIDE DEF posts, allPosts, pings, allPings
<1>5. clock <= Deadline + MaxRetryAfter + allPosts + allPings
  BY <1>a, <1>3, <1>4
<1>6. QED BY <1>5 DEF RunIsBounded, allPosts, allPings

\* Slack and the heartbeat cannot block the run, however slowly they answer.
THEOREM Bounded == Spec => []RunIsBounded
<1>1. Init => TypeOK /\ Budget
  BY InitType, InitBudget
<1>2. TypeOK /\ Budget /\ [Next]_vars => (TypeOK /\ Budget)'
  BY NextType, NextBudget
<1>3. TypeOK /\ Budget => RunIsBounded
  BY BudgetBounds
<1>4. QED BY <1>1, <1>2, <1>3, PTL DEF Spec

-----------------------------------------------------------------------------
(* Requests are spaced *)

\* Strengthening: between two posts nothing is asked of the sleep after the last
\* request; the first post, and the second attempt of one, go out at once, so
\* then the sleep is behind them.
Rested ==
    quiet \in Nat /\ (at = 1 \/ retrying => quiet >= Spacing)

\* A post that is through leaves the spacing to the next; a 429 sleeps for longer
\* than the spacing; a ping is no request to Slack.
LEMMA NextRested == TypeOK /\ Rested /\ [Next]_vars => Rested'
<1> SUFFICES ASSUME TypeOK, Rested, [Next]_vars PROVE Rested'
  OBVIOUS
<1>1. CASE Sends
  <2>1. at' = at + 1 /\ at \in 1..Posts /\ retrying' = FALSE /\ quiet' \in Nat
    BY <1>1, SendsFacts
  <2>2. at' # 1
    BY <2>1, DeliveryAssumption
  <2>3. QED BY <2>1, <2>2 DEF Rested
<1>2. ASSUME NEW d \in Delays, NEW wait \in RetryAfter, Limited(d, wait)
      PROVE  Rested'
  <2>1. quiet' = wait
    BY <1>2 DEF Limited, Spend
  <2>2. wait \in Nat /\ wait >= Spacing
    BY DeliveryAssumption
  <2>3. QED BY <2>1, <2>2 DEF Rested
<1>3. CASE Beats
  BY <1>3, BeatsFacts DEF Rested
<1>4. CASE UNCHANGED vars
  BY <1>4 DEF vars, Rested
<1>5. QED BY <1>1, <1>2, <1>3, <1>4, NextSteps

\* Two requests to Slack are at least the spacing apart, whatever it answers.
THEOREM Spaced == Spec => []RequestsAreSpaced
<1>1. Init => TypeOK /\ Rested
  BY InitType, DeliveryAssumption DEF Init, Rested
<1>2. TypeOK /\ Rested /\ [Next]_vars => (TypeOK /\ Rested)'
  BY NextType, NextRested
<1>3. TypeOK /\ Rested => RequestsAreSpaced
  BY DeliveryAssumption DEF TypeOK, Rested, RequestsAreSpaced, PostStart
<1>4. QED BY <1>1, <1>2, <1>3, PTL DEF Spec

-----------------------------------------------------------------------------
(* The success ping gets through *)

\* Strengthening: an attempt that did not get through failed on the network or
\* came when the context was over.
Tried == ~pinged => blips >= beats \/ clock >= Deadline

\* Time does not run backwards.
LEMMA ClockGrows ==
    ASSUME TypeOK, [Next]_vars
    PROVE  clock' >= clock
<1>a. clock \in Nat /\ PostStart \in Nat /\ PostStart >= clock
  BY PostStartFacts DEF TypeOK
<1>b. GivesUp(clock) \in Nat /\ GivesUp(clock) >= clock
      /\ GivesUp(PostStart) \in Nat /\ GivesUp(PostStart) >= PostStart
  BY <1>a, GivesUpFacts
<1>1. ASSUME NEW until \in Nat, NEW sleep \in Nat, until >= clock,
             Spend(PostStart, until, sleep)
      PROVE  clock' >= clock
  BY <1>a, <1>1 DEF Spend
<1>2. ASSUME NEW until \in Nat, NEW answered \in BOOLEAN, until >= clock,
             Beat(until, answered)
      PROVE  clock' >= clock
  <2>1. (beats + 1) * Pause \in Nat
    BY DeliveryAssumption DEF TypeOK
  <2>2. clock' = until \/ clock' = until + (beats + 1) * Pause
    BY <1>2 DEF Beat
  <2>3. QED BY <1>2, <1>a, <2>1, <2>2
<1>3. ASSUME NEW d \in Delays
      PROVE  /\ PostStart + d \in Nat /\ PostStart + d >= clock
             /\ clock + d \in Nat /\ clock + d >= clock
  BY <1>a, DeliveryAssumption
<1>4. ASSUME NEW d \in Delays, Accepted(d) \/ Refused(d) PROVE clock' >= clock
  BY <1>1, <1>3, <1>4 DEF Accepted, Refused
<1>5. ASSUME NEW d \in Delays, NEW wait \in RetryAfter, Limited(d, wait)
      PROVE  clock' >= clock
  <2>1. wait \in Nat
    BY DeliveryAssumption
  <2>2. QED BY <1>1, <1>3, <1>5, <2>1 DEF Limited
<1>6. CASE Broken
  <2>1. GivesUp(PostStart) >= clock
    BY <1>a, <1>b
  <2>2. QED BY <1>1, <1>b, <1>6, <2>1 DEF Broken
<1>7. ASSUME NEW d \in Delays, PingAnswered(d) \/ PingRefused(d)
      PROVE  clock' >= clock
  BY <1>2, <1>3, <1>7 DEF PingAnswered, PingRefused
<1>8. CASE PingFails
  BY <1>2, <1>b, <1>8 DEF PingFails
<1>9. CASE UNCHANGED vars
  BY <1>a, <1>9 DEF vars
<1>10. QED BY <1>4, <1>5, <1>6, <1>7, <1>8, <1>9, NextSteps DEF Sends, Beats

\* Every attempt is answered, is counted as failed, or finds the time over.
LEMMA NextTried == TypeOK /\ Tried /\ [Next]_vars => Tried'
<1> SUFFICES ASSUME TypeOK, Tried, [Next]_vars PROVE Tried'
  OBVIOUS
<1>a. /\ clock \in Nat /\ Deadline \in Nat /\ blips \in Nat /\ beats \in Nat
      /\ clock' >= clock /\ clock' \in Nat
  BY ClockGrows, NextType, DeliveryAssumption DEF TypeOK
<1>1. CASE Sends \/ UNCHANGED vars
  <2>1. UNCHANGED <<beats, pinged, blips>>
    BY <1>1, SendsFacts DEF vars
  <2>2. QED BY <1>a, <2>1 DEF Tried
<1>2. CASE \E d \in Delays, wait \in RetryAfter : Limited(d, wait)
  <2>1. UNCHANGED <<beats, pinged, blips>>
    BY <1>2, LimitedFacts
  <2>2. QED BY <1>a, <2>1 DEF Tried
<1>3. CASE Beats
  <2>1. beats' = beats + 1 /\ ~pinged
    BY <1>3, BeatsFacts DEF Beats, PingAnswered, PingRefused, PingFails, Beat, Pinging
  <2>2. pinged' \/ blips' = blips + 1 \/ clock >= Deadline
    BY <1>a, <1>3 DEF Beats, PingAnswered, PingRefused, PingFails, Beat
  <2>3. QED BY <1>a, <2>1, <2>2 DEF Tried
<1>4. QED BY <1>1, <1>2, <1>3, NextSteps

\* The success of a run is told unless every attempt failed on the network or the
\* context ran out.
THEOREM PingGetsThrough == Spec => []PingedUnlessLate
<1>1. Init => TypeOK /\ Tried
  BY InitType DEF Init, Tried
<1>2. TypeOK /\ Tried /\ [Next]_vars => (TypeOK /\ Tried)'
  BY NextType, NextTried
<1>3. TypeOK /\ Tried => PingedUnlessLate
  BY DeliveryAssumption DEF TypeOK, Tried, PingedUnlessLate, Done, Pinging
<1>4. QED BY <1>1, <1>2, <1>3, PTL DEF Spec
=============================================================================
