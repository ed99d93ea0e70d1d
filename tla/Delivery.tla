------------------------------ MODULE Delivery ------------------------------
(***************************************************************************)
(* The end of a run: Sender.Deliver posts every decision to its channels   *)
(* one after another, then the heartbeat is told of the success.  Slack    *)
(* and the heartbeat service answer as they please, late or not at all.    *)
(* Everything happens under the one context cmdRun gives the run, which    *)
(* cuts requests short but not the sleeps between them.                    *)
(***************************************************************************)
EXTENDS Integers

CONSTANTS
    Posts,          \* how many posts the decisions of the run come to
    Started,        \* how late in the run Deliver can start
    Deadline,       \* the context's timeout, 2 minutes
    Timeout,        \* the HTTP clients' timeout, 10 s
    Spacing,        \* between two posts, 250 ms
    RetryAfter,     \* what parseRetryAfter can make of the header, 1 to 30 s:
                    \* never less than the spacing
    MaxRetryAfter,  \* its cap
    Pause,          \* the heartbeat's first pause between attempts, 500 ms
    Attempts,       \* how often the heartbeat is tried
    Delays          \* how long a request can take to be answered

ASSUME DeliveryAssumption ==
    /\ Posts \in Nat /\ Attempts \in Nat \ {0}
    /\ Started \subseteq Nat /\ \A s \in Started : s <= Deadline
    /\ Deadline \in Nat /\ Timeout \in Nat /\ Spacing \in Nat /\ Pause \in Nat
    /\ MaxRetryAfter \in Nat /\ RetryAfter \subseteq Spacing..MaxRetryAfter
    /\ Delays \subseteq Nat

VARIABLES
    clock,      \* time since the run began
    at,         \* the post Deliver is at; Posts + 1 when it is through
    retrying,   \* the post was rate-limited once
    results,    \* post -> its SendResult, "none" before
    beats,      \* attempts to ping
    pinged,     \* the success ping has been answered
    taken,      \* history: how often Slack took a post
    quiet,      \* history: time since the last request to Slack ended
    blips       \* history: pings that failed on the network

vars == <<clock, at, retrying, results, beats, pinged, taken, quiet, blips>>

Init ==
    /\ clock \in Started
    /\ at = 1 /\ retrying = FALSE
    /\ results = [p \in 1..Posts |-> "none"]
    /\ beats = 0 /\ pinged = FALSE
    /\ taken = [p \in 1..Posts |-> 0]
    /\ quiet = Spacing
    /\ blips = 0

-----------------------------------------------------------------------------
(* One request *)

Least(a, b) == IF a <= b THEN a ELSE b

\* GivesUp gone wrong: the request does not carry the context.
OwnTimeout(s) == s + Timeout

\* When a request that starts at s gives up.
GivesUp(s) == IF s >= Deadline THEN s ELSE Least(s + Timeout, Deadline)

\* It is answered if the answer is there before that.
InTime(s, d) == s + d < GivesUp(s)

-----------------------------------------------------------------------------
(* Sender.Deliver and Sender.post *)

\* PostStart gone wrong: posts are not spaced.
NoSpacing == clock

\* The first post goes out at once, as does the second attempt of a post.
PostStart == IF at = 1 \/ retrying THEN clock ELSE clock + Spacing

Record(result) ==
    /\ results' = [results EXCEPT ![at] = result]
    /\ at' = at + 1
    /\ retrying' = FALSE

\* Slack's time and the sleep after it.
Spend(s, until, sleep) ==
    /\ at <= Posts
    /\ clock' = until + sleep
    /\ quiet' = sleep
    /\ UNCHANGED <<beats, pinged, blips>>

Accepted(d) ==
    /\ InTime(PostStart, d)
    /\ Spend(PostStart, PostStart + d, 0)
    /\ Record("sent")
    /\ taken' = [taken EXCEPT ![at] = @ + 1]

\* A status that is neither a success nor the first 429.
Refused(d) ==
    /\ InTime(PostStart, d)
    /\ Spend(PostStart, PostStart + d, 0)
    /\ Record("refused")
    /\ UNCHANGED taken

\* The first 429: sleep as asked and try once more.
Limited(d, wait) ==
    /\ ~retrying
    /\ InTime(PostStart, d)
    /\ Spend(PostStart, PostStart + d, wait)
    /\ retrying' = TRUE
    /\ UNCHANGED <<at, results, taken>>

\* Broken gone wrong: a post that timed out is tried again.
BrokenRetry ==
    /\ Spend(PostStart, GivesUp(PostStart), 0)
    /\ IF retrying THEN Record("failed")
                   ELSE retrying' = TRUE /\ UNCHANGED <<at, results>>
    /\ \/ UNCHANGED taken
       \/ PostStart < Deadline /\ taken' = [taken EXCEPT ![at] = @ + 1]

\* No answer before the request gives up; Slack may have taken the post.
Broken ==
    /\ Spend(PostStart, GivesUp(PostStart), 0)
    /\ Record("failed")
    /\ \/ UNCHANGED taken
       \/ PostStart < Deadline /\ taken' = [taken EXCEPT ![at] = @ + 1]

-----------------------------------------------------------------------------
(* Heartbeat.Success *)

\* Pinging gone wrong: the first attempt is the only one.
PingOnce == at > Posts /\ beats < 1 /\ ~pinged

Pinging == at > Posts /\ beats < Attempts /\ ~pinged

Beat(until, answered) ==
    /\ Pinging
    /\ beats' = beats + 1
    /\ pinged' = answered
    /\ clock' = IF answered \/ beats + 1 = Attempts THEN until
                ELSE until + (beats + 1) * Pause
    /\ UNCHANGED <<at, retrying, results, taken, quiet>>

PingAnswered(d) ==
    /\ InTime(clock, d)
    /\ Beat(clock + d, TRUE)
    /\ UNCHANGED blips

PingRefused(d) ==
    /\ InTime(clock, d)
    /\ Beat(clock + d, FALSE)
    /\ blips' = blips + 1

\* The network's fault, or no attempt at all when the context is over.
PingFails ==
    /\ Beat(GivesUp(clock), FALSE)
    /\ blips' = IF clock < Deadline THEN blips + 1 ELSE blips

Done == at > Posts /\ ~Pinging

Terminated == Done /\ UNCHANGED vars

Next ==
    \/ \E d \in Delays :
        \/ Accepted(d)
        \/ Refused(d)
        \/ \E wait \in RetryAfter : Limited(d, wait)
        \/ PingAnswered(d)
        \/ PingRefused(d)
    \/ Broken
    \/ PingFails
    \/ Terminated

Spec == Init /\ [][Next]_vars

-----------------------------------------------------------------------------
(* Properties *)

TypeOK ==
    /\ clock \in Nat /\ quiet \in Nat
    /\ at \in 1..(Posts + 1) /\ retrying \in BOOLEAN
    /\ results \in [1..Posts -> {"none", "sent", "refused", "failed"}]
    /\ beats \in 0..Attempts /\ pinged \in BOOLEAN
    /\ taken \in [1..Posts -> Nat] /\ blips \in Nat

\* No duplicates: whatever Slack answers and whenever, it takes a post at most
\* once, although a post is tried twice and a lost answer looks like a failure.
TakenAtMostOnce == \A p \in 1..Posts : taken[p] <= 1

\* Slack and the heartbeat never block the run: however slow they are, the run
\* is over by the deadline, but for one Retry-After and the sleeps in between.
RunIsBounded ==
    clock <= Deadline + MaxRetryAfter + Posts * Spacing
             + Attempts * Attempts * Pause

\* Rate-limit hygiene: two requests to Slack are at least the spacing apart.
RequestsAreSpaced == at <= Posts => quiet + PostStart - clock >= Spacing

\* The success ping gets through unless every attempt failed on the network or
\* the context ran out.
PingedUnlessLate ==
    Done /\ ~pinged => blips >= Attempts \/ clock >= Deadline
=============================================================================
