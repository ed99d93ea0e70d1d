---------------------------- MODULE AlertContract ---------------------------
(***************************************************************************)
(* What the alert state machine promises the people who read the channels, *)
(* with no sample counts, clocks or table in sight: a key goes through     *)
(* episodes.  An episode opens with a fire, may worsen, ease or be         *)
(* repeated, and closes with a resolved notice to exactly the channels of  *)
(* the episode's notices.  Nothing is said of a key outside an episode,    *)
(* and a step of an episode that must be said is only left unsaid when the *)
(* key may be muted or nobody is routed to.                                *)
(***************************************************************************)
EXTENDS Integers, Sequences

CONSTANTS Keys, Channels, Mutable

Tiers == 0..2
Quiet == -1

VARIABLES
    episode,    \* the tier of the key's episode, or Quiet
    told,       \* the channels of the episode's notices
    outbox      \* the notices of the run in progress

vars == <<episode, told, outbox>>

TypeOK ==
    /\ episode \in [Keys -> Tiers \cup {Quiet}]
    /\ told \in [Keys -> SUBSET Channels]
    /\ outbox \in Seq([key : Keys, tier : Tiers, targets : SUBSET Channels,
                       kind : {"fire", "escalate", "reminder",
                               "resolved", "degraded"}])

Init ==
    /\ episode = [k \in Keys |-> Quiet]
    /\ told = [k \in Keys |-> {}]
    /\ outbox = <<>>

NewRun ==
    /\ outbox' = <<>>
    /\ UNCHANGED <<episode, told>>

Say(k, kind, t, to) ==
    outbox' = Append(outbox, [key |-> k, kind |-> kind,
                              tier |-> t, targets |-> to])

Keep(k, kind, t, to) ==
    \/ Say(k, kind, t, to)
    \/ (k \in Mutable \/ to = {}) /\ UNCHANGED outbox

Open(k, t, to) ==
    /\ episode[k] = Quiet
    /\ episode' = [episode EXCEPT ![k] = t]
    /\ told' = [told EXCEPT ![k] = to]
    /\ Keep(k, "fire", t, to)

Worsen(k, t, to) ==
    /\ episode[k] # Quiet
    /\ t > episode[k]
    /\ episode' = [episode EXCEPT ![k] = t]
    /\ told' = [told EXCEPT ![k] = @ \cup to]
    /\ Keep(k, "escalate", t, to)

Ease(k, t) ==
    /\ episode[k] # Quiet
    /\ t < episode[k]
    /\ episode' = [episode EXCEPT ![k] = t]
    /\ UNCHANGED <<told, outbox>>

Repeat(k, to) ==
    /\ episode[k] # Quiet
    /\ told' = [told EXCEPT ![k] = @ \cup to]
    /\ Keep(k, "reminder", episode[k], to)
    /\ UNCHANGED episode

GoBlind(k) ==
    /\ episode[k] # Quiet
    /\ Say(k, "degraded", episode[k], told[k])
    /\ UNCHANGED <<episode, told>>

Close(k) ==
    /\ episode[k] # Quiet
    /\ episode' = [episode EXCEPT ![k] = Quiet]
    /\ told' = [told EXCEPT ![k] = {}]
    /\ Keep(k, "resolved", episode[k], told[k])

Next ==
    \/ NewRun
    \/ \E k \in Keys :
        \/ \E t \in Tiers : Ease(k, t)
        \/ \E t \in Tiers, to \in SUBSET Channels :
               Open(k, t, to) \/ Worsen(k, t, to)
        \/ \E to \in SUBSET Channels : Repeat(k, to)
        \/ GoBlind(k)
        \/ Close(k)

Spec == Init /\ [][Next]_vars
=============================================================================
