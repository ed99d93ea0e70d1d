--------------------------- MODULE CrashLoopProofs ---------------------------
(* Theorems about CrashLoop, for every service, threshold and window. *)
EXTENDS CrashLoop, FiniteSetTheorems, WellFoundedInduction, TLAPS

-----------------------------------------------------------------------------
(* The operators *)

\* A nonempty bounded set of numbers has a greatest element, and Greatest is it.
LEMMA GreatestFacts ==
    ASSUME NEW n \in Nat, NEW S, S \subseteq 0..n, S # {}
    PROVE  /\ Greatest(S) \in S
           /\ \A m \in S : m <= Greatest(S)
<1> DEFINE R == OpToRel(<, Nat)
           T == {n - s : s \in S}
<1>1. IsWellFoundedOn(R, Nat)
  BY NatLessThanWellFounded
<1>2. T \subseteq Nat /\ T # {}
  <2>1. \A s \in S : n - s \in Nat
    OBVIOUS
  <2>2. PICK s \in S : TRUE
    OBVIOUS
  <2>3. n - s \in T
    OBVIOUS
  <2>4. QED BY <2>1, <2>3
<1> HIDE DEF R, T
<1>3. PICK x \in T : \A y \in T : <<y, x>> \notin R
  BY <1>1, <1>2, WFMin
<1>4. \A y \in T : ~(y < x)
  BY <1>2, <1>3 DEF R, OpToRel
<1>5. PICK g \in S : x = n - g
  BY <1>3 DEF T
<1>6. \A m \in S : m <= g
  <2> TAKE m \in S
  <2>1. n - m \in T
    BY DEF T
  <2>2. ~(n - m < n - g)
    BY <1>4, <1>5, <2>1
  <2>3. QED BY <2>2
<1>7. \E k \in S : \A m \in S : m <= k
  BY <1>6
<1>8. QED BY <1>7 DEF Greatest

-----------------------------------------------------------------------------
(* Type correctness *)

Container ==
    [state : {"new", "running", "restarting", "exited", "gone"},
     restarts : 0..MaxCount, finished : Nat, crash : BOOLEAN]

Event == [id : Ids, at : Nat]

TypeOK ==
    /\ time \in Nat /\ boot \in Nat
    /\ docker \in [Ids -> Container]
    /\ service \in [known : BOOLEAN, restarts : 0..MaxCount, boot : Nat,
                    events : SUBSET Event]
    /\ snapBoot \in Nat /\ baseline \in BOOLEAN
    /\ restarted \in Nat /\ steady \in BOOLEAN /\ whole \in BOOLEAN
    /\ seen \subseteq Ids

\* A crashed container is a corpse or gone, a new one has not restarted.
Corpses ==
    \A i \in Ids :
        /\ docker[i].crash => docker[i].state \in {"exited", "gone"}
        /\ docker[i].state = "new" => docker[i].restarts = 0

\* What Docker and the kernel do between two runs.
Containers ==
    \/ \E i \in Ids :
        \/ Create(i)
        \/ CrashInPlace(i)
        \/ BackUp(i)
        \/ \E crash \in BOOLEAN : Stop(i, crash)
        \/ Remove(i)
    \/ Reboot

\* A container that changes keeps its crash, if it had one, and the rest stays.
LEMMA BecomeFacts ==
    ASSUME TypeOK, Corpses, NEW i \in Ids, NEW c \in Container, Become(i, c),
           docker[i].crash => c.crash /\ c.finished = docker[i].finished,
           c.crash => c.state \in {"exited", "gone"},
           c.state # "new"
    PROVE  /\ docker' \in [Ids -> Container]
           /\ Corpses'
           /\ \A j \in Ids : docker[j].crash =>
                  docker'[j].crash /\ docker'[j].finished = docker[j].finished
           /\ UNCHANGED <<time, boot, service, snapBoot, baseline>>
<1>1. docker \in [Ids -> Container] /\ docker' = [docker EXCEPT ![i] = c]
      /\ UNCHANGED <<time, boot, service, snapBoot, baseline>>
  BY DEF Become, TypeOK
<1>2. docker'[i] = c /\ \A j \in Ids \ {i} : docker'[j] = docker[j]
  BY <1>1
<1>3. docker' \in [Ids -> Container]
  BY <1>1
<1>4. Corpses'
  BY <1>2 DEF Corpses
<1>5. \A j \in Ids : docker[j].crash =>
         docker'[j].crash /\ docker'[j].finished = docker[j].finished
  BY <1>2
<1>6. QED BY <1>1, <1>3, <1>4, <1>5

\* Between two runs crashes may come but do not go, nor change their time; and
\* the service's entry stays.
LEMMA ContainersFacts ==
    ASSUME TypeOK, Corpses, Containers
    PROVE  /\ docker' \in [Ids -> Container]
           /\ Corpses'
           /\ \A j \in Ids : docker[j].crash =>
                  docker'[j].crash /\ docker'[j].finished = docker[j].finished
           /\ restarted' \in Nat /\ steady' \in BOOLEAN /\ boot' \in Nat
           /\ UNCHANGED <<time, service, snapBoot, baseline, whole, seen>>
<1> USE DEF history
<1>a. docker \in [Ids -> Container] /\ restarted \in Nat /\ steady \in BOOLEAN
      /\ boot \in Nat /\ time \in Nat
  BY DEF TypeOK
<1>1. ASSUME NEW i \in Ids,
             \/ Create(i) \/ CrashInPlace(i) \/ BackUp(i)
             \/ (\E crash \in BOOLEAN : Stop(i, crash)) \/ Remove(i)
      PROVE  /\ docker' \in [Ids -> Container]
             /\ Corpses'
             /\ \A j \in Ids : docker[j].crash =>
                    docker'[j].crash /\ docker'[j].finished = docker[j].finished
             /\ UNCHANGED <<time, boot, service, snapBoot, baseline>>
  <2>0. docker[i] \in Container
        /\ (docker[i].crash => docker[i].state \in {"exited", "gone"})
    BY <1>a DEF Corpses
  <2>1. CASE Create(i)
    <3> DEFINE c == [docker[i] EXCEPT !.state = "running"]
    <3>1. c \in Container /\ c.crash = docker[i].crash
          /\ c.finished = docker[i].finished /\ c.state = "running"
      BY <2>0 DEF Container
    <3>2. Become(i, c) /\ docker[i].state = "new"
      BY <2>1 DEF Create
    <3> HIDE DEF c
    <3>3. QED BY <2>0, <3>1, <3>2, BecomeFacts
  <2>2. CASE CrashInPlace(i)
    <3> DEFINE c == [docker[i] EXCEPT !.state = "restarting", !.restarts = @ + 1]
    <3>0. docker[i].restarts + 1 \in 0..MaxCount
      BY <2>0, <2>2, CrashLoopAssumption DEF CrashInPlace, Container
    <3>1. c \in Container /\ c.crash = docker[i].crash
          /\ c.finished = docker[i].finished /\ c.state = "restarting"
      BY <2>0, <3>0 DEF Container
    <3>2. Become(i, c) /\ docker[i].state = "running"
      BY <2>2 DEF CrashInPlace
    <3> HIDE DEF c
    <3>3. QED BY <2>0, <3>1, <3>2, BecomeFacts
  <2>3. CASE BackUp(i)
    <3> DEFINE c == [docker[i] EXCEPT !.state = "running"]
    <3>1. c \in Container /\ c.crash = docker[i].crash
          /\ c.finished = docker[i].finished /\ c.state = "running"
      BY <2>0 DEF Container
    <3>2. Become(i, c) /\ docker[i].state = "restarting"
      BY <2>3 DEF BackUp
    <3> HIDE DEF c
    <3>3. QED BY <2>0, <3>1, <3>2, BecomeFacts
  <2>4. CASE \E crash \in BOOLEAN : Stop(i, crash)
    <3>0. PICK crash \in BOOLEAN : Stop(i, crash)
      BY <2>4
    <3> DEFINE c == [docker[i] EXCEPT !.state = "exited", !.finished = time,
                                      !.crash = crash]
    <3>1. c \in Container /\ c.state = "exited"
      BY <2>0, <1>a DEF Container
    <3>2. Become(i, c) /\ docker[i].state = "running"
      BY <3>0 DEF Stop
    <3> HIDE DEF c
    <3>3. QED BY <2>0, <3>1, <3>2, BecomeFacts
  <2>5. CASE Remove(i)
    <3> DEFINE c == [docker[i] EXCEPT !.state = "gone"]
    <3>1. c \in Container /\ c.crash = docker[i].crash
          /\ c.finished = docker[i].finished /\ c.state = "gone"
      BY <2>0 DEF Container
    <3>2. Become(i, c)
      BY <2>5 DEF Remove
    <3> HIDE DEF c
    <3>3. QED BY <2>0, <3>1, <3>2, BecomeFacts
  <2>6. QED BY <1>1, <2>1, <2>2, <2>3, <2>4, <2>5
<1>2. ASSUME NEW i \in Ids,
             \/ Create(i) \/ CrashInPlace(i) \/ BackUp(i)
             \/ (\E crash \in BOOLEAN : Stop(i, crash)) \/ Remove(i)
      PROVE  restarted' \in Nat /\ steady' \in BOOLEAN /\ UNCHANGED <<whole, seen>>
  <2>1. restarted' = restarted \/ restarted' = restarted + 1
    BY <1>2 DEF Create, CrashInPlace, BackUp, Stop, Remove, history
  <2>2. steady' = steady \/ steady' = FALSE
    BY <1>2 DEF Create, CrashInPlace, BackUp, Stop, Remove, history
  <2>3. whole' = whole /\ seen' = seen
    BY <1>2 DEF Create, CrashInPlace, BackUp, Stop, Remove, history
  <2>4. steady' \in BOOLEAN
    BY <1>a, <2>2
  <2>5. QED BY <1>a, <2>1, <2>3, <2>4
<1>3. CASE Reboot
  <2>1. PICK reset \in BOOLEAN :
          docker' = [i \in Ids |->
                       IF i \in Running /\ reset
                         THEN [docker[i] EXCEPT !.restarts = 0] ELSE docker[i]]
    BY <1>3 DEF Reboot
  <2>2. \A i \in Ids :
          /\ docker'[i] \in Container
          /\ docker'[i].crash = docker[i].crash
          /\ docker'[i].finished = docker[i].finished
          /\ docker'[i].state = docker[i].state
          /\ docker'[i].restarts = docker[i].restarts \/ docker'[i].restarts = 0
    <3> TAKE i \in Ids
    <3> DEFINE c == [docker[i] EXCEPT !.restarts = 0]
    <3>1. docker[i] \in Container /\ 0 \in 0..MaxCount
      BY <1>a, CrashLoopAssumption
    <3>2. c \in Container /\ c.crash = docker[i].crash /\ c.restarts = 0
          /\ c.finished = docker[i].finished /\ c.state = docker[i].state
      BY <3>1 DEF Container
    <3>3. docker'[i] = c \/ docker'[i] = docker[i]
      BY <2>1
    <3> HIDE DEF c
    <3>4. QED BY <3>1, <3>2, <3>3
  <2>3. docker' \in [Ids -> Container]
    <3>1. docker' = [i \in Ids |-> docker'[i]]
      BY <2>1
    <3>2. QED BY <2>2, <3>1
  <2>4. Corpses'
    BY <2>2 DEF Corpses
  <2>5. /\ boot' \in Nat /\ restarted' \in Nat /\ steady' \in BOOLEAN
        /\ UNCHANGED <<time, service, snapBoot, baseline, whole, seen>>
    <3>1. steady' = FALSE /\ boot' = boot + 1 /\ restarted' = restarted
          /\ UNCHANGED <<time, service, snapBoot, baseline, whole, seen>>
      BY <1>3 DEF Reboot
    <3>2. steady' \in BOOLEAN
      BY <3>1
    <3>3. boot' \in Nat /\ restarted' \in Nat
      BY <1>a, <3>1
    <3>4. QED BY <3>1, <3>2, <3>3
  <2>6. QED BY <2>2, <2>3, <2>4, <2>5
<1>4. QED BY <1>1, <1>2, <1>3, <1>a DEF Containers

-----------------------------------------------------------------------------
(* Runs *)

\* A run inspects some of the containers that are listed.
LEMMA InspectableFacts ==
    ASSUME NEW insp \in Inspectable
    PROVE  insp \subseteq Listed
BY DEF Inspectable

\* The count that a run records bounds that of every container it inspected, and
\* is that of one of them, or zero.
LEMMA CountFacts ==
    ASSUME TypeOK, NEW insp \in SUBSET Ids
    PROVE  /\ CurrentCount(insp) \in 0..MaxCount
           /\ \A i \in insp : docker[i].restarts <= CurrentCount(insp)
           /\ \/ CurrentCount(insp) = 0
              \/ \E i \in insp : CurrentCount(insp) = docker[i].restarts
<1> DEFINE S == {0} \cup {docker[i].restarts : i \in insp}
<1>1. \A i \in insp : docker[i].restarts \in 0..MaxCount
  BY DEF TypeOK, Container
<1>2. S \subseteq 0..MaxCount /\ S # {} /\ MaxCount \in Nat
  BY <1>1, CrashLoopAssumption
<1>3. Greatest(S) \in S /\ \A m \in S : m <= Greatest(S)
  <2> HIDE DEF S
  <2>1. QED BY <1>2, GreatestFacts
<1>4. CurrentCount(insp) = Greatest(S)
  BY DEF CurrentCount
<1>5. \A i \in insp : docker[i].restarts \in S
  OBVIOUS
<1>6. QED BY <1>2, <1>3, <1>4, <1>5

\* The entry of the service remembers exactly what runs have seen: every event
\* is the crash of a container that a run has seen, and every crash that a run
\* has seen is an event until it leaves the window.
Remembered ==
    /\ \A e \in service.events :
           /\ e.id \in seen
           /\ docker[e.id].crash
           /\ e.at = docker[e.id].finished
    /\ \A i \in seen :
           /\ docker[i].crash
           /\ docker[i].finished >= Cutoff =>
                  [id |-> i, at |-> docker[i].finished] \in service.events

\* What a run sees, and what it makes of the events.
LEMMA FreshFacts ==
    ASSUME TypeOK, NEW insp \in SUBSET Ids
    PROVE  /\ FreshEvents(insp) \subseteq Event
           /\ \A e \in FreshEvents(insp) :
                  /\ e.id \in insp /\ docker[e.id].crash
                  /\ e.at = docker[e.id].finished /\ e.at >= Cutoff
           /\ \A i \in CrashCorpses(insp) : docker[i].finished >= Cutoff =>
                  [id |-> i, at |-> docker[i].finished] \in FreshEvents(insp)
<1>1. \A i \in Ids : docker[i].finished \in Nat
  BY DEF TypeOK, Container
<1>2. QED BY <1>1 DEF FreshEvents, CrashCorpses, Event

\* Pruning keeps an entry with events, and leaves none otherwise.
LEMMA PrunedFacts ==
    ASSUME TypeOK
    PROVE  /\ Pruned(service).events = service.events
           /\ Pruned(service) \in
                [known : BOOLEAN, restarts : 0..MaxCount, boot : Nat,
                 events : SUBSET Event]
           /\ Pruned(service).known => Pruned(service) = service
<1>1. NoEntry \in [known : BOOLEAN, restarts : 0..MaxCount, boot : Nat,
                   events : SUBSET Event]
      /\ NoEntry.events = {} /\ NoEntry.known = FALSE
  BY CrashLoopAssumption DEF NoEntry
<1>2. QED BY <1>1 DEF Pruned, TypeOK

\* A run in which Docker answers keeps the types, and remembers what it has seen
\* and nothing else.
LEMMA RunFacts ==
    ASSUME TypeOK, Remembered, NEW insp \in Inspectable, Run(insp)
    PROVE  TypeOK' /\ Remembered'
<1>1. insp \in SUBSET Ids /\ Cutoff' = Cutoff /\ docker' = docker
      /\ UNCHANGED <<time, boot>>
  BY InspectableFacts DEF Listed, Run, Cutoff
<1>2. seen' = seen \cup {e.id : e \in FreshEvents(insp)}
      /\ service' = Updated(insp) /\ snapBoot' = boot /\ baseline' = TRUE
      /\ restarted' \in {0, restarted}
      /\ steady' \in {steady, Cardinality(Listed) = 1}
      /\ whole' \in BOOLEAN
  BY DEF Run
<1> DEFINE Entry == [known : BOOLEAN, restarts : 0..MaxCount, boot : Nat,
                     events : SUBSET Event]
<1>3. /\ service' \in Entry
      /\ \/ service'.events = MergedEvents(insp)
         \/ service'.events = service.events /\ FreshEvents(insp) = {}
  <2>1. CASE Listed = {}
    <3>1. insp = {}
      BY <2>1, InspectableFacts
    <3>2. FreshEvents(insp) = {}
      BY <3>1 DEF FreshEvents, CrashCorpses
    <3>3. QED BY <1>2, <2>1, <3>2, PrunedFacts DEF Updated
  <2>2. CASE Listed # {}
    <3> DEFINE n == IF insp = {} THEN service.restarts ELSE CurrentCount(insp)
    <3>1. n \in 0..MaxCount
      BY <1>1, CountFacts DEF TypeOK
    <3>2. MergedEvents(insp) \in SUBSET Event
      BY <1>1, FreshFacts DEF MergedEvents, TypeOK
    <3>3. service' = [known |-> TRUE, boot |-> boot,
                      events |-> MergedEvents(insp), restarts |-> n]
      BY <1>2, <2>2 DEF Updated
    <3>4. boot \in Nat
      BY DEF TypeOK
    <3> HIDE DEF n
    <3>5. QED BY <3>1, <3>2, <3>3, <3>4
  <2>3. QED BY <2>1, <2>2
<1>4. seen' \subseteq Ids
  BY <1>1, <1>2, FreshFacts DEF TypeOK
<1>5. TypeOK'
  <2>1. restarted' \in Nat /\ time' \in Nat /\ boot' \in Nat
        /\ docker' \in [Ids -> Container] /\ snapBoot' \in Nat
    BY <1>1, <1>2 DEF TypeOK
  <2>2. baseline' \in BOOLEAN /\ steady' \in BOOLEAN /\ whole' \in BOOLEAN
    <3>1. steady \in BOOLEAN /\ (Cardinality(Listed) = 1) \in BOOLEAN
      BY DEF TypeOK
    <3>2. QED BY <1>2, <3>1
  <2>3. service' \in Entry
    BY <1>3
  <2>4. QED BY <1>4, <2>1, <2>2, <2>3 DEF TypeOK
<1>6. Remembered'
  <2>1. \A e \in service'.events :
           e.id \in seen' /\ docker[e.id].crash /\ e.at = docker[e.id].finished
    <3>1. \A e \in FreshEvents(insp) :
             e.id \in seen' /\ docker[e.id].crash /\ e.at = docker[e.id].finished
      BY <1>1, <1>2, FreshFacts
    <3>2. \A e \in service.events :
             e.id \in seen' /\ docker[e.id].crash /\ e.at = docker[e.id].finished
      BY <1>2 DEF Remembered
    <3>3. service'.events \subseteq service.events \cup FreshEvents(insp)
      BY <1>3 DEF MergedEvents
    <3>4. QED BY <3>1, <3>2, <3>3
  <2>2. \A i \in seen' :
           /\ docker[i].crash
           /\ docker[i].finished >= Cutoff =>
                [id |-> i, at |-> docker[i].finished] \in service'.events
    <3> TAKE i \in seen'
    <3>1. docker[i].crash
      BY <1>1, <1>2, FreshFacts DEF Remembered
    <3>2. ASSUME docker[i].finished >= Cutoff
          PROVE  [id |-> i, at |-> docker[i].finished] \in service'.events
      <4> DEFINE e == [id |-> i, at |-> docker[i].finished]
      <4>1. CASE e \in FreshEvents(insp)
        BY <1>3, <4>1 DEF MergedEvents
      <4>2. CASE e \notin FreshEvents(insp)
        <5>1. \A f \in FreshEvents(insp) : f.id # i
          <6>1. ASSUME NEW f \in FreshEvents(insp), f.id = i PROVE FALSE
            <7>1. f \in Event /\ f.at = docker[i].finished
              BY <1>1, <6>1, FreshFacts
            <7>2. f = e
              BY <6>1, <7>1 DEF Event
            <7>3. QED BY <4>2, <7>2
          <6>2. QED BY <6>1
        <5>2. i \in seen
          BY <1>2, <5>1
        <5>3. e \in service.events
          BY <3>2, <5>2 DEF Remembered
        <5>4. e.id = i /\ e.at >= Cutoff
          BY <3>2
        <5> HIDE DEF e
        <5>5. e \in service'.events
          BY <1>3, <5>1, <5>3, <5>4 DEF MergedEvents
        <5>6. QED BY <5>5 DEF e
      <4>3. QED BY <4>1, <4>2
    <3>3. QED BY <3>1, <3>2
  <2>3. QED BY <1>1, <2>1, <2>2 DEF Remembered
<1>7. QED BY <1>5, <1>6

-----------------------------------------------------------------------------
(* Crashes are remembered *)

\* The inductive invariant.
Inv == TypeOK /\ Corpses /\ Remembered

\* At the start nothing has been seen.
LEMMA InitInv == Init => Inv
<1> SUFFICES ASSUME Init PROVE Inv
  OBVIOUS
<1>1. New \in Container /\ New.crash = FALSE /\ New.restarts = 0
  BY CrashLoopAssumption DEF New, Container
<1>2. docker \in [Ids -> Container] /\ \A i \in Ids : docker[i] = New
  BY <1>1 DEF Init
<1>3. service \in [known : BOOLEAN, restarts : 0..MaxCount, boot : Nat,
                  events : SUBSET Event]
      /\ service.events = {}
  BY CrashLoopAssumption DEF Init, NoEntry
<1>4. seen = {} /\ time \in Nat /\ boot \in Nat /\ snapBoot \in Nat
      /\ restarted \in Nat
  BY DEF Init
<1>5. baseline \in BOOLEAN /\ steady \in BOOLEAN /\ whole \in BOOLEAN
  BY DEF Init
<1>6. QED BY <1>1, <1>2, <1>3, <1>4, <1>5 DEF Inv, TypeOK, Corpses, Remembered

\* Every step keeps the entry of the service and the containers in line.
LEMMA NextInv == Inv /\ [Next]_vars => Inv'
<1> SUFFICES ASSUME Inv, [Next]_vars PROVE Inv'
  OBVIOUS
<1>a. TypeOK /\ Corpses /\ Remembered
  BY DEF Inv
<1>1. CASE \E insp \in Inspectable : Run(insp)
  <2>1. Corpses'
    BY <1>1, <1>a DEF Run, Corpses
  <2>2. QED BY <1>1, <1>a, <2>1, RunFacts DEF Inv
<1>2. CASE BlindRun
  <2>1. /\ service' = Pruned(service) /\ snapBoot' = boot /\ baseline' = TRUE
        /\ steady' = FALSE
        /\ UNCHANGED <<time, boot, docker, restarted, whole, seen>>
    BY <1>2 DEF BlindRun
  <2>a. steady' \in BOOLEAN /\ baseline' \in BOOLEAN
    BY <2>1
  <2>2. TypeOK'
    BY <1>a, <2>1, <2>a, PrunedFacts DEF TypeOK
  <2>3. Corpses' /\ Remembered'
    BY <1>a, <2>1, PrunedFacts DEF Corpses, Remembered, Cutoff
  <2>4. QED BY <2>2, <2>3 DEF Inv
<1>3. CASE Containers
  <2>1. /\ docker' \in [Ids -> Container] /\ Corpses'
        /\ \A j \in Ids : docker[j].crash =>
               docker'[j].crash /\ docker'[j].finished = docker[j].finished
        /\ restarted' \in Nat /\ steady' \in BOOLEAN /\ boot' \in Nat
        /\ UNCHANGED <<time, service, snapBoot, baseline, whole, seen>>
    BY <1>3, <1>a, ContainersFacts
  <2>2. TypeOK'
    BY <1>a, <2>1 DEF TypeOK
  <2>3. Remembered'
    <3>1. seen \subseteq Ids /\ Cutoff' = Cutoff
      BY <1>a, <2>1 DEF TypeOK, Cutoff
    <3>2. QED BY <1>a, <2>1, <3>1 DEF Remembered
  <2>4. QED BY <2>1, <2>2, <2>3 DEF Inv
<1>4. CASE Tick
  <2>1. time' = time + 1
        /\ UNCHANGED <<boot, docker, service, snapBoot, baseline,
                       restarted, steady, whole, seen>>
    BY <1>4 DEF Tick, history
  <2>2. TypeOK' /\ Corpses'
    BY <1>a, <2>1 DEF TypeOK, Corpses
  <2>3. \A i \in Ids : docker[i].finished >= Cutoff' => docker[i].finished >= Cutoff
    BY <1>a, <2>1, CrashLoopAssumption DEF TypeOK, Container, Cutoff
  <2>4. seen \subseteq Ids
    BY <1>a DEF TypeOK
  <2>5. Remembered'
    BY <1>a, <2>1, <2>3, <2>4 DEF Remembered
  <2>6. QED BY <2>2, <2>5 DEF Inv
<1>5. CASE LoseState
  <2>1. /\ baseline' = FALSE /\ snapBoot' = 0 /\ service' = NoEntry
        /\ steady' = FALSE /\ seen' = {}
        /\ UNCHANGED <<time, boot, docker, restarted, whole>>
    BY <1>5 DEF LoseState
  <2>2. NoEntry \in [known : BOOLEAN, restarts : 0..MaxCount, boot : Nat,
                     events : SUBSET Event]
        /\ NoEntry.events = {}
    BY CrashLoopAssumption DEF NoEntry
  <2>3. baseline' \in BOOLEAN /\ steady' \in BOOLEAN
    BY <2>1
  <2>4. TypeOK'
    BY <1>a, <2>1, <2>2, <2>3 DEF TypeOK
  <2>5. Corpses' /\ Remembered'
    BY <1>a, <2>1, <2>2 DEF Corpses, Remembered
  <2>6. QED BY <2>4, <2>5 DEF Inv
<1>6. CASE UNCHANGED vars
  BY <1>6, <1>a DEF vars, history, Inv, TypeOK, Corpses, Remembered, Cutoff
<1>7. QED BY <1>1, <1>2, <1>3, <1>4, <1>5, <1>6
          DEF Next, Watchdog, Environment, Containers

\* The containers a run counts are those that died in the window and were seen
\* by some run or are seen by this one.
LEMMA CountedFacts ==
    ASSUME Inv, NEW insp \in Inspectable
    PROVE  WindowCrashes(insp) =
               Cardinality(Died \cap (seen \cup CrashCorpses(insp)))
<1> DEFINE A == {f \in service.events : f.at >= Cutoff} \cup FreshEvents(insp)
           B == {e.id : e \in A}
           D == Died \cap (seen \cup CrashCorpses(insp))
<1>a. TypeOK /\ Remembered /\ insp \in SUBSET Ids
  BY InspectableFacts DEF Inv, Listed
<1>1. ASSUME NEW i \in B PROVE i \in D
  <2>1. PICK e \in A : e.id = i
    BY DEF B
  <2>2. CASE e \in service.events /\ e.at >= Cutoff
    <3>1. i \in seen /\ docker[i].crash /\ docker[i].finished >= Cutoff
      BY <1>a, <2>1, <2>2 DEF Remembered
    <3>2. i \in Ids
      BY <1>a, <3>1 DEF TypeOK
    <3>3. QED BY <3>1, <3>2 DEF Died
  <2>3. CASE e \in FreshEvents(insp)
    <3>1. PICK j \in CrashCorpses(insp) :
            docker[j].finished >= Cutoff /\ e = [id |-> j, at |-> docker[j].finished]
      BY <2>3 DEF FreshEvents
    <3>2. i = j /\ j \in Ids /\ docker[j].crash
      BY <1>a, <2>1, <3>1 DEF CrashCorpses
    <3>3. QED BY <3>1, <3>2 DEF Died
  <2>4. QED BY <2>1, <2>2, <2>3 DEF A
<1>2. ASSUME NEW i \in D PROVE i \in B
  <2>1. i \in Ids /\ docker[i].finished >= Cutoff
        /\ (i \in seen \/ i \in CrashCorpses(insp))
    BY DEF Died
  <2> DEFINE e == [id |-> i, at |-> docker[i].finished]
  <2>2. e \in A
    <3>1. CASE i \in seen
      BY <1>a, <2>1, <3>1 DEF Remembered
    <3>2. CASE i \in CrashCorpses(insp)
      BY <1>a, <2>1, <3>2, FreshFacts
    <3>3. QED BY <2>1, <3>1, <3>2
  <2>3. QED BY <2>2
<1> HIDE DEF A, B, D
<1>3. B = D
  BY <1>1, <1>2
<1>4. WindowCrashes(insp) = Cardinality(B)
  BY DEF WindowCrashes, A, B
<1>5. QED BY <1>3, <1>4 DEF D

\* Every crash that some run has seen counts for a whole window, once: also after
\* Docker has removed the container, after an outage and after a reboot.
THEOREM CrashesRemembered == Spec => []CrashesAreRemembered
<1>1. Inv => CrashesAreRemembered
  BY CountedFacts DEF CrashesAreRemembered
<1>2. QED BY <1>1, InitInv, NextInv, PTL DEF Spec

-----------------------------------------------------------------------------
(* No false alarm *)

\* While the count on record is that of a whole inspection, no container has
\* restarted more often since than the history says.  (A container that was not
\* inspected breaks this: its count is not in the baseline.)
Baselined ==
    whole /\ service.known =>
        \A i \in Listed : docker[i].restarts <= service.restarts + restarted

\* At the start there is no entry, and no container to be listed.
LEMMA InitBaselined == Init => Baselined
BY DEF Init, NoEntry, Baselined

\* A container that changes is not listed afterwards, or it is new, or its count
\* has grown with the history.
LEMMA BecomeBaselined ==
    ASSUME TypeOK, Baselined, NEW i \in Ids, NEW c \in Container, Become(i, c),
           restarted' \in Nat, restarted <= restarted', whole' = whole,
           \/ c.state = "gone"
           \/ c.restarts = 0
           \/ i \in Listed /\ c.restarts + restarted <= docker[i].restarts + restarted'
    PROVE  Baselined'
<1>1. docker' = [docker EXCEPT ![i] = c] /\ docker \in [Ids -> Container]
      /\ UNCHANGED <<boot, service>>
  BY DEF Become, TypeOK
<1>2. docker'[i] = c /\ \A j \in Ids \ {i} : docker'[j] = docker[j]
  BY <1>1
<1>3. service.restarts \in Nat /\ restarted \in Nat /\ c.restarts \in Nat
      /\ \A j \in Ids : docker[j].restarts \in Nat
  BY CrashLoopAssumption DEF TypeOK, Container
<1>4. ASSUME whole, service.known, NEW j \in Listed'
      PROVE  docker'[j].restarts <= service.restarts + restarted'
  <2>1. CASE j = i
    <3>1. c.state # "gone"
      BY <1>2, <1>4, <2>1 DEF Listed
    <3>2. i \in Listed => docker[i].restarts <= service.restarts + restarted
      BY <1>4 DEF Baselined
    <3>3. c.restarts <= service.restarts + restarted'
      BY <1>3, <3>1, <3>2
    <3>4. QED BY <1>2, <2>1, <3>3
  <2>2. CASE j # i
    <3>1. j \in Ids /\ docker'[j] = docker[j]
      BY <1>2, <1>4, <2>2 DEF Listed
    <3>2. j \in Listed
      BY <1>4, <3>1 DEF Listed
    <3>3. docker[j].restarts <= service.restarts + restarted
      BY <1>4, <3>2 DEF Baselined
    <3>4. QED BY <1>3, <3>1, <3>3
  <2>3. QED BY <2>1, <2>2
<1>5. QED BY <1>1, <1>4 DEF Baselined

\* What a run leaves of an entry it has nothing to say about.
LEMMA PrunedBaselined ==
    ASSUME Baselined, service' = Pruned(service), Listed' = Listed,
           UNCHANGED <<docker, restarted, whole>>
    PROVE  Baselined'
<1>1. CASE service' = service
  BY <1>1 DEF Baselined
<1>2. CASE service' = NoEntry
  BY <1>2 DEF NoEntry, Baselined
<1>3. QED BY <1>1, <1>2 DEF Pruned

\* No step lets a count get ahead of its baseline and the history: a run that does
\* not inspect every container gives up the claim, or keeps a baseline it had.
LEMMA NextBaselined ==
    ASSUME Inv, Baselined, [Next]_vars
    PROVE  Baselined'
<1>a. TypeOK /\ Corpses /\ docker \in [Ids -> Container] /\ restarted \in Nat
      /\ boot \in Nat /\ service.restarts \in Nat
  BY CrashLoopAssumption DEF Inv, TypeOK
<1>1. ASSUME NEW insp \in Inspectable, Run(insp) PROVE Baselined'
  <2>1. insp \subseteq Listed /\ Listed \in SUBSET Ids
    BY InspectableFacts DEF Listed
  <2>2. /\ UNCHANGED <<boot, docker>> /\ service' = Updated(insp) /\ Listed' = Listed
        /\ restarted' = IF insp = {} THEN restarted ELSE 0
        /\ whole' = (insp = Listed \/ (insp = {} /\ service.known /\ whole))
    BY <1>1 DEF Run, Listed
  <2>3. CASE Listed = {}
    BY <2>2, <2>3 DEF Baselined
  <2>4. CASE insp = {} /\ Listed # {}
    <3>1. service'.restarts = service.restarts /\ restarted' = restarted
      BY <2>2, <2>4 DEF Updated
    <3>2. whole' => whole /\ service.known
      BY <2>2, <2>4
    <3>3. QED BY <2>2, <3>1, <3>2 DEF Baselined
  <2>5. CASE insp = Listed /\ Listed # {}
    <3>1. service'.restarts = CurrentCount(Listed) /\ restarted' = 0
      BY <2>2, <2>5 DEF Updated
    <3>2. CurrentCount(Listed) \in Nat
          /\ \A i \in Listed : docker[i].restarts <= CurrentCount(Listed)
      BY <1>a, <2>1, CountFacts, CrashLoopAssumption
    <3>3. \A i \in Listed' : docker'[i].restarts <= service'.restarts + restarted'
      BY <2>2, <3>1, <3>2
    <3>4. QED BY <3>3 DEF Baselined
  <2>6. CASE insp # {} /\ insp # Listed
    BY <2>2, <2>6 DEF Baselined
  <2>7. QED BY <2>3, <2>4, <2>5, <2>6
<1>2. CASE BlindRun
  <2>1. service' = Pruned(service) /\ UNCHANGED <<docker, restarted, whole>>
        /\ Listed' = Listed
    BY <1>2 DEF BlindRun, Listed
  <2>2. QED BY <2>1, PrunedBaselined
<1>3. ASSUME NEW i \in Ids, Create(i) PROVE Baselined'
  <2> DEFINE c == [docker[i] EXCEPT !.state = "running"]
  <2>1. docker[i] \in Container /\ docker[i].restarts = 0
    BY <1>3, <1>a DEF Create, Corpses
  <2>2. c \in Container /\ c.restarts = 0
    BY <2>1 DEF Container
  <2>3. Become(i, c) /\ restarted' = restarted /\ whole' = whole
    BY <1>3 DEF Create
  <2> HIDE DEF c
  <2>4. QED BY <1>a, <2>2, <2>3, BecomeBaselined
<1>4. ASSUME NEW i \in Ids, CrashInPlace(i) PROVE Baselined'
  <2> DEFINE c == [docker[i] EXCEPT !.state = "restarting", !.restarts = @ + 1]
  <2>1. docker[i] \in Container /\ docker[i].restarts + 1 \in 0..MaxCount
        /\ docker[i].restarts \in Nat /\ docker[i].state = "running"
    BY <1>4, <1>a, CrashLoopAssumption DEF CrashInPlace, Container
  <2>2. c \in Container /\ c.restarts = docker[i].restarts + 1
    BY <2>1 DEF Container
  <2>3. Become(i, c) /\ restarted' = restarted + 1 /\ i \in Listed /\ whole' = whole
    BY <1>4, <2>1 DEF CrashInPlace, Listed
  <2> HIDE DEF c
  <2>4. c.restarts + restarted <= docker[i].restarts + restarted'
    BY <1>a, <2>1, <2>2, <2>3
  <2>5. restarted' \in Nat /\ restarted <= restarted'
    BY <1>a, <2>3
  <2>6. QED BY <1>a, <2>2, <2>3, <2>4, <2>5, BecomeBaselined
<1>5. ASSUME NEW i \in Ids, BackUp(i) PROVE Baselined'
  <2> DEFINE c == [docker[i] EXCEPT !.state = "running"]
  <2>1. docker[i] \in Container /\ docker[i].restarts \in Nat
        /\ docker[i].state = "restarting"
    BY <1>5, <1>a, CrashLoopAssumption DEF BackUp, Container
  <2>2. c \in Container /\ c.restarts = docker[i].restarts
    BY <2>1 DEF Container
  <2>3. Become(i, c) /\ restarted' = restarted /\ i \in Listed /\ whole' = whole
    BY <1>5, <2>1 DEF BackUp, Listed, history
  <2> HIDE DEF c
  <2>4. c.restarts + restarted <= docker[i].restarts + restarted'
    BY <1>a, <2>1, <2>2, <2>3
  <2>5. restarted' \in Nat /\ restarted <= restarted'
    BY <1>a, <2>3
  <2>6. QED BY <1>a, <2>2, <2>3, <2>4, <2>5, BecomeBaselined
<1>6. ASSUME NEW i \in Ids, NEW crash \in BOOLEAN, Stop(i, crash) PROVE Baselined'
  <2> DEFINE c == [docker[i] EXCEPT !.state = "exited", !.finished = time,
                                    !.crash = crash]
  <2>1. docker[i] \in Container /\ docker[i].restarts \in Nat /\ time \in Nat
        /\ docker[i].state = "running"
    BY <1>6, <1>a, CrashLoopAssumption DEF Stop, Container, TypeOK
  <2>2. c \in Container /\ c.restarts = docker[i].restarts
    BY <2>1 DEF Container
  <2>3. Become(i, c) /\ restarted' = restarted /\ i \in Listed /\ whole' = whole
    BY <1>6, <2>1 DEF Stop, Listed, history
  <2> HIDE DEF c
  <2>4. c.restarts + restarted <= docker[i].restarts + restarted'
    BY <1>a, <2>1, <2>2, <2>3
  <2>5. restarted' \in Nat /\ restarted <= restarted'
    BY <1>a, <2>3
  <2>6. QED BY <1>a, <2>2, <2>3, <2>4, <2>5, BecomeBaselined
<1>7. ASSUME NEW i \in Ids, Remove(i) PROVE Baselined'
  <2> DEFINE c == [docker[i] EXCEPT !.state = "gone"]
  <2>1. docker[i] \in Container
    BY <1>a
  <2>2. c \in Container /\ c.state = "gone"
    BY <2>1 DEF Container
  <2>3. Become(i, c) /\ restarted' = restarted /\ whole' = whole
    BY <1>7 DEF Remove, history
  <2> HIDE DEF c
  <2>4. QED BY <1>a, <2>2, <2>3, BecomeBaselined
<1>8. CASE Reboot
  <2>1. UNCHANGED <<service, restarted, whole>>
    BY <1>8 DEF Reboot
  <2>2. PICK reset \in BOOLEAN :
          docker' = [i \in Ids |->
                       IF i \in Running /\ reset
                         THEN [docker[i] EXCEPT !.restarts = 0] ELSE docker[i]]
    BY <1>8 DEF Reboot
  <2>3. \A i \in Ids : /\ docker'[i].state = docker[i].state
                      /\ docker'[i].restarts \in {0, docker[i].restarts}
    BY <1>a, <2>2 DEF Container
  <2>4. Listed' = Listed
    BY <2>3 DEF Listed
  <2>5. \A i \in Listed : docker'[i].restarts <= docker[i].restarts
    BY <1>a, <2>3, CrashLoopAssumption DEF Container, Listed
  <2>6. \A i \in Listed : docker[i].restarts \in Nat /\ docker'[i].restarts \in Nat
    BY <1>a, <2>3, CrashLoopAssumption DEF Container, Listed
  <2>7. QED BY <1>a, <2>1, <2>4, <2>5, <2>6 DEF Baselined
<1>9. CASE Tick
  BY <1>9 DEF Tick, history, Baselined, Listed
<1>10. CASE LoseState
  <2>1. service'.known = FALSE
    BY <1>10 DEF LoseState, NoEntry
  <2>2. QED BY <2>1 DEF Baselined
<1>11. CASE UNCHANGED vars
  BY <1>11 DEF vars, history, Baselined, Listed
<1>12. QED
  BY <1>1, <1>2, <1>3, <1>4, <1>5, <1>6, <1>7, <1>8, <1>9, <1>10, <1>11
     DEF Next, Watchdog, Environment

\* The restarts a run computes from a whole baseline have happened.
LEMMA DeltaFacts ==
    ASSUME TypeOK, Baselined, whole, NEW insp \in Inspectable
    PROVE  RestartDelta(insp) \in Nat /\ RestartDelta(insp) <= restarted
<1>1. /\ service.restarts \in Nat /\ restarted \in Nat
      /\ insp \subseteq Listed /\ insp \in SUBSET Ids
      /\ \A i \in insp : docker[i].restarts \in Nat
  BY InspectableFacts, CrashLoopAssumption DEF TypeOK, Container, Listed
<1>2. CASE HasDelta /\ CurrentCount(insp) >= service.restarts
  <2>1. RestartDelta(insp) = CurrentCount(insp) - service.restarts
    BY <1>2 DEF RestartDelta
  <2>2. CurrentCount(insp) \in Nat
        /\ (CurrentCount(insp) = 0
             \/ \E i \in insp : CurrentCount(insp) = docker[i].restarts)
    BY <1>1, CountFacts, CrashLoopAssumption
  <2>3. \A i \in insp : docker[i].restarts <= service.restarts + restarted
    BY <1>1, <1>2 DEF HasDelta, Baselined
  <2>4. QED BY <1>1, <1>2, <2>1, <2>2, <2>3
<1>3. CASE ~(HasDelta /\ CurrentCount(insp) >= service.restarts)
  BY <1>1, <1>3 DEF RestartDelta
<1>4. QED BY <1>2, <1>3

\* The check counts no crash that has not happened.
LEMMA CrashesFacts ==
    ASSUME Inv, Baselined, whole, NEW insp \in Inspectable,
           Verdict(insp) = "BAD"
    PROVE  Cardinality(Died) >= Restarts \/ restarted >= Restarts
<1> DEFINE w == WindowCrashes(insp)
           d == RestartDelta(insp)
           D == Died \cap (seen \cup CrashCorpses(insp))
<1>1. TypeOK /\ Restarts \in Nat \ {0}
  BY CrashLoopAssumption DEF Inv
<1>2. Crashes(insp) >= Restarts
  BY DEF Verdict
<1>3. IsFiniteSet(Died) /\ Cardinality(Died) \in Nat
  <2>1. Died \in SUBSET Ids
    BY DEF Died
  <2>2. IsFiniteSet(Died)
    BY <2>1, FS_Subset, CrashLoopAssumption
  <2>3. QED BY <2>2, FS_CardinalityType
<1>4. w \in Nat /\ w <= Cardinality(Died)
  <2>1. w = Cardinality(D)
    BY CountedFacts
  <2>2. D \in SUBSET Died
    OBVIOUS
  <2> HIDE DEF w, D
  <2>3. IsFiniteSet(D) /\ Cardinality(D) <= Cardinality(Died)
    BY <1>3, <2>2, FS_Subset
  <2>4. QED BY <2>1, <2>3, FS_CardinalityType
<1>5. d \in Nat /\ d <= restarted /\ restarted \in Nat
  BY <1>1, DeltaFacts DEF TypeOK
<1>6. Crashes(insp) \in {w, d}
  <2>1. {w, d} \subseteq 0..(w + d) /\ {w, d} # {} /\ w + d \in Nat
    <3> HIDE DEF w, d
    <3>1. QED BY <1>4, <1>5
  <2>2. Greatest({w, d}) \in {w, d}
    <3> HIDE DEF w, d
    <3>1. QED BY <2>1, GreatestFacts
  <2>3. QED BY <2>2 DEF Crashes
<1> HIDE DEF w, d, D
<1>7. QED BY <1>1, <1>2, <1>3, <1>4, <1>5, <1>6

\* No false alarm: while the baseline is that of a whole inspection, the check says
\* BAD only of crashes or restarts that have happened since it could last tell.
THEOREM NoFalseAlarm == Spec => []AlarmIsReal
<1>1. Inv /\ Baselined => AlarmIsReal
  BY CrashesFacts DEF AlarmIsReal
<1>2. Init => Inv /\ Baselined
  BY InitInv, InitBaselined
<1>3. Inv /\ Baselined /\ [Next]_vars => (Inv /\ Baselined)'
  BY NextInv, NextBaselined
<1>4. QED BY <1>1, <1>2, <1>3, PTL DEF Spec

-----------------------------------------------------------------------------
(* No missed loop *)

\* While the history is steady, the one container left has the baseline of this
\* boot, and its count is ahead of it by just what the history says.
Followed ==
    steady /\ Listed # {} =>
        /\ HasDelta
        /\ \E c \in Ids : /\ Listed = {c}
                          /\ docker[c].restarts = service.restarts + restarted

(* No run has inspected anything yet, so nothing is followed. *)
LEMMA InitFollowed == Init => Followed
BY DEF Init, Followed

\* A change to the one container leaves it the one, or leaves none.
LEMMA BecomeFollowed ==
    ASSUME TypeOK, Followed, NEW i \in Listed, NEW c \in Container,
           Become(i, c), restarted' \in Nat, steady' = steady,
           c.state # "new",
           \/ c.state = "gone"
           \/ c.restarts + restarted = docker[i].restarts + restarted'
    PROVE  Followed'
<1>1. docker' = [docker EXCEPT ![i] = c] /\ docker \in [Ids -> Container]
      /\ UNCHANGED <<boot, service, snapBoot, baseline>> /\ i \in Ids
  BY DEF Become, TypeOK, Listed
<1>2. docker'[i] = c /\ \A j \in Ids \ {i} : docker'[j] = docker[j]
  BY <1>1
<1>3. service.restarts \in Nat /\ restarted \in Nat /\ c.restarts \in Nat
      /\ docker[i].restarts \in Nat
  BY <1>1, CrashLoopAssumption DEF TypeOK, Container
<1>4. SUFFICES ASSUME steady, Listed' # {}
               PROVE  /\ HasDelta'
                      /\ \E x \in Ids :
                            /\ Listed' = {x}
                            /\ docker'[x].restarts = service'.restarts + restarted'
  BY DEF Followed
<1>5. HasDelta /\ Listed = {i}
      /\ docker[i].restarts = service.restarts + restarted
  BY <1>4 DEF Followed
<1>6. HasDelta'
  BY <1>1, <1>5 DEF HasDelta
<1>7. Listed' = IF c.state = "gone" THEN {} ELSE {i}
  <2>1. \A j \in Ids : j \in Listed' <=> (j = i /\ c.state # "gone")
    BY <1>2, <1>5 DEF Listed
  <2>2. Listed' \subseteq Ids
    BY DEF Listed
  <2>3. QED BY <1>1, <2>1, <2>2
<1>8. c.state # "gone" /\ Listed' = {i}
  BY <1>4, <1>7
<1>9. docker'[i].restarts = service'.restarts + restarted'
  BY <1>1, <1>2, <1>3, <1>5, <1>8
<1>10. QED BY <1>1, <1>6, <1>8, <1>9

\* A run either inspects the one container and starts anew from its count, or
\* keeps the baseline it has.
LEMMA RunFollowed ==
    ASSUME Inv, Followed, NEW insp \in Inspectable, Run(insp)
    PROVE  Followed'
<1>1. /\ TypeOK /\ insp \subseteq Listed /\ Listed \in SUBSET Ids
      /\ IsFiniteSet(Listed)
  BY InspectableFacts, FS_Subset, CrashLoopAssumption DEF Inv, Listed
<1>2. /\ UNCHANGED <<time, boot, docker>> /\ service' = Updated(insp)
      /\ snapBoot' = boot /\ baseline' = TRUE /\ Listed' = Listed
      /\ restarted' = IF insp = {} THEN restarted ELSE 0
      /\ steady' = IF insp = {} THEN steady ELSE Cardinality(Listed) = 1
  BY DEF Run, Listed
<1>3. SUFFICES ASSUME steady', Listed # {}
               PROVE  /\ HasDelta'
                      /\ \E x \in Ids :
                            /\ Listed = {x}
                            /\ docker[x].restarts = service'.restarts + restarted'
  BY <1>2 DEF Followed
<1>4. service' = [known |-> TRUE, boot |-> boot, events |-> MergedEvents(insp),
                  restarts |-> IF insp = {} THEN service.restarts
                               ELSE CurrentCount(insp)]
  BY <1>2, <1>3 DEF Updated
<1>5. HasDelta'
  BY <1>2, <1>4 DEF HasDelta
<1>6. CASE insp = {}
  BY <1>2, <1>3, <1>4, <1>5, <1>6 DEF Followed
<1>7. CASE insp # {}
  <2>1. PICK c : Listed = {c}
    BY <1>1, <1>2, <1>3, <1>7, FS_Singleton
  <2>2. insp = {c} /\ c \in Ids /\ insp \in SUBSET Ids
    BY <1>1, <1>7, <2>1
  <2>3. docker[c].restarts \in Nat
    BY <1>1, <2>2, CrashLoopAssumption DEF TypeOK, Container
  <2>4. /\ CurrentCount(insp) \in Nat
        /\ docker[c].restarts <= CurrentCount(insp)
        /\ CurrentCount(insp) = 0 \/ CurrentCount(insp) = docker[c].restarts
    BY <1>1, <2>2, CountFacts, CrashLoopAssumption
  <2>5. docker[c].restarts = CurrentCount(insp)
    BY <2>3, <2>4
  <2>6. service'.restarts = CurrentCount(insp) /\ restarted' = 0
    BY <1>2, <1>4, <1>7
  <2>7. docker[c].restarts = service'.restarts + restarted'
    BY <2>4, <2>5, <2>6
  <2>8. QED BY <1>5, <2>1, <2>2, <2>7
<1>8. QED BY <1>6, <1>7

(* Every step, of Docker or of a run, keeps what a steady service is known by. *)
LEMMA NextFollowed ==
    ASSUME Inv, Followed, [Next]_vars
    PROVE  Followed'
<1>a. TypeOK /\ docker \in [Ids -> Container] /\ restarted \in Nat
      /\ \A i \in Ids : docker[i].restarts \in Nat
  BY CrashLoopAssumption DEF Inv, TypeOK, Container
<1>1. ASSUME NEW insp \in Inspectable, Run(insp) PROVE Followed'
  BY <1>1, RunFollowed
<1>2. CASE BlindRun \/ LoseState \/ Reboot
  BY <1>2 DEF BlindRun, LoseState, Reboot, Followed
<1>3. ASSUME NEW i \in Ids, Create(i) PROVE Followed'
  BY <1>3 DEF Create, Followed
<1>4. ASSUME NEW i \in Ids, CrashInPlace(i) PROVE Followed'
  <2> DEFINE c == [docker[i] EXCEPT !.state = "restarting", !.restarts = @ + 1]
  <2>1. docker[i] \in Container /\ docker[i].restarts + 1 \in 0..MaxCount
        /\ docker[i].state = "running"
    BY <1>4, <1>a, CrashLoopAssumption DEF CrashInPlace, Container
  <2>2. c \in Container /\ c.restarts = docker[i].restarts + 1 /\ c.state # "new"
    BY <2>1 DEF Container
  <2>3. Become(i, c) /\ restarted' = restarted + 1 /\ i \in Listed
        /\ steady' = steady
    BY <1>4, <2>1 DEF CrashInPlace, Listed
  <2> HIDE DEF c
  <2>4. c.restarts + restarted = docker[i].restarts + restarted'
        /\ restarted' \in Nat
    BY <1>a, <2>2, <2>3
  <2>5. QED BY <1>a, <2>2, <2>3, <2>4, BecomeFollowed
<1>5. ASSUME NEW i \in Ids, BackUp(i) PROVE Followed'
  <2> DEFINE c == [docker[i] EXCEPT !.state = "running"]
  <2>1. docker[i] \in Container /\ docker[i].state = "restarting"
    BY <1>5, <1>a DEF BackUp
  <2>2. c \in Container /\ c.restarts = docker[i].restarts /\ c.state # "new"
    BY <2>1 DEF Container
  <2>3. Become(i, c) /\ restarted' = restarted /\ i \in Listed
        /\ steady' = steady
    BY <1>5, <2>1 DEF BackUp, Listed, history
  <2> HIDE DEF c
  <2>4. c.restarts + restarted = docker[i].restarts + restarted'
        /\ restarted' \in Nat
    BY <1>a, <2>2, <2>3
  <2>5. QED BY <1>a, <2>2, <2>3, <2>4, BecomeFollowed
<1>6. ASSUME NEW i \in Ids, NEW crash \in BOOLEAN, Stop(i, crash)
      PROVE  Followed'
  <2> DEFINE c == [docker[i] EXCEPT !.state = "exited", !.finished = time,
                                    !.crash = crash]
  <2>1. docker[i] \in Container /\ docker[i].state = "running" /\ time \in Nat
    BY <1>6, <1>a DEF Stop, TypeOK
  <2>2. c \in Container /\ c.restarts = docker[i].restarts /\ c.state # "new"
    BY <2>1 DEF Container
  <2>3. Become(i, c) /\ restarted' = restarted /\ i \in Listed
        /\ steady' = steady
    BY <1>6, <2>1 DEF Stop, Listed, history
  <2> HIDE DEF c
  <2>4. c.restarts + restarted = docker[i].restarts + restarted'
        /\ restarted' \in Nat
    BY <1>a, <2>2, <2>3
  <2>5. QED BY <1>a, <2>2, <2>3, <2>4, BecomeFollowed
<1>7. ASSUME NEW i \in Ids, Remove(i) PROVE Followed'
  <2> DEFINE c == [docker[i] EXCEPT !.state = "gone"]
  <2>1. docker[i] \in Container
    BY <1>a
  <2>2. c \in Container /\ c.state = "gone"
    BY <2>1 DEF Container
  <2>3. Become(i, c) /\ restarted' = restarted /\ i \in Listed
        /\ steady' = steady
    BY <1>7 DEF Remove, history
  <2> HIDE DEF c
  <2>4. QED BY <1>a, <2>2, <2>3, BecomeFollowed
<1>8. CASE Tick
  BY <1>8 DEF Tick, history, Followed, Listed, HasDelta
<1>9. CASE UNCHANGED vars
  BY <1>9 DEF vars, history, Followed, Listed, HasDelta
<1>10. QED
  BY <1>1, <1>2, <1>3, <1>4, <1>5, <1>6, <1>7, <1>8, <1>9
     DEF Next, Watchdog, Environment

\* A run that inspects a container it followed counts every restart.
LEMMA FollowedIsCaught ==
    ASSUME Inv, Followed, NEW insp \in Inspectable \ {{}}, steady,
           restarted >= Restarts
    PROVE  Verdict(insp) = "BAD"
<1>1. TypeOK /\ insp \subseteq Listed /\ insp \in SUBSET Ids
      /\ insp # {} /\ insp \in Inspectable /\ Listed # {}
  BY InspectableFacts DEF Inv, Listed
<1>2. PICK c \in Ids : /\ HasDelta /\ Listed = {c}
                       /\ docker[c].restarts = service.restarts + restarted
  BY <1>1 DEF Followed
<1>3. insp = {c}
  BY <1>1, <1>2
<1>4. service.restarts \in Nat /\ restarted \in Nat
      /\ Restarts \in Nat \ {0}
  BY <1>1, CrashLoopAssumption DEF TypeOK
<1>5. CurrentCount(insp) \in Nat /\ CurrentCount(insp) = docker[c].restarts
  <2>1. /\ CurrentCount(insp) \in Nat
        /\ docker[c].restarts <= CurrentCount(insp)
        /\ CurrentCount(insp) = 0 \/ CurrentCount(insp) = docker[c].restarts
    BY <1>1, <1>3, CountFacts, CrashLoopAssumption
  <2>2. QED BY <1>2, <1>4, <2>1
<1>6. RestartDelta(insp) = restarted
  BY <1>2, <1>4, <1>5 DEF RestartDelta
<1>7. WindowCrashes(insp) \in Nat
  <2> DEFINE D == Died \cap (seen \cup CrashCorpses(insp))
  <2>1. D \in SUBSET Ids
    BY DEF Died
  <2>2. IsFiniteSet(D)
    BY <2>1, FS_Subset, CrashLoopAssumption
  <2>3. QED BY <1>1, <2>2, CountedFacts, FS_CardinalityType
<1>8. Crashes(insp) >= restarted /\ Crashes(insp) \in Nat
  <2> DEFINE w == WindowCrashes(insp)
             S == {w, restarted}
  <2>1. S \subseteq 0..(w + restarted) /\ S # {} /\ w + restarted \in Nat
    BY <1>4, <1>7
  <2>2. Crashes(insp) = Greatest(S)
    BY <1>6 DEF Crashes
  <2> HIDE DEF w
  <2>3. Greatest(S) \in S /\ \A m \in S : m <= Greatest(S)
    BY <2>1, GreatestFacts
  <2>4. QED BY <1>4, <1>7, <2>2, <2>3 DEF w
<1>9. Running \ insp = {}
  BY <1>2, <1>3 DEF Running, Listed
<1>10. QED BY <1>1, <1>4, <1>8, <1>9 DEF Verdict

\* No missed loop: a container that Docker restarted in place often enough since
\* a run inspected it is reported by the next run that inspects it, whatever the
\* runs in between that reached Docker made of it.
THEOREM NoMissedLoop == Spec => []LoopIsCaught
<1>1. Inv /\ Followed => LoopIsCaught
  BY FollowedIsCaught DEF LoopIsCaught
<1>2. Init => Inv /\ Followed
  BY InitInv, InitFollowed
<1>3. Inv /\ Followed /\ [Next]_vars => (Inv /\ Followed)'
  BY NextInv, NextFollowed
<1>4. QED BY <1>1, <1>2, <1>3, PTL DEF Spec
=============================================================================
