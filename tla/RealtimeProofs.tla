--------------------------- MODULE RealtimeProofs ---------------------------
(***************************************************************************)
(* The realtime endpoint and the hub below it, for any number of           *)
(* connections, devices, accounts, subscribers, events and places in a     *)
(* queue.                                                                  *)
(*                                                                         *)
(* The hub: statuses reach a subscriber in their order, and the last of    *)
(* them does.  Both rest on what a queue holds of one device: a            *)
(* nondecreasing run of stamps between the one that was sent last and the  *)
(* one the room remembers (Sorted), in every slot, whether or not somebody *)
(* has it.  Whatever is put behind it, a new snapshot or a replay, bears   *)
(* the stamp that is then remembered; dropping what does not fit takes     *)
(* away the end only.                                                      *)
(*                                                                         *)
(* The endpoint: the hub keeps exactly the subscriptions of connections    *)
(* that are not over, access is cut in time, and who has been cut falls    *)
(* silent.  Every step of the endpoint is a step of the hub or leaves it   *)
(* alone, so what is shown of the hub holds here too.  Of each connection  *)
(* two things are known.  Tidy: its slot holds a subscription exactly      *)
(* while the forwarding task is at it, which it cannot be before the       *)
(* connection is open.  Timely: while the watcher sleeps, the ticks since  *)
(* the access was lost and the ticks until it wakes make no more than      *)
(* AUTHZ_RECHECK; and whatever was checked in this tick was fine then,     *)
(* because no tick passes between two SELECTs of a check or while a frame  *)
(* is handled.                                                             *)
(***************************************************************************)
EXTENDS EndpointProperties, HubProperties, TLAPS

\* An event that is a snapshot of device d.
Mine(e, d) == e.kind = "snapshot" /\ e.from = d

\* The snapshot of d with stamp n is in q.
Holds(q, d, n) == \E i \in DOMAIN q : Mine(q[i], d) /\ q[i].n = n

\* The stamps of d in q, from low up to high.
Sorted(q, d, low, high) ==
    /\ low <= high
    /\ \A i \in DOMAIN q : Mine(q[i], d) =>
          /\ low <= q[i].n /\ q[i].n <= high
          /\ \A j \in DOMAIN q : i < j /\ Mine(q[j], d) => q[i].n <= q[j].n

Ordered == \A s \in Subscriber, d \in Device : Sorted(queue[s], d, seen[s][d], last[d].n)

\* No stamp is from the future.
Stamped == \A d \in Device : last[d].n <= events

HubInv == HubTypeOK /\ Stamped /\ Ordered /\ CaughtUp

USE AccountOfAssumption, QueueSizeAssumption, ReplayMaxAgeAssumption, MaxEventsAssumption

-----------------------------------------------------------------------------
(* Queues. *)

LEMMA PutQueue ==
  ASSUME NEW q \in Seq(Event), NEW es \in Seq(Event)
  PROVE  /\ Put(q, es) \in Seq(Event)
         /\ Len(Put(q, es)) <= QueueSize
         /\ Fits(q, es) => Put(q, es) = q \o es
         /\ \A i \in DOMAIN Put(q, es) : i \in DOMAIN (q \o es) /\ Put(q, es)[i] = (q \o es)[i]
<1> DEFINE all == q \o es
           n == IF Len(all) > QueueSize THEN QueueSize ELSE Len(all)
<1>1. all \in Seq(Event) /\ n \in 0 .. Len(all) /\ n <= QueueSize
  OBVIOUS
<1>2. /\ SubSeq(all, 1, n) \in Seq(Event)
      /\ Len(SubSeq(all, 1, n)) = n
      /\ \A i \in 1 .. n : SubSeq(all, 1, n)[i] = all[i]
  BY <1>1
<1>3. Len(all) <= QueueSize => SubSeq(all, 1, n) = all
  BY <1>1
<1>4. Put(q, es) = SubSeq(all, 1, n) /\ (Fits(q, es) => Len(all) <= QueueSize)
  BY DEF Put, Capped, Fits
<1> HIDE DEF n
<1>5. \A i \in 1 .. n : i \in DOMAIN all
  BY <1>1
<1> QED BY <1>1, <1>2, <1>3, <1>4, <1>5

\* What is put behind a sorted queue bears one stamp, not below the highest.
LEMMA PutSorted ==
  ASSUME NEW q \in Seq(Event), NEW es \in Seq(Event), NEW d \in Device,
         NEW low \in Nat, NEW high \in Nat, NEW new \in Nat,
         Sorted(q, d, low, high), high <= new,
         \A i \in DOMAIN es : Mine(es[i], d) => es[i].n = new
  PROVE  Sorted(Put(q, es), d, low, new)
<1> DEFINE p == Put(q, es)
<1>1. \A i \in DOMAIN p : \/ i \in DOMAIN q /\ p[i] = q[i]
                          \/ /\ i > Len(q) /\ i - Len(q) \in DOMAIN es
                             /\ p[i] = es[i - Len(q)]
  BY PutQueue
<1>2. \A i \in DOMAIN q : Mine(q[i], d) => q[i].n \in Nat
  BY DEF Mine, Event, Snapshot, Message, Photo
<1>3. DOMAIN p \subseteq Nat /\ DOMAIN q = 1 .. Len(q)
  BY PutQueue
<1>4. \A i \in DOMAIN p : Mine(p[i], d) => p[i].n \in Nat /\ low <= p[i].n /\ p[i].n <= new
  BY <1>1, <1>2 DEF Sorted
<1>5. ASSUME NEW i \in DOMAIN p, NEW j \in DOMAIN p, Mine(p[i], d), i < j, Mine(p[j], d)
      PROVE  p[i].n <= p[j].n
  <2>1. CASE j \in DOMAIN q /\ p[j] = q[j]
    BY <1>1, <1>3, <1>5, <2>1 DEF Sorted
  <2>2. CASE p[j].n = new
    BY <1>4, <1>5, <2>2
  <2> QED BY <1>1, <1>5, <2>1, <2>2
<1> QED BY <1>4, <1>5 DEF Sorted

\* Sending the head on.
LEMMA TailSorted ==
  ASSUME NEW q \in Seq(Event), q # <<>>, NEW d \in Device,
         NEW low \in Nat, NEW high \in Nat, Sorted(q, d, low, high)
  PROVE  /\ Mine(Head(q), d) =>
               /\ Head(q).n \in Nat /\ low <= Head(q).n /\ Head(q).n <= high
               /\ Sorted(Tail(q), d, Head(q).n, high)
         /\ Sorted(Tail(q), d, low, high)
<1>1. Head(q) = q[1] /\ 1 \in DOMAIN q
  OBVIOUS
<1>2. DOMAIN Tail(q) \subseteq Nat /\ \A i \in DOMAIN Tail(q) : i + 1 \in DOMAIN q /\ 1 < i + 1 /\ Tail(q)[i] = q[i + 1]
  OBVIOUS
<1>3. Sorted(Tail(q), d, low, high)
  BY <1>2 DEF Sorted
<1>4. ASSUME Mine(q[1], d) PROVE /\ q[1].n \in Nat /\ low <= q[1].n /\ q[1].n <= high
                                  /\ Sorted(Tail(q), d, q[1].n, high)
  <2>1. q[1].n \in Nat
    BY <1>1, <1>4 DEF Mine, Event, Snapshot, Message, Photo
  <2> QED BY <1>1, <1>2, <1>4, <2>1 DEF Sorted
<1> QED BY <1>1, <1>3, <1>4

\* A replay consists of the remembered snapshots, and leaves none of the fresh out.
LEMMA Replays ==
  ASSUME HubTypeOK, NEW device \in Device, NEW es \in Replay(device)
  PROVE  /\ es \in Seq(Event)
         /\ \A i \in DOMAIN es : \A d \in Device : Mine(es[i], d) => es[i].n = last[d].n
         /\ \A d \in Fresh(device) : Holds(es, d, last[d].n)
<1>1. PICK ks \in UNION {[1 .. n -> Fresh(device)] : n \in 0 .. Len(order)} :
         /\ es = Snapshots(ks)
         /\ \A d \in Fresh(device) : \E i \in DOMAIN ks : ks[i] = d
  BY DEF Replay
<1>2. PICK n \in 0 .. Len(order) : ks \in [1 .. n -> Fresh(device)]
  OBVIOUS
<1>3. n \in Nat
  BY DEF HubTypeOK
<1>4. Fresh(device) \subseteq Device
  BY DEF Fresh
<1>5. DOMAIN es = 1 .. n /\ \A i \in 1 .. n : es[i] = [kind |-> "snapshot", from |-> ks[i], n |-> last[ks[i]].n]
  BY <1>1, <1>2 DEF Snapshots
<1>6. \A i \in 1 .. n : ks[i] \in Device /\ last[ks[i]].n \in Nat
  BY <1>2, <1>4 DEF HubTypeOK
<1>7. \A i \in 1 .. n : es[i] \in Event
  BY <1>5, <1>6 DEF Event, Snapshot
<1>8. es \in [1 .. n -> Event]
  BY <1>1, <1>5, <1>7 DEF Snapshots
<1>9. es \in Seq(Event)
  BY <1>3, <1>8
<1> QED BY <1>1, <1>2, <1>5, <1>9 DEF Mine, Holds

LEMMA FanOutQueues ==
  ASSUME HubTypeOK, NEW readers, NEW e \in Event, FanOut(readers, e)
  PROVE  /\ <<e>> \in Seq(Event)
         /\ queue' \in [Subscriber -> Seq(Event)]
         /\ \A s \in Subscriber :
               /\ Len(queue'[s]) <= QueueSize
               /\ queue'[s] = IF s \in readers THEN Put(queue[s], <<e>>) ELSE queue[s]
<1>1. <<e>> \in Seq(Event)
  OBVIOUS
<1>2. \A s \in Subscriber : queue[s] \in Seq(Event) /\ Len(queue[s]) <= QueueSize
  BY DEF HubTypeOK
<1>3. \A s \in Subscriber : /\ Put(queue[s], <<e>>) \in Seq(Event)
                             /\ Len(Put(queue[s], <<e>>)) <= QueueSize
  BY <1>1, <1>2, PutQueue
<1> QED BY <1>1, <1>2, <1>3 DEF FanOut

\* A toggle puts es into the queues of the device.
Toggled(d, on, es) ==
    /\ on = TRUE => es \in Replay(d)
    /\ \A i \in DOMAIN es : \A e \in Device : Mine(es[i], e) => es[i].n = last[e].n
    /\ queue' \in [Subscriber -> Seq(Event)]
    /\ \A s \in Subscriber :
          /\ Len(queue'[s]) <= QueueSize
          /\ queue'[s] = IF s \in Live /\ sub[s].device = d THEN Put(queue[s], es) ELSE queue[s]
          /\ s \notin lost' => s \notin lost /\ (s \in Live /\ sub[s].device = d => Fits(queue[s], es))

LEMMA SetListeningQueues ==
  ASSUME HubTypeOK, NEW d \in Device, NEW on \in BOOLEAN, SetListening(d, on)
  PROVE  \E es \in Seq(Event) : Toggled(d, on, es)
<1>1. PICK es \in IF on THEN Replay(d) ELSE {<<>>} :
         /\ queue' = [s \in Subscriber |-> IF s \in Live /\ sub[s].device = d THEN Put(queue[s], es) ELSE queue[s]]
         /\ lost' = lost \cup {s \in {t \in Live : sub[t].device = d} : ~Fits(queue[s], es)}
  BY DEF SetListening
<1>2. es \in Seq(Event) /\ \A i \in DOMAIN es : \A e \in Device : Mine(es[i], e) => es[i].n = last[e].n
  <2>1. CASE on
    BY <1>1, <2>1, Replays
  <2>2. CASE ~on
    BY <1>1, <2>2
  <2> QED BY <2>1, <2>2
<1>3. \A s \in Subscriber : queue[s] \in Seq(Event) /\ Len(queue[s]) <= QueueSize
  BY DEF HubTypeOK
<1>4. \A s \in Subscriber : /\ Put(queue[s], es) \in Seq(Event)
                             /\ Len(Put(queue[s], es)) <= QueueSize
  BY <1>2, <1>3, PutQueue
<1>5. Live \subseteq Subscriber
  BY DEF Live
<1> QED BY <1>1, <1>2, <1>3, <1>4, <1>5 DEF Toggled

\* A new subscriber s of device d starts with the replay es.
Subscribed(s, d, es) ==
    /\ es \in Replay(d)
    /\ queue' = [queue EXCEPT ![s] = Put(<<>>, es)]
    /\ Put(<<>>, es) \in Seq(Event) /\ Len(Put(<<>>, es)) <= QueueSize
    /\ s \notin lost' => Fits(<<>>, es)
    /\ \A t \in Subscriber : t # s => (t \in lost' <=> t \in lost)
    /\ lost' \in SUBSET Subscriber

LEMMA SubscribeQueue ==
  ASSUME HubTypeOK, NEW s \in Subscriber, NEW d \in Device, Subscribe(s, d)
  PROVE  \E es \in Seq(Event) : Subscribed(s, d, es)
<1>1. PICK es \in Replay(d) :
         /\ queue' = [queue EXCEPT ![s] = Put(<<>>, es)]
         /\ lost' = IF Fits(<<>>, es) THEN lost ELSE lost \cup {s}
  BY DEF Subscribe
<1>2. es \in Seq(Event) /\ <<>> \in Seq(Event)
  BY Replays
<1>3. Put(<<>>, es) \in Seq(Event) /\ Len(Put(<<>>, es)) <= QueueSize
  BY <1>2, PutQueue
<1> QED BY <1>1, <1>2, <1>3 DEF HubTypeOK, Subscribed

-----------------------------------------------------------------------------
(* Types. *)

LEMMA HubInitInv == HubInit => HubInv
<1> SUFFICES ASSUME HubInit PROVE HubInv
  OBVIOUS
<1>1. HubTypeOK
  BY DEF HubInit, HubTypeOK, Never
<1>2. Stamped /\ Ordered /\ CaughtUp
  BY DEF HubInit, Stamped, Ordered, Sorted, CaughtUp, Live, Never
<1> QED BY <1>1, <1>2 DEF HubInv

LEMMA Counting ==
  ASSUME HubTypeOK, CountEvent
  PROVE  events' = events + 1 /\ events \in Nat /\ events' \in Nat
  BY DEF HubTypeOK, CountEvent

LEMMA HubTypeInductive == HubTypeOK /\ [HubNext]_hubVars => HubTypeOK'
<1> SUFFICES ASSUME HubTypeOK, [HubNext]_hubVars PROVE HubTypeOK'
  OBVIOUS
<1>1. ASSUME NEW s \in Subscriber, Unsubscribe(s) PROVE HubTypeOK'
  <2>1. queue' \in [Subscriber -> Seq(Event)] /\ \A t \in Subscriber : Len(queue'[t]) <= QueueSize
    BY <1>1 DEF Unsubscribe, HubTypeOK
  <2> QED BY <1>1, <2>1 DEF Unsubscribe, HubTypeOK
<1>2. ASSUME NEW s \in Subscriber, Forward(s) PROVE HubTypeOK'
  <2>1. queue[s] \in Seq(Event) /\ queue[s] # <<>> /\ Len(queue[s]) <= QueueSize
    BY <1>2 DEF Forward, HubTypeOK
  <2>2. /\ Tail(queue[s]) \in Seq(Event) /\ Len(Tail(queue[s])) <= QueueSize
        /\ Head(queue[s]) \in Event
    BY <2>1
  <2>3. queue' \in [Subscriber -> Seq(Event)] /\ \A t \in Subscriber : Len(queue'[t]) <= QueueSize
    BY <1>2, <2>2 DEF Forward, HubTypeOK
  <2>4. seen' \in [Subscriber -> [Device -> Nat]]
    <3>1. CASE Head(queue[s]).kind = "snapshot"
      <4>1. Head(queue[s]).from \in Device /\ Head(queue[s]).n \in Nat
        BY <2>2, <3>1 DEF Event, Snapshot, Message, Photo
      <4> QED BY <1>2, <3>1, <4>1 DEF Forward, HubTypeOK
    <3> QED BY <1>2, <3>1 DEF Forward, HubTypeOK
  <2> QED BY <1>2, <2>3, <2>4 DEF Forward, HubTypeOK
<1>3. ASSUME NEW s \in Subscriber, NEW d \in Device, Subscribe(s, d) PROVE HubTypeOK'
  <2>1. queue' \in [Subscriber -> Seq(Event)] /\ \A t \in Subscriber : Len(queue'[t]) <= QueueSize
    <3>1. PICK es \in Seq(Event) : Subscribed(s, d, es)
      BY <1>3, SubscribeQueue
    <3> QED BY <3>1 DEF HubTypeOK, Subscribed
  <2>2. sub' \in [Subscriber -> [device : Device, listening : BOOLEAN] \cup {NoSub}]
    BY <1>3 DEF Subscribe, HubTypeOK
  <2>3. lost' \in SUBSET Subscriber
    BY <1>3, SubscribeQueue DEF Subscribed
  <2> QED BY <1>3, <2>1, <2>2, <2>3 DEF Subscribe, HubTypeOK
<1>4. ASSUME NEW d \in Device, Publish(d) PROVE HubTypeOK'
  <2> DEFINE e == [kind |-> "snapshot", from |-> d, n |-> events + 1]
  <2>1. events' = events + 1 /\ events' \in Nat
    BY <1>4, Counting DEF Publish
  <2>2. e \in Event
    BY <2>1 DEF Event, Snapshot
  <2>3. queue' \in [Subscriber -> Seq(Event)] /\ \A t \in Subscriber : Len(queue'[t]) <= QueueSize
    BY <1>4, <2>2, FanOutQueues DEF Publish
  <2>4. last' \in [Device -> [age : 0 .. ReplayMaxAge + 1, n : Nat]]
    BY <1>4, <2>1 DEF Publish, HubTypeOK
  <2>5. order' \in Seq(Device)
    BY <1>4 DEF Publish, HubTypeOK
  <2>6. lost' \in SUBSET Subscriber
    BY <1>4 DEF Publish, HubTypeOK, Listeners, Live
  <2> QED BY <1>4, <2>1, <2>3, <2>4, <2>5, <2>6 DEF Publish, HubTypeOK
<1>5. ASSUME NEW d \in Device, NEW on \in BOOLEAN, SetListening(d, on) PROVE HubTypeOK'
  <2>1. queue' \in [Subscriber -> Seq(Event)] /\ \A t \in Subscriber : Len(queue'[t]) <= QueueSize
    BY <1>5, SetListeningQueues DEF Toggled
  <2>2. sub' \in [Subscriber -> [device : Device, listening : BOOLEAN] \cup {NoSub}]
    BY <1>5 DEF SetListening, HubTypeOK, Live
  <2>3. lost' \in SUBSET Subscriber
    BY <1>5 DEF SetListening, HubTypeOK, Live
  <2> QED BY <1>5, <2>1, <2>2, <2>3 DEF SetListening, HubTypeOK
<1>6. ASSUME NEW a \in User, PublishPhoto(a) PROVE HubTypeOK'
  <2>1. events' \in Nat
    BY <1>6, Counting DEF PublishPhoto
  <2>2. [kind |-> "photo_status", from |-> a] \in Event
    BY DEF Event, Photo
  <2>3. queue' \in [Subscriber -> Seq(Event)] /\ \A t \in Subscriber : Len(queue'[t]) <= QueueSize
    BY <1>6, <2>2, FanOutQueues DEF PublishPhoto
  <2> QED BY <1>6, <2>1, <2>3 DEF PublishPhoto, HubTypeOK
<1>7. ASSUME NEW a \in User, NEW to \in User \cup {Everybody}, Deliver(a, to) PROVE HubTypeOK'
  <2>1. events' \in Nat
    BY <1>7, Counting DEF Deliver
  <2>2. [kind |-> "msg", from |-> a, to |-> to] \in Event
    BY DEF Event, Message
  <2>3. queue' \in [Subscriber -> Seq(Event)] /\ \A t \in Subscriber : Len(queue'[t]) <= QueueSize
    BY <1>7, <2>2, FanOutQueues DEF Deliver
  <2> QED BY <1>7, <2>1, <2>3 DEF Deliver, HubTypeOK
<1>8. CASE Age
  <2>1. ASSUME NEW d \in Device, last[d].age <= ReplayMaxAge
        PROVE  [last[d] EXCEPT !.age = last[d].age + 1] \in [age : 0 .. ReplayMaxAge + 1, n : Nat]
    <3>1. last[d] \in [age : 0 .. ReplayMaxAge + 1, n : Nat]
      BY DEF HubTypeOK
    <3>2. last[d].age + 1 \in 0 .. ReplayMaxAge + 1
      BY <2>1, <3>1
    <3>3. [last[d] EXCEPT !.age = last[d].age + 1] = [age |-> last[d].age + 1, n |-> last[d].n]
      BY <3>1
    <3> QED BY <3>1, <3>2, <3>3
  <2>2. last' \in [Device -> [age : 0 .. ReplayMaxAge + 1, n : Nat]]
    <3>1. last' = [d \in Device |-> last'[d]]
      BY <1>8 DEF Age
    <3>2. ASSUME NEW d \in Device PROVE last'[d] \in [age : 0 .. ReplayMaxAge + 1, n : Nat]
      <4>1. last[d] \in [age : 0 .. ReplayMaxAge + 1, n : Nat]
        BY DEF HubTypeOK
      <4>2. last'[d] = IF last[d] = Never \/ last[d].age > ReplayMaxAge THEN last[d]
                       ELSE [last[d] EXCEPT !.age = last[d].age + 1]
        BY <1>8 DEF Age
      <4>3. ~(last[d].age > ReplayMaxAge) => last[d].age <= ReplayMaxAge
        BY <4>1
      <4> QED BY <2>1, <4>1, <4>2, <4>3
    <3> QED BY <3>1, <3>2
  <2> QED BY <1>8, <2>2 DEF Age, HubTypeOK
<1>9. CASE UNCHANGED hubVars
  BY <1>9 DEF hubVars, HubTypeOK
<1> QED BY <1>1, <1>2, <1>3, <1>4, <1>5, <1>6, <1>7, <1>8, <1>9 DEF HubNext

-----------------------------------------------------------------------------
(* Order. *)

\* Time and a toggle leave the stamps alone.
LEMMA StampsStay ==
  ASSUME HubTypeOK, Age \/ UNCHANGED last
  PROVE  \A d \in Device : last'[d].n = last[d].n
  BY DEF Age, HubTypeOK

LEMMA StampedInductive == HubTypeOK /\ Stamped /\ [HubNext]_hubVars => Stamped'
<1> SUFFICES ASSUME HubTypeOK, Stamped, [HubNext]_hubVars PROVE Stamped'
  OBVIOUS
<1>1. ASSUME UNCHANGED events, \A d \in Device : last'[d].n = last[d].n PROVE Stamped'
  BY <1>1 DEF Stamped
<1>2. ASSUME NEW d \in Device, Publish(d) PROVE Stamped'
  BY <1>2, Counting DEF Publish, Stamped, HubTypeOK
<1>3. ASSUME CountEvent, UNCHANGED last PROVE Stamped'
  BY <1>3, Counting DEF Stamped, HubTypeOK
<1>4. CASE Age
  BY <1>1, <1>4, StampsStay DEF Age
<1>5. CASE UNCHANGED <<events, last>>
  BY <1>1, <1>5
<1> QED BY <1>2, <1>3, <1>4, <1>5
  DEF HubNext, hubVars, Unsubscribe, Forward, Subscribe, SetListening, PublishPhoto, Deliver

LEMMA OrderedInductive == HubInv /\ [HubNext]_hubVars => Ordered'
<1> SUFFICES ASSUME HubInv, [HubNext]_hubVars PROVE Ordered'
  OBVIOUS
<1> USE DEF HubInv
<1>a. \A s \in Subscriber, d \in Device :
         /\ queue[s] \in Seq(Event) /\ seen[s][d] \in Nat /\ last[d].n \in Nat
         /\ Sorted(queue[s], d, seen[s][d], last[d].n)
  BY DEF HubTypeOK, Ordered
<1>b. \A low, high \in Nat, d \in Device : low <= high => Sorted(<<>>, d, low, high)
  BY DEF Sorted
<1>1. ASSUME NEW s \in Subscriber, Unsubscribe(s) PROVE Ordered'
  <2>1. ASSUME NEW t \in Subscriber, NEW d \in Device
        PROVE  Sorted(queue[t], d, seen[t][d], last[d].n)'
    <3>1. CASE t = s
      <4>1. queue'[t] = <<>> /\ seen'[t][d] = 0 /\ last'[d].n = last[d].n
        BY <1>1, <3>1 DEF Unsubscribe, HubTypeOK
      <4> QED BY <1>a, <1>b, <4>1 DEF Sorted
    <3>2. CASE t # s
      BY <1>1, <1>a, <3>2 DEF Unsubscribe, HubTypeOK
    <3> QED BY <3>1, <3>2
  <2> QED BY <2>1 DEF Ordered
<1>2. ASSUME NEW s \in Subscriber, Forward(s) PROVE Ordered'
  <2>1. ASSUME NEW t \in Subscriber, NEW d \in Device
        PROVE  Sorted(queue[t], d, seen[t][d], last[d].n)'
    <3>1. CASE t = s
      <4>1. queue'[t] = Tail(queue[t]) /\ queue[t] # <<>> /\ UNCHANGED last
        BY <1>2, <3>1 DEF Forward, HubTypeOK
      <4>2. seen'[t][d] = IF Mine(Head(queue[t]), d) THEN Head(queue[t]).n ELSE seen[t][d]
        BY <1>2, <3>1 DEF Forward, HubTypeOK, Mine
      <4> QED BY <1>a, <4>1, <4>2, TailSorted
    <3>2. CASE t # s
      BY <1>2, <1>a, <3>2 DEF Forward, HubTypeOK
    <3> QED BY <3>1, <3>2
  <2> QED BY <2>1 DEF Ordered
<1>3. ASSUME NEW s \in Subscriber, NEW dev \in Device, Subscribe(s, dev) PROVE Ordered'
  <2>1. PICK es \in Seq(Event) : Subscribed(s, dev, es)
    BY <1>3, SubscribeQueue
  <2>2. ASSUME NEW t \in Subscriber, NEW d \in Device
        PROVE  Sorted(queue[t], d, seen[t][d], last[d].n)'
    <3>1. UNCHANGED <<seen, last>>
      BY <1>3 DEF Subscribe
    <3>2. CASE t = s
      <4>1. seen[t][d] <= last[d].n
        BY <1>a DEF Sorted
      <4>2. Sorted(<<>>, d, seen[t][d], last[d].n)
        BY <1>a, <1>b, <4>1
      <4>3. \A i \in DOMAIN es : Mine(es[i], d) => es[i].n = last[d].n
        BY <2>1, Replays DEF Subscribed
      <4>4. last[d].n <= last[d].n /\ <<>> \in Seq(Event)
        BY <1>a
      <4>5. Sorted(Put(<<>>, es), d, seen[t][d], last[d].n)
        BY <1>a, <2>1, <4>2, <4>3, <4>4, PutSorted
      <4>6. queue'[t] = Put(<<>>, es)
        BY <2>1, <3>2 DEF HubTypeOK, Subscribed
      <4> QED BY <3>1, <4>5, <4>6
    <3>3. CASE t # s
      BY <1>a, <2>1, <3>1, <3>3 DEF HubTypeOK, Subscribed
    <3> QED BY <3>2, <3>3
  <2> QED BY <2>2 DEF Ordered
<1>4. ASSUME NEW dev \in Device, Publish(dev) PROVE Ordered'
  <2> DEFINE e == [kind |-> "snapshot", from |-> dev, n |-> events + 1]
  <2>1. events \in Nat /\ events + 1 \in Nat /\ e \in Event
    BY DEF HubTypeOK, Event, Snapshot
  <2>2. /\ <<e>> \in Seq(Event) /\ UNCHANGED seen
        /\ \A s \in Subscriber : queue'[s] = IF s \in Listeners(dev) THEN Put(queue[s], <<e>>) ELSE queue[s]
    BY <1>4, <2>1, FanOutQueues DEF Publish
  <2>3. ASSUME NEW s \in Subscriber, NEW d \in Device
        PROVE  Sorted(queue[s], d, seen[s][d], last[d].n)'
    <3>1. /\ last'[d].n = IF d = dev THEN events + 1 ELSE last[d].n
          /\ last[d].n <= last'[d].n /\ last'[d].n \in Nat
      BY <1>4, <1>a, <2>1 DEF Publish, HubTypeOK, Stamped
    <3>2. \A i \in DOMAIN <<e>> : Mine(<<e>>[i], d) => <<e>>[i].n = last'[d].n
      BY <3>1 DEF Mine
    <3>3. Sorted(Put(queue[s], <<e>>), d, seen[s][d], last'[d].n)
      BY <1>a, <2>2, <3>1, <3>2, PutSorted
    <3>4. Sorted(queue[s], d, seen[s][d], last'[d].n)
      <4>1. \A i \in DOMAIN queue[s] : Mine(queue[s][i], d) => queue[s][i].n \in Nat
        BY <1>a DEF Mine, Event, Snapshot, Message, Photo
      <4> QED BY <1>a, <3>1, <4>1 DEF Sorted
    <3> QED BY <2>2, <3>3, <3>4
  <2> QED BY <2>3 DEF Ordered
<1>5. ASSUME NEW dev \in Device, NEW on \in BOOLEAN, SetListening(dev, on) PROVE Ordered'
  <2>1. PICK es \in Seq(Event) : Toggled(dev, on, es)
    BY <1>5, SetListeningQueues
  <2>2. ASSUME NEW s \in Subscriber, NEW d \in Device
        PROVE  Sorted(queue[s], d, seen[s][d], last[d].n)'
    <3>1. UNCHANGED <<seen, last>> /\ last[d].n <= last[d].n
      BY <1>5, <1>a DEF SetListening
    <3>2. Sorted(Put(queue[s], es), d, seen[s][d], last[d].n)
      BY <1>a, <2>1, <3>1, PutSorted DEF Toggled
    <3> QED BY <1>a, <2>1, <3>1, <3>2 DEF Toggled
  <2> QED BY <2>2 DEF Ordered
<1>6. ASSUME NEW readers, NEW e \in Event, FanOut(readers, e), e.kind # "snapshot", UNCHANGED <<seen, last>>
      PROVE  Ordered'
  <2>1. ASSUME NEW s \in Subscriber, NEW d \in Device
        PROVE  Sorted(queue[s], d, seen[s][d], last[d].n)'
    <3>1. <<e>> \in Seq(Event) /\ last[d].n <= last[d].n
      BY <1>a
    <3>2. \A i \in DOMAIN <<e>> : Mine(<<e>>[i], d) => <<e>>[i].n = last[d].n
      BY <1>6 DEF Mine
    <3>3. Sorted(Put(queue[s], <<e>>), d, seen[s][d], last[d].n)
      BY <1>a, <3>1, <3>2, PutSorted
    <3> QED BY <1>6, <1>a, <3>3, FanOutQueues
  <2> QED BY <2>1 DEF Ordered
<1>7. ASSUME NEW a \in User, PublishPhoto(a) PROVE Ordered'
  <2> DEFINE e == [kind |-> "photo_status", from |-> a]
  <2>1. e \in Event /\ e.kind # "snapshot"
    BY DEF Event, Photo
  <2> QED BY <1>6, <1>7, <2>1 DEF PublishPhoto
<1>8. ASSUME NEW a \in User, NEW to \in User \cup {Everybody}, Deliver(a, to) PROVE Ordered'
  <2> DEFINE e == [kind |-> "msg", from |-> a, to |-> to]
  <2>1. e \in Event /\ e.kind # "snapshot"
    BY DEF Event, Message
  <2> QED BY <1>6, <1>8, <2>1 DEF Deliver
<1>9. CASE Age \/ UNCHANGED hubVars
  <2>1. UNCHANGED <<queue, seen>> /\ \A d \in Device : last'[d].n = last[d].n
    BY <1>9, StampsStay DEF Age, hubVars
  <2> QED BY <1>a, <2>1 DEF Ordered
<1> QED BY <1>1, <1>2, <1>3, <1>4, <1>5, <1>7, <1>8, <1>9 DEF HubNext

-----------------------------------------------------------------------------
(* Nobody is behind. *)

\* Subscriber s is owed the last snapshot of d, and has it or is about to.
Owed(s, d) ==
    /\ s \in Live /\ sub[s].listening /\ s \notin lost /\ d # sub[s].device
    /\ last[d] # Never /\ last[d].age <= ReplayMaxAge
Has(s, d) == seen[s][d] = last[d].n \/ Holds(queue[s], d, last[d].n)

LEMMA Caught == CaughtUp <=> \A s \in Subscriber, d \in Device : Owed(s, d) => Has(s, d)
  BY DEF CaughtUp, Waiting, Owed, Has, Holds, Mine, Live

\* What is in a queue stays there when more is put behind it, and what fits gets in.
LEMMA PutHas ==
  ASSUME NEW q \in Seq(Event), NEW es \in Seq(Event), Len(q) <= QueueSize
  PROVE  \A d, n : Holds(q, d, n) \/ (Fits(q, es) /\ Holds(es, d, n)) => Holds(Put(q, es), d, n)
<1>1. \A i \in DOMAIN q : i \in DOMAIN Put(q, es) /\ Put(q, es)[i] = q[i]
  <2> DEFINE n == IF Len(q \o es) > QueueSize THEN QueueSize ELSE Len(q \o es)
  <2>1. q \o es \in Seq(Event) /\ n \in 0 .. Len(q \o es) /\ Len(q) <= n
    OBVIOUS
  <2>2. \A i \in DOMAIN q : i \in 1 .. n /\ (q \o es)[i] = q[i]
    BY <2>1
  <2>3. DOMAIN SubSeq(q \o es, 1, n) = 1 .. n /\ \A i \in 1 .. n : SubSeq(q \o es, 1, n)[i] = (q \o es)[i]
    BY <2>1
  <2> QED BY <2>2, <2>3 DEF Put, Capped
<1>2. ASSUME Fits(q, es)
      PROVE  \A i \in DOMAIN es : Len(q) + i \in DOMAIN Put(q, es) /\ Put(q, es)[Len(q) + i] = es[i]
  <2>1. Put(q, es) = q \o es
    BY <1>2, PutQueue
  <2> QED BY <2>1
<1> QED BY <1>1, <1>2 DEF Holds

LEMMA CaughtUpInductive == HubInv /\ [HubNext]_hubVars => CaughtUp'
<1> SUFFICES ASSUME HubInv, [HubNext]_hubVars PROVE CaughtUp'
  OBVIOUS
<1> USE DEF HubInv
<1>a. \A s \in Subscriber, d \in Device : Owed(s, d) => Has(s, d)
  BY Caught
<1>b. (\A s \in Subscriber, d \in Device : Owed(s, d)' => Has(s, d)') => CaughtUp'
  BY DEF CaughtUp, Waiting, Owed, Has, Holds, Mine, Live
<1>c. \A s \in Subscriber, d \in Device :
         /\ queue[s] \in Seq(Event) /\ Len(queue[s]) <= QueueSize
         /\ seen[s][d] \in Nat /\ last[d].n \in Nat
         /\ Sorted(queue[s], d, seen[s][d], last[d].n)
  BY DEF HubTypeOK, Ordered
<1>1. ASSUME NEW s \in Subscriber, Unsubscribe(s) PROVE CaughtUp'
  <2>1. ASSUME NEW t \in Subscriber, NEW d \in Device, Owed(t, d)' PROVE Has(t, d)'
    <3>1. t # s
      BY <1>1, <2>1 DEF Unsubscribe, Owed, Live, HubTypeOK
    <3>2. Owed(t, d)
      BY <1>1, <2>1, <3>1 DEF Unsubscribe, Owed, Live, HubTypeOK
    <3> QED BY <1>1, <1>a, <3>1, <3>2 DEF Unsubscribe, Has, HubTypeOK
  <2> QED BY <1>b, <2>1
<1>2. ASSUME NEW s \in Subscriber, Forward(s) PROVE CaughtUp'
  <2>1. ASSUME NEW t \in Subscriber, NEW d \in Device, Owed(t, d)' PROVE Has(t, d)'
    <3>1. Has(t, d) /\ UNCHANGED last
      BY <1>2, <1>a, <2>1 DEF Forward, Owed, Live
    <3>2. CASE t = s
      <4>1. queue'[t] = Tail(queue[t]) /\ queue[t] # <<>>
        BY <1>2, <3>2 DEF Forward, HubTypeOK
      <4>2. seen'[t][d] = IF Mine(Head(queue[t]), d) THEN Head(queue[t]).n ELSE seen[t][d]
        BY <1>2, <3>2 DEF Forward, HubTypeOK, Mine
      <4>3. Head(queue[t]) = queue[t][1]
        BY <1>c, <4>1
      <4>4. CASE seen[t][d] = last[d].n
        <5>1. Mine(Head(queue[t]), d) => Head(queue[t]).n = last[d].n
          <6>1. Mine(Head(queue[t]), d) => /\ Head(queue[t]).n \in Nat
                                           /\ seen[t][d] <= Head(queue[t]).n
                                           /\ Head(queue[t]).n <= last[d].n
            BY <1>c, <4>1, TailSorted
          <6> QED BY <1>c, <4>4, <6>1
        <5> QED BY <3>1, <4>2, <4>4, <5>1 DEF Has
      <4>5. ASSUME NEW i \in DOMAIN queue[t], Mine(queue[t][i], d), queue[t][i].n = last[d].n
            PROVE  Has(t, d)'
        <5>1. CASE i = 1
          BY <3>1, <4>2, <4>3, <4>5, <5>1 DEF Has
        <5>2. CASE i # 1
          <6>1. i - 1 \in DOMAIN Tail(queue[t]) /\ Tail(queue[t])[i - 1] = queue[t][i]
            BY <1>c, <4>1, <5>2
          <6> QED BY <3>1, <4>1, <4>5, <6>1 DEF Has, Holds
        <5> QED BY <5>1, <5>2
      <4> QED BY <3>1, <4>4, <4>5 DEF Has, Holds
    <3>3. CASE t # s
      BY <1>2, <3>1, <3>3 DEF Forward, Has, HubTypeOK
    <3> QED BY <3>2, <3>3
  <2> QED BY <1>b, <2>1
<1>3. ASSUME NEW s \in Subscriber, NEW dev \in Device, Subscribe(s, dev) PROVE CaughtUp'
  <2>1. PICK es \in Seq(Event) : Subscribed(s, dev, es)
    BY <1>3, SubscribeQueue
  <2>2. ASSUME NEW t \in Subscriber, NEW d \in Device, Owed(t, d)' PROVE Has(t, d)'
    <3>1. CASE t = s
      <4>1. UNCHANGED last /\ sub'[t] = [device |-> dev, listening |-> TRUE]
        BY <1>3, <3>1 DEF Subscribe, HubTypeOK
      <4>2. d \in Fresh(dev) /\ Fits(<<>>, es)
        BY <2>1, <2>2, <3>1, <4>1 DEF Owed, Fresh, Subscribed
      <4>3. Holds(es, d, last[d].n)
        BY <2>1, <4>2, Replays DEF Subscribed
      <4>4. <<>> \in Seq(Event) /\ Len(<<>>) <= QueueSize
        OBVIOUS
      <4>5. Holds(Put(<<>>, es), d, last[d].n)
        BY <2>1, <4>2, <4>3, <4>4, PutHas
      <4>6. queue'[t] = Put(<<>>, es)
        BY <2>1, <3>1 DEF HubTypeOK, Subscribed
      <4> QED BY <4>1, <4>5, <4>6 DEF Has
    <3>2. CASE t # s
      <4>1. Owed(t, d)
        BY <1>3, <2>1, <2>2, <3>2 DEF Subscribe, Subscribed, Owed, Live, HubTypeOK
      <4> QED BY <1>3, <1>a, <2>1, <3>2, <4>1 DEF Subscribe, Subscribed, Has, HubTypeOK
    <3> QED BY <3>1, <3>2
  <2> QED BY <1>b, <2>2
<1>4. ASSUME NEW dev \in Device, Publish(dev) PROVE CaughtUp'
  <2> DEFINE e == [kind |-> "snapshot", from |-> dev, n |-> events + 1]
  <2>1. events + 1 \in Nat /\ e \in Event
    BY DEF HubTypeOK, Event, Snapshot
  <2>2. /\ <<e>> \in Seq(Event) /\ UNCHANGED <<seen, sub>>
        /\ \A s \in Subscriber : queue'[s] = IF s \in Listeners(dev) THEN Put(queue[s], <<e>>) ELSE queue[s]
    BY <1>4, <2>1, FanOutQueues DEF Publish
  <2>3. \A s \in Listeners(dev) : s \notin lost' => s \notin lost /\ Fits(queue[s], <<e>>)
    BY <1>4 DEF Publish
  <2>4. ASSUME NEW s \in Subscriber, NEW d \in Device, Owed(s, d)' PROVE Has(s, d)'
    <3>1. s \in Live /\ sub[s].listening /\ s \notin lost /\ d # sub[s].device /\ s \notin lost'
      BY <1>4, <2>2, <2>4 DEF Publish, Owed, Live
    <3>2. CASE d = dev
      <4>1. s \in Listeners(dev) /\ last'[d].n = events + 1
        BY <1>4, <3>1, <3>2 DEF Publish, Listeners, HubTypeOK
      <4>2. Fits(queue[s], <<e>>) /\ Holds(<<e>>, d, events + 1)
        <5>1. 1 \in DOMAIN <<e>> /\ <<e>>[1] = e
          OBVIOUS
        <5> QED BY <2>3, <3>1, <3>2, <4>1, <5>1 DEF Holds, Mine
      <4>3. Holds(Put(queue[s], <<e>>), d, events + 1)
        BY <1>c, <2>2, <4>2, PutHas
      <4> QED BY <2>2, <4>1, <4>3 DEF Has
    <3>3. CASE d # dev
      <4>1. UNCHANGED last[d]
        BY <1>4, <3>3 DEF Publish, HubTypeOK
      <4>2. Has(s, d)
        BY <1>a, <2>4, <3>1, <4>1 DEF Owed
      <4>3. Holds(queue[s], d, last[d].n) => Holds(Put(queue[s], <<e>>), d, last[d].n)
        BY <1>c, <2>2, PutHas
      <4> QED BY <2>2, <4>1, <4>2, <4>3 DEF Has
    <3> QED BY <3>2, <3>3
  <2> QED BY <1>b, <2>4
<1>5. ASSUME NEW dev \in Device, NEW on \in BOOLEAN, SetListening(dev, on) PROVE CaughtUp'
  <2>1. PICK es \in Seq(Event) : Toggled(dev, on, es)
    BY <1>5, SetListeningQueues
  <2>2. /\ UNCHANGED <<seen, last>>
        /\ \A s \in Subscriber : sub'[s] = IF s \in Live /\ sub[s].device = dev
                                            THEN [sub[s] EXCEPT !.listening = on] ELSE sub[s]
    BY <1>5 DEF SetListening
  <2>3. ASSUME NEW s \in Subscriber, NEW d \in Device, Owed(s, d)' PROVE Has(s, d)'
    <3>1. s \notin lost
      BY <2>1, <2>3 DEF Toggled, Owed
    <3>2. CASE s \in Live /\ sub[s].device = dev
      <4>1. sub'[s] = [sub[s] EXCEPT !.listening = on] /\ sub[s] \in [device : Device, listening : BOOLEAN]
        BY <2>2, <3>2 DEF Live, HubTypeOK
      <4>2. on = TRUE /\ d # dev
        BY <2>3, <3>2, <4>1 DEF Owed
      <4>3. es \in Replay(dev) /\ Fits(queue[s], es) /\ queue'[s] = Put(queue[s], es)
        BY <2>1, <2>3, <3>2, <4>2 DEF Toggled, Owed
      <4>4. d \in Fresh(dev)
        BY <2>2, <2>3, <4>2 DEF Owed, Fresh
      <4>5. Holds(es, d, last[d].n)
        BY <4>3, <4>4, Replays
      <4>6. Holds(queue'[s], d, last[d].n)
        BY <1>c, <4>3, <4>5, PutHas
      <4> QED BY <2>2, <4>6 DEF Has
    <3>3. CASE ~(s \in Live /\ sub[s].device = dev)
      <4>1. UNCHANGED <<sub[s], queue[s]>>
        BY <2>1, <2>2, <3>3 DEF Toggled
      <4>2. Owed(s, d)
        BY <2>2, <2>3, <3>1, <4>1 DEF Owed, Live
      <4> QED BY <1>a, <2>2, <4>1, <4>2 DEF Has
    <3> QED BY <3>2, <3>3
  <2> QED BY <1>b, <2>3
<1>6. ASSUME NEW readers, NEW e \in Event, FanOut(readers, e), UNCHANGED <<sub, seen, last, lost>>
      PROVE  CaughtUp'
  <2>1. ASSUME NEW s \in Subscriber, NEW d \in Device, Owed(s, d)' PROVE Has(s, d)'
    <3>1. Has(s, d)
      BY <1>6, <1>a, <2>1 DEF Owed, Live
    <3>2. <<e>> \in Seq(Event) /\ queue'[s] = IF s \in readers THEN Put(queue[s], <<e>>) ELSE queue[s]
      BY <1>6, FanOutQueues
    <3>3. Holds(queue[s], d, last[d].n) => Holds(Put(queue[s], <<e>>), d, last[d].n)
      BY <1>c, <3>2, PutHas
    <3> QED BY <1>6, <3>1, <3>2, <3>3 DEF Has
  <2> QED BY <1>b, <2>1
<1>7. ASSUME NEW a \in User, PublishPhoto(a) PROVE CaughtUp'
  <2> DEFINE e == [kind |-> "photo_status", from |-> a]
  <2>1. e \in Event
    BY DEF Event, Photo
  <2> QED BY <1>6, <1>7, <2>1 DEF PublishPhoto
<1>8. ASSUME NEW a \in User, NEW to \in User \cup {Everybody}, Deliver(a, to) PROVE CaughtUp'
  <2> DEFINE e == [kind |-> "msg", from |-> a, to |-> to]
  <2>1. e \in Event
    BY DEF Event, Message
  <2> QED BY <1>6, <1>8, <2>1 DEF Deliver
<1>9. CASE Age \/ UNCHANGED hubVars
  <2>1. UNCHANGED <<sub, queue, seen, lost>> /\ \A d \in Device : last'[d].n = last[d].n
    BY <1>9, StampsStay DEF Age, hubVars
  <2>2. \A d \in Device : last'[d] # Never /\ last'[d].age <= ReplayMaxAge => last[d] # Never /\ last[d].age <= ReplayMaxAge
    BY <1>9 DEF Age, hubVars, HubTypeOK
  <2> QED BY <1>a, <1>b, <2>1, <2>2 DEF Owed, Has, Live
<1> QED BY <1>1, <1>2, <1>3, <1>4, <1>5, <1>7, <1>8, <1>9 DEF HubNext

-----------------------------------------------------------------------------
LEMMA HubStep == HubInv /\ [HubNext]_hubVars => HubInv'
  BY HubTypeInductive, StampedInductive, OrderedInductive, CaughtUpInductive DEF HubInv

LEMMA HubInvariance == HubSpec => []HubInv
  BY HubInitInv, HubStep, PTL DEF HubSpec

\* Types of the hub's state; no queue holds more than it has places for.
THEOREM HubTypes == HubSpec => []HubTypeOK
<1>1. HubInv => HubTypeOK BY DEF HubInv
<1> QED BY <1>1, HubInvariance, PTL

\* A subscriber gets the snapshots of a device in their order, whatever is replayed
\* behind what still waits, and whatever does not fit.
THEOREM HubInOrder == HubSpec => []InOrder
<1>1. HubInv => InOrder
  BY DEF HubInv, Ordered, Sorted, InOrder, Waiting, Mine, Live
<1> QED BY <1>1, HubInvariance, PTL

\* Who listens and has lost nothing to a full queue is up to date, or about to be.
THEOREM HubCaughtUp == HubSpec => []CaughtUp
<1>1. HubInv => CaughtUp BY DEF HubInv
<1> QED BY <1>1, HubInvariance, PTL

-----------------------------------------------------------------------------
(* The endpoint. *)

\* Connection k and the subscription s in its slot.
Tidy(k, s) ==
    IF k = Free THEN s = NoSub
    ELSE /\ s # NoSub <=> k.fwd \in {"on", "closing"}
         /\ s # NoSub => s.device = k.device
         /\ k.phase \in {"device", "member"} => k.fwd = "new" /\ k.watch = "off" /\ k.job = "none"
         /\ k.fwd \in {"closing", "dead"} => k.phase # "open"
         /\ k.watch # "off" => k.phase \in {"open", "closed"}

\* How long a connection has been without access: its device or its account.
Within(k, n, cut) == cut[k.device] + n <= Recheck /\ cut[AccountOf[k.device]] + n <= Recheck

\* Connection k when cut says how long who has been out, and so many SELECTs have failed.
Timely(k, cut, errors) ==
    k # Free =>
        /\ k.phase = "member" \/ k.watch = "active" => cut[k.device] = 0
        /\ k.phase = "open" /\ k.watch # "off" => Within(k, k.due, cut)
        /\ errors = 0 /\ k.phase = "open" => k.watch # "off"
        /\ errors = 0 /\ k.job # "none" => Within(k, 0, cut)

\* The clocks run only for who is out.
Counted == \A x \in Admitted : cutFor[x] = 0

EndpointInv ==
    /\ EndpointTypeOK
    /\ \A c \in Conn : Tidy(conn[c], sub[c]) /\ Timely(conn[c], cutFor, dbErrors)
    /\ Counted

USE RecheckAssumption, MaxDbErrorsAssumption DEF Conn

-----------------------------------------------------------------------------
(* Connections. *)

LEMMA Fields ==
  ASSUME NEW k \in Connection
  PROVE  /\ k # Free /\ k.device \in Device /\ AccountOf[k.device] \in User
         /\ k.phase \in {"device", "member", "open", "closed", "ended"}
         /\ k.fwd \in {"new", "on", "closing", "dead"}
         /\ k.watch \in {"sleep", "active", "inactive", "off"}
         /\ k.due \in 0 .. Recheck /\ k.paced \in BOOLEAN /\ k.job \in {"none", "snapshot", "msg"}
<1>1. /\ k.device \in Device /\ k.phase \in {"device", "member", "open", "closed", "ended"}
      /\ k.fwd \in {"new", "on", "closing", "dead"}
      /\ k.watch \in {"sleep", "active", "inactive", "off"}
      /\ k.due \in 0 .. Recheck /\ k.paced \in BOOLEAN /\ k.job \in {"none", "snapshot", "msg"}
  BY DEF Connection
<1>2. k # Free
  BY <1>1 DEF Free
<1> QED BY <1>1, <1>2, AccountOfAssumption

\* A connection that is somewhere is one.
LEMMA Somewhere ==
  ASSUME EndpointTypeOK, NEW c \in Conn
  PROVE  /\ conn[c] # Free => conn[c] \in Connection
         /\ Phase(c) \in {"device", "member", "open", "closed", "ended"} => conn[c] # Free
  BY DEF EndpointTypeOK, Phase, Free

LEMMA Cuts ==
  ASSUME EndpointTypeOK, NEW k \in Connection
  PROVE  cutFor[k.device] \in Nat /\ cutFor[AccountOf[k.device]] \in Nat
<1>1. k.device \in User \cup Device /\ AccountOf[k.device] \in User \cup Device
  BY Fields
<1> QED BY <1>1 DEF EndpointTypeOK

-----------------------------------------------------------------------------
(* The hub below. *)

LEMMA HubBelow == EndpointTypeOK /\ [Next]_vars => [HubNext]_hubVars
<1> SUFFICES ASSUME EndpointTypeOK, [Next]_vars PROVE [HubNext]_hubVars
  OBVIOUS
<1>1. ASSUME NEW c \in Conn, Proceed(c) PROVE [HubNext]_hubVars
  <2>1. CASE CheckDevice(c) \/ CheckMember(c) \/ SendFails(c) \/ WatchDevice(c) \/ WatchMember(c) \/ Finally(c)
    BY <2>1 DEF CheckDevice, CheckMember, SendFails, WatchDevice, WatchMember, Finally
  <2>2. CASE StartForward(c)
    <3>1. conn[c].device \in Device
      BY <2>2, Somewhere, Fields DEF StartForward
    <3> QED BY <2>2, <3>1 DEF StartForward, HubNext
  <2>3. CASE Send(c)
    BY <2>3 DEF Send, HubNext
  <2>4. CASE CloseGenerator(c) \/ CancelForward(c)
    BY <2>4 DEF CloseGenerator, CancelForward, HubNext
  <2>5. CASE Ingest(c)
    <3>1. conn[c].device \in Device
      BY <2>5, Somewhere, Fields DEF Ingest
    <3> QED BY <2>5, <3>1 DEF Ingest, HubNext
  <2>6. ASSUME NEW to \in User \cup {Everybody}, SendMessage(c, to) PROVE [HubNext]_hubVars
    <3>1. AccountOf[conn[c].device] \in User
      BY <2>6, Somewhere, Fields DEF SendMessage
    <3> QED BY <2>6, <3>1 DEF SendMessage, HubNext
  <2> QED BY <1>1, <2>1, <2>2, <2>3, <2>4, <2>5, <2>6 DEF Proceed
<1>2. ASSUME NEW c \in Conn, Fails(c) \/ ClientGone(c) PROVE [HubNext]_hubVars
  BY <1>2 DEF Fails, HandshakeFails, WatchFails, JobFails, ClientGone
<1>3. ASSUME NEW c \in Conn, Receives(c) PROVE [HubNext]_hubVars
  <2>1. CASE ReceiveSnapshot(c) \/ ReceiveMessage(c) \/ ReceiveTooLarge(c)
    BY <2>1 DEF ReceiveSnapshot, ReceiveMessage, ReceiveTooLarge
  <2>2. ASSUME NEW on \in BOOLEAN, ReceiveListen(c, on) PROVE [HubNext]_hubVars
    <3>1. conn[c].device \in Device
      BY <2>2, Somewhere, Fields DEF ReceiveListen, Ready
    <3> QED BY <2>2, <3>1 DEF ReceiveListen, HubNext
  <2> QED BY <1>3, <2>1, <2>2 DEF Receives
<1>4. ASSUME NEW c \in Conn, NEW d \in Device, Connect(c, d) PROVE [HubNext]_hubVars
  BY <1>4 DEF Connect
<1>5. CASE CloseAll \/ UNCHANGED vars
  BY <1>5 DEF CloseAll, vars
<1>6. ASSUME NEW a \in User, MemberRemoved(a) \/ MemberAdded(a) \/ PhotoPosted(a) PROVE [HubNext]_hubVars
  BY <1>6 DEF MemberRemoved, MemberAdded, PhotoPosted, HubNext
<1>7. ASSUME NEW d \in Device, DeviceRevoked(d) PROVE [HubNext]_hubVars
  BY <1>7 DEF DeviceRevoked
<1>8. CASE Tick
  BY <1>8 DEF Tick, HubNext
<1> QED BY <1>1, <1>2, <1>3, <1>4, <1>5, <1>6, <1>7, <1>8 DEF Next

-----------------------------------------------------------------------------
(* The invariant. *)

LEMMA EndpointInitInv == Init => EndpointInv
<1> SUFFICES ASSUME Init PROVE EndpointInv
  OBVIOUS
<1>1. HubTypeOK
  BY HubInitInv DEF Init, HubInv
<1>2. EndpointTypeOK
  BY <1>1 DEF Init, EndpointTypeOK
<1>3. \A c \in Conn : Tidy(conn[c], sub[c]) /\ Timely(conn[c], cutFor, dbErrors)
  BY DEF Init, HubInit, Tidy, Timely
<1>4. Counted
  BY DEF Init, Counted, Admitted
<1> QED BY <1>2, <1>3, <1>4 DEF EndpointInv

\* A step that is about one connection.
LEMMA OneConnection ==
  ASSUME EndpointInv, HubTypeOK', NEW c \in Conn, NEW k \in Connection \cup {Free},
         conn' = [conn EXCEPT ![c] = k], UNCHANGED <<member, revoked, cutFor>>,
         dbErrors' = dbErrors \/ DbError,
         \A b \in Conn : b # c => /\ sub'[b] = NoSub <=> sub[b] = NoSub
                                  /\ sub[b] # NoSub => sub'[b].device = sub[b].device,
         Tidy(k, sub'[c]), Timely(k, cutFor', dbErrors')
  PROVE  EndpointInv'
<1>1. dbErrors' \in 0 .. MaxDbErrors /\ (dbErrors' = 0 => dbErrors = 0)
  BY DEF EndpointInv, EndpointTypeOK, DbError
<1>2. EndpointTypeOK'
  BY <1>1 DEF EndpointInv, EndpointTypeOK
<1>3. ASSUME NEW b \in Conn PROVE Tidy(conn'[b], sub'[b]) /\ Timely(conn'[b], cutFor', dbErrors')
  <2>1. CASE b = c
    BY <2>1 DEF EndpointInv, EndpointTypeOK
  <2>2. CASE b # c
    <3>1. conn'[b] = conn[b] /\ Tidy(conn[b], sub[b]) /\ Timely(conn[b], cutFor, dbErrors)
      BY <2>2 DEF EndpointInv, EndpointTypeOK
    <3>2. Tidy(conn[b], sub'[b])
      <4>1. /\ sub'[b] = NoSub <=> sub[b] = NoSub
            /\ sub[b] # NoSub => sub'[b].device = sub[b].device
        BY <2>2
      <4> QED BY <3>1, <4>1 DEF Tidy
    <3>3. Timely(conn'[b], cutFor', dbErrors')
      BY <1>1, <3>1 DEF Timely, Within
    <3> QED BY <3>1, <3>2, <3>3
  <2> QED BY <2>1, <2>2
<1>4. Counted'
  BY DEF EndpointInv, Counted, Admitted
<1> QED BY <1>2, <1>3, <1>4 DEF EndpointInv

\* What the hub's steps do to the subscriptions.
LEMMA Subscriptions ==
  ASSUME HubTypeOK, NEW s \in Subscriber
  PROVE  /\ \A d \in Device : Subscribe(s, d) => /\ sub[s] = NoSub
                                                /\ sub'[s] # NoSub /\ sub'[s].device = d
                                                /\ \A t \in Subscriber : t # s => sub'[t] = sub[t]
         /\ Unsubscribe(s) => /\ sub'[s] = NoSub
                              /\ \A t \in Subscriber : t # s => sub'[t] = sub[t]
         /\ \A d \in Device, on \in BOOLEAN : SetListening(d, on) =>
               /\ sub'[s] = NoSub <=> sub[s] = NoSub
               /\ sub[s] # NoSub => sub'[s].device = sub[s].device
<1>1. ASSUME NEW d \in Device, Subscribe(s, d)
      PROVE  /\ sub[s] = NoSub
             /\ sub'[s] # NoSub /\ sub'[s].device = d
             /\ \A t \in Subscriber : t # s => sub'[t] = sub[t]
  <2>1. sub[s] = NoSub /\ sub' = [sub EXCEPT ![s] = [device |-> d, listening |-> TRUE]]
    BY <1>1 DEF Subscribe
  <2> QED BY <2>1 DEF HubTypeOK, NoSub
<1>2. ASSUME Unsubscribe(s)
      PROVE  sub'[s] = NoSub /\ \A t \in Subscriber : t # s => sub'[t] = sub[t]
  BY <1>2 DEF Unsubscribe, HubTypeOK
<1>3. ASSUME NEW d \in Device, NEW on \in BOOLEAN, SetListening(d, on)
      PROVE  /\ sub'[s] = NoSub <=> sub[s] = NoSub
             /\ sub[s] # NoSub => sub'[s].device = sub[s].device
  <2>1. sub'[s] = IF s \in Live /\ sub[s].device = d THEN [sub[s] EXCEPT !.listening = on] ELSE sub[s]
    BY <1>3 DEF SetListening
  <2>2. s \in Live => sub[s] \in [device : Device, listening : BOOLEAN]
    BY DEF Live, HubTypeOK
  <2>3. \A r \in [device : Device, listening : BOOLEAN] : r # NoSub
    BY DEF NoSub
  <2>4. s \in Live => /\ [sub[s] EXCEPT !.listening = on] \in [device : Device, listening : BOOLEAN]
                      /\ [sub[s] EXCEPT !.listening = on].device = sub[s].device
    BY <2>2
  <2> QED BY <2>1, <2>3, <2>4 DEF Live
<1> QED BY <1>1, <1>2, <1>3

\* What does not open a connection, start a check or take a frame leaves it timely.
LEMMA StillTimely ==
  ASSUME EndpointTypeOK, NEW k \in Connection, NEW j \in Connection, Timely(k, cutFor, dbErrors),
         UNCHANGED cutFor, dbErrors' = dbErrors \/ DbError,
         j.device = k.device, j.due = k.due, j.job \in {k.job, "none"},
         j.phase = k.phase \/ j.phase \in {"closed", "ended"},
         j.watch = k.watch \/ (j.watch = "off" /\ (j.phase # "open" \/ DbError))
  PROVE  Timely(j, cutFor', dbErrors')
<1>1. (dbErrors' = 0 => dbErrors = 0) /\ (DbError => dbErrors' # 0)
  BY DEF EndpointTypeOK, DbError
<1>2. j.phase = "member" => k.phase = "member"
  OBVIOUS
<1>3. j.phase = "open" => k.phase = "open"
  OBVIOUS
<1> QED BY <1>1, <1>2, <1>3, Fields DEF Timely, Within

LEMMA EndpointStep == EndpointInv /\ [Next]_vars => EndpointInv'
<1> SUFFICES ASSUME EndpointInv, [Next]_vars PROVE EndpointInv'
  OBVIOUS
<1>a. EndpointTypeOK /\ HubTypeOK /\ HubTypeOK'
  BY HubBelow, HubTypeInductive DEF EndpointInv, EndpointTypeOK
<1>b. \A c \in Conn : Tidy(conn[c], sub[c]) /\ Timely(conn[c], cutFor, dbErrors)
  BY DEF EndpointInv
<1>c. \A c \in Conn : Phase(c) \in {"device", "member", "open", "closed", "ended"} \/ conn[c] # Free
                        => conn[c] \in Connection /\ conn[c] # Free
  BY <1>a, Somewhere
<1>d. Free \in Connection \cup {Free} /\ Tidy(Free, NoSub) /\ Timely(Free, cutFor', dbErrors')
  BY DEF Tidy, Timely
\* The handshake.
<1>1. ASSUME NEW c \in Conn, NEW d \in Device, Connect(c, d) PROVE EndpointInv'
  <2> DEFINE k == [device |-> d, phase |-> "device", fwd |-> "new", watch |-> "off", due |-> 0,
                   paced |-> FALSE, job |-> "none"]
  <2>1. k \in Connection /\ k # Free
    BY DEF Connection, Free
  <2>2. conn[c] = Free /\ sub[c] = NoSub /\ UNCHANGED <<sub, cutFor, member, revoked, dbErrors>>
    BY <1>1, <1>b DEF Connect, Become, hubVars, Tidy
  <2>3. Tidy(k, sub'[c]) /\ Timely(k, cutFor', dbErrors')
    BY <2>1, <2>2 DEF Tidy, Timely
  <2> QED BY <1>1, <1>a, <2>1, <2>2, <2>3, OneConnection DEF Connect, Become
<1>2. ASSUME NEW c \in Conn, Phase(c) \in {"device", "member"}, conn' = [conn EXCEPT ![c] = Free],
             dbErrors' = dbErrors \/ DbError, UNCHANGED <<hubVars, member, revoked, cutFor>>
      PROVE  EndpointInv'
  <2>1. sub'[c] = NoSub /\ UNCHANGED sub
    BY <1>2, <1>b, <1>c DEF Tidy, Phase, hubVars
  <2> QED BY <1>2, <1>a, <1>d, <2>1, OneConnection
<1>3. ASSUME NEW c \in Conn, CheckDevice(c) PROVE EndpointInv'
  <2>1. CASE conn[c].device \in revoked
    BY <1>2, <1>3, <2>1 DEF CheckDevice, Become
  <2>2. CASE conn[c].device \notin revoked
    <3> DEFINE k == [conn[c] EXCEPT !.phase = "member"]
    <3>1. conn[c] \in Connection /\ conn[c].phase = "device" /\ Tidy(conn[c], sub[c]) /\ Timely(conn[c], cutFor, dbErrors)
      BY <1>3, <1>b, <1>c DEF CheckDevice, Phase
    <3>2. k \in Connection
      BY <3>1 DEF Connection
    <3>3. cutFor[conn[c].device] = 0
      BY <2>2, <3>1, Fields DEF EndpointInv, Counted, Admitted
    <3>4. UNCHANGED <<sub, cutFor, member, revoked, dbErrors>> /\ conn' = [conn EXCEPT ![c] = k]
      BY <1>3, <2>2 DEF CheckDevice, Become, hubVars
    <3>5. Tidy(k, sub'[c]) /\ Timely(k, cutFor', dbErrors')
      BY <3>1, <3>2, <3>3, <3>4, Fields DEF Tidy, Timely
    <3> QED BY <1>a, <3>2, <3>4, <3>5, OneConnection
  <2> QED BY <2>1, <2>2
<1>4. ASSUME NEW c \in Conn, CheckMember(c) PROVE EndpointInv'
  <2>1. CASE AccountOf[conn[c].device] \notin member
    BY <1>2, <1>4, <2>1 DEF CheckMember, Become
  <2>2. CASE AccountOf[conn[c].device] \in member
    <3> DEFINE k == [conn[c] EXCEPT !.phase = "open", !.watch = "sleep", !.due = Recheck]
    <3>1. conn[c] \in Connection /\ conn[c].phase = "member" /\ Tidy(conn[c], sub[c]) /\ Timely(conn[c], cutFor, dbErrors)
      BY <1>4, <1>b, <1>c DEF CheckMember, Phase
    <3>2. /\ k \in Connection /\ k.device = conn[c].device /\ k.fwd = conn[c].fwd /\ k.job = conn[c].job
          /\ k.phase = "open" /\ k.watch = "sleep" /\ k.due = Recheck
      <4>1. Recheck \in 0 .. Recheck
        OBVIOUS
      <4> QED BY <3>1, <4>1 DEF Connection
    <3>3. cutFor[conn[c].device] = 0 /\ cutFor[AccountOf[conn[c].device]] = 0
      BY <2>2, <3>1, Fields DEF EndpointInv, Counted, Admitted, Timely
    <3>4. UNCHANGED <<sub, cutFor, member, revoked, dbErrors>> /\ conn' = [conn EXCEPT ![c] = k]
      BY <1>4, <2>2 DEF CheckMember, Become, hubVars
    <3>5. Tidy(k, sub'[c]) /\ Timely(k, cutFor', dbErrors')
      BY <3>1, <3>2, <3>3, <3>4, Fields DEF Tidy, Timely, Within
    <3> QED BY <1>a, <3>2, <3>4, <3>5, OneConnection
  <2> QED BY <2>1, <2>2
<1>5. ASSUME NEW c \in Conn, HandshakeFails(c) PROVE EndpointInv'
  BY <1>2, <1>5 DEF HandshakeFails
\* Steps of the tasks of a connection, by what becomes of it.
<1>6. ASSUME NEW c \in Conn, conn[c] # Free, NEW k \in Connection, conn' = [conn EXCEPT ![c] = k],
             UNCHANGED <<member, revoked, cutFor>>, dbErrors' = dbErrors \/ DbError,
             \A b \in Conn : b # c => sub'[b] = sub[b],
             k.device = conn[c].device, k.due = conn[c].due, k.job \in {conn[c].job, "none"},
             k.phase = conn[c].phase \/ k.phase \in {"closed", "ended"},
             k.watch = conn[c].watch \/ (k.watch = "off" /\ (k.phase # "open" \/ DbError)),
             Tidy(k, sub'[c])
      PROVE  EndpointInv'
  <2>1. conn[c] \in Connection /\ Timely(conn[c], cutFor, dbErrors)
    BY <1>6, <1>b, <1>c
  <2>2. Timely(k, cutFor', dbErrors')
    BY <1>6, <1>a, <2>1, StillTimely
  <2> QED BY <1>6, <1>a, <2>2, OneConnection
<1>7. ASSUME NEW c \in Conn, StartForward(c) PROVE EndpointInv'
  <2> DEFINE k == [conn[c] EXCEPT !.fwd = "on"]
  <2>1. conn[c] \in Connection /\ conn[c] # Free /\ Tidy(conn[c], sub[c])
    BY <1>7, <1>b, <1>c DEF StartForward
  <2>2. /\ k \in Connection /\ k.fwd = "on" /\ k.device = conn[c].device /\ k.phase = conn[c].phase
        /\ k.watch = conn[c].watch /\ k.due = conn[c].due /\ k.job = conn[c].job
    BY <2>1 DEF Connection
  <2>3. UNCHANGED <<cutFor, member, revoked, dbErrors>> /\ conn' = [conn EXCEPT ![c] = k]
    BY <1>7 DEF StartForward, Become
  <2>4. /\ sub'[c] # NoSub /\ sub'[c].device = conn[c].device
        /\ \A b \in Conn : b # c => sub'[b] = sub[b]
    BY <1>7, <1>a, <2>1, Subscriptions, Fields DEF StartForward
  <2>5. conn[c].phase \in {"open", "closed"}
    BY <1>7 DEF StartForward, Phase
  <2>6. Tidy(k, sub'[c])
    BY <2>1, <2>2, <2>4, <2>5, Fields DEF Tidy
  <2> HIDE DEF k
  <2> QED BY <1>6, <2>1, <2>2, <2>3, <2>4, <2>6
<1>8. ASSUME NEW c \in Conn, Send(c) PROVE EndpointInv'
  <2>1. UNCHANGED <<sub, endpointVars>>
    BY <1>8 DEF Send, Forward
  <2> QED BY <1>a, <2>1 DEF endpointVars, EndpointInv, EndpointTypeOK, Timely, Within, Counted, Admitted
<1>9. ASSUME NEW c \in Conn, SendFails(c) PROVE EndpointInv'
  <2> DEFINE k == [conn[c] EXCEPT !.fwd = "closing"]
  <2>1. conn[c] \in Connection /\ conn[c] # Free /\ Tidy(conn[c], sub[c])
    BY <1>9, <1>b, <1>c DEF SendFails
  <2>2. /\ k \in Connection /\ k.fwd = "closing" /\ k.device = conn[c].device /\ k.phase = conn[c].phase
        /\ k.watch = conn[c].watch /\ k.due = conn[c].due /\ k.job = conn[c].job
    BY <2>1 DEF Connection
  <2>3. UNCHANGED <<sub, cutFor, member, revoked, dbErrors>> /\ conn' = [conn EXCEPT ![c] = k]
    BY <1>9 DEF SendFails, Become, hubVars
  <2>4. conn[c].phase = "closed" /\ conn[c].fwd = "on"
    BY <1>9 DEF SendFails, Phase
  <2>5. Tidy(k, sub'[c])
    BY <2>1, <2>2, <2>3, <2>4, Fields DEF Tidy
  <2> HIDE DEF k
  <2> QED BY <1>6, <2>1, <2>2, <2>3, <2>5
\* The end of a connection whose receive loop is over.
<1>10. ASSUME NEW c \in Conn, conn' = [conn EXCEPT ![c] = Free], sub'[c] = NoSub,
              \A b \in Conn : b # c => sub'[b] = sub[b], UNCHANGED <<member, revoked, cutFor, dbErrors>>
       PROVE  EndpointInv'
  BY <1>10, <1>a, <1>d, OneConnection
<1>11. ASSUME NEW c \in Conn, CloseGenerator(c) PROVE EndpointInv'
  <2> DEFINE k == [conn[c] EXCEPT !.fwd = "dead"]
  <2>1. /\ conn[c] \in Connection /\ conn[c] # Free /\ Tidy(conn[c], sub[c]) /\ conn[c].fwd = "closing"
        /\ UNCHANGED <<cutFor, member, revoked, dbErrors>> /\ conn' = [conn EXCEPT ![c] = Done(conn[c])]
    BY <1>11, <1>b, <1>c DEF CloseGenerator, Become
  <2>2. sub'[c] = NoSub /\ \A b \in Conn : b # c => sub'[b] = sub[b]
    BY <1>11, <1>a, Subscriptions DEF CloseGenerator
  <2>3. /\ k \in Connection /\ k.fwd = "dead" /\ k.device = conn[c].device /\ k.phase = conn[c].phase
        /\ k.watch = conn[c].watch /\ k.due = conn[c].due /\ k.job = conn[c].job
    BY <2>1 DEF Connection
  <2>4. CASE conn[c].phase = "ended"
    BY <1>10, <2>1, <2>2, <2>4 DEF Done
  <2>5. CASE conn[c].phase # "ended"
    <3>1. conn' = [conn EXCEPT ![c] = k]
      BY <2>1, <2>5 DEF Done
    <3>2. Tidy(k, sub'[c])
      BY <2>1, <2>2, <2>3, Fields DEF Tidy
    <3> HIDE DEF k
    <3> QED BY <1>6, <2>1, <2>2, <2>3, <3>1, <3>2
  <2> QED BY <2>4, <2>5
<1>12. ASSUME NEW c \in Conn, CancelForward(c) PROVE EndpointInv'
  <2>1. /\ conn[c] \in Connection /\ conn[c] # Free /\ Tidy(conn[c], sub[c]) /\ conn[c].phase = "ended"
        /\ UNCHANGED <<cutFor, member, revoked, dbErrors>>
    BY <1>12, <1>b, <1>c DEF CancelForward, Become, Phase
  <2>2. CASE conn[c].fwd \in {"new", "dead"} /\ Become(c, Free) /\ UNCHANGED hubVars
    <3>1. sub[c] = NoSub /\ UNCHANGED sub /\ conn' = [conn EXCEPT ![c] = Free]
      BY <2>1, <2>2 DEF Tidy, hubVars, Become
    <3> QED BY <1>10, <2>1, <3>1
  <2>3. CASE conn[c].fwd = "on" /\ Become(c, Free) /\ Unsubscribe(c)
    <3>1. sub'[c] = NoSub /\ (\A b \in Conn : b # c => sub'[b] = sub[b]) /\ conn' = [conn EXCEPT ![c] = Free]
      BY <1>a, <2>3, Subscriptions DEF Become
    <3> QED BY <1>10, <2>1, <3>1
  <2>4. CASE conn[c].fwd = "on" /\ Become(c, [conn[c] EXCEPT !.fwd = "closing"]) /\ UNCHANGED hubVars
    <3> DEFINE k == [conn[c] EXCEPT !.fwd = "closing"]
    <3>1. /\ k \in Connection /\ k.fwd = "closing" /\ k.device = conn[c].device /\ k.phase = conn[c].phase
          /\ k.watch = conn[c].watch /\ k.due = conn[c].due /\ k.job = conn[c].job
      BY <2>1 DEF Connection
    <3>2. UNCHANGED sub /\ conn' = [conn EXCEPT ![c] = k]
      BY <2>4 DEF Become, hubVars
    <3>3. Tidy(k, sub'[c])
      BY <2>1, <2>4, <3>1, <3>2, Fields DEF Tidy
    <3> HIDE DEF k
    <3> QED BY <1>6, <2>1, <3>1, <3>2, <3>3
  <2> QED BY <1>12, <2>2, <2>3, <2>4 DEF CancelForward
\* The watcher.
<1>13. ASSUME NEW c \in Conn, WatchDevice(c) PROVE EndpointInv'
  <2> DEFINE verdict == IF conn[c].device \in revoked THEN "inactive" ELSE "active"
             k == [conn[c] EXCEPT !.watch = verdict]
  <2>1. /\ conn[c] \in Connection /\ conn[c] # Free /\ Tidy(conn[c], sub[c]) /\ Timely(conn[c], cutFor, dbErrors)
        /\ conn[c].phase \in {"open", "closed"} /\ conn[c].watch = "sleep"
    BY <1>13, <1>b, <1>c DEF WatchDevice, Watching, Due, Phase
  <2>2. /\ k \in Connection /\ k.fwd = conn[c].fwd /\ k.device = conn[c].device /\ k.phase = conn[c].phase
        /\ k.watch = verdict /\ k.due = conn[c].due /\ k.job = conn[c].job
    BY <2>1 DEF Connection
  <2>3. UNCHANGED <<sub, cutFor, member, revoked, dbErrors>> /\ conn' = [conn EXCEPT ![c] = k]
    BY <1>13 DEF WatchDevice, Become, hubVars
  <2>4. verdict = "active" => cutFor[conn[c].device] = 0
    BY <2>1, Fields DEF EndpointInv, Counted, Admitted
  <2>5. verdict # "off"
    OBVIOUS
  <2>6. Tidy(k, sub'[c]) /\ Timely(k, cutFor', dbErrors')
    <3> HIDE DEF k, verdict
    <3> QED BY <2>1, <2>2, <2>3, <2>4, <2>5, Fields DEF Tidy, Timely, Within
  <2> HIDE DEF k, verdict
  <2> QED BY <1>a, <2>2, <2>3, <2>6, OneConnection
<1>14. ASSUME NEW c \in Conn, WatchMember(c) PROVE EndpointInv'
  <2>1. /\ conn[c] \in Connection /\ conn[c] # Free /\ Tidy(conn[c], sub[c]) /\ Timely(conn[c], cutFor, dbErrors)
        /\ conn[c].phase \in {"open", "closed"}
        /\ UNCHANGED <<sub, cutFor, member, revoked, dbErrors>>
    BY <1>14, <1>b, <1>c DEF WatchMember, Watching, Phase, Become, hubVars
  <2>2. CASE conn[c].watch = "active" /\ AccountOf[conn[c].device] \in member
    <3> DEFINE k == [conn[c] EXCEPT !.watch = "sleep", !.due = Recheck]
    <3>1. /\ k \in Connection /\ k.fwd = conn[c].fwd /\ k.device = conn[c].device /\ k.phase = conn[c].phase
          /\ k.watch = "sleep" /\ k.due = Recheck /\ k.job = conn[c].job
      <4>1. Recheck \in 0 .. Recheck
        OBVIOUS
      <4> QED BY <2>1, <4>1 DEF Connection
    <3>2. cutFor[conn[c].device] = 0 /\ cutFor[AccountOf[conn[c].device]] = 0
      BY <2>1, <2>2 DEF EndpointInv, Counted, Admitted, Timely
    <3>3. conn' = [conn EXCEPT ![c] = k]
      BY <1>14, <2>2 DEF WatchMember, Become
    <3>4. Tidy(k, sub'[c]) /\ Timely(k, cutFor', dbErrors')
      <4> HIDE DEF k
      <4> QED BY <2>1, <2>2, <3>1, <3>2, Fields DEF Tidy, Timely, Within
    <3> HIDE DEF k
    <3> QED BY <1>a, <2>1, <3>1, <3>3, <3>4, OneConnection
  <2>3. CASE ~(conn[c].watch = "active" /\ AccountOf[conn[c].device] \in member)
    <3> DEFINE k == [conn[c] EXCEPT !.watch = "off", !.phase = "closed"]
    <3>1. /\ k \in Connection /\ k.fwd = conn[c].fwd /\ k.device = conn[c].device /\ k.phase = "closed"
          /\ k.watch = "off" /\ k.due = conn[c].due /\ k.job = conn[c].job
      BY <2>1 DEF Connection
    <3>2. conn' = [conn EXCEPT ![c] = k]
      BY <1>14, <2>3 DEF WatchMember, Become
    <3>3. Tidy(k, sub'[c])
      BY <2>1, <3>1, Fields DEF Tidy
    <3> HIDE DEF k
    <3> QED BY <1>6, <2>1, <3>1, <3>2, <3>3
  <2> QED BY <2>2, <2>3
<1>15. ASSUME NEW c \in Conn, WatchFails(c) PROVE EndpointInv'
  <2> DEFINE k == [conn[c] EXCEPT !.watch = "off"]
  <2>1. conn[c] \in Connection /\ conn[c] # Free /\ Tidy(conn[c], sub[c])
    BY <1>15, <1>b, <1>c DEF WatchFails, Watching
  <2>2. /\ k \in Connection /\ k.fwd = conn[c].fwd /\ k.device = conn[c].device /\ k.phase = conn[c].phase
        /\ k.watch = "off" /\ k.due = conn[c].due /\ k.job = conn[c].job
    BY <2>1 DEF Connection
  <2>3. UNCHANGED <<sub, cutFor, member, revoked>> /\ DbError /\ conn' = [conn EXCEPT ![c] = k]
    BY <1>15, <1>a DEF WatchFails, hubVars, EndpointTypeOK
  <2>4. Tidy(k, sub'[c])
    BY <2>1, <2>2, <2>3, Fields DEF Tidy
  <2> HIDE DEF k
  <2> QED BY <1>6, <2>1, <2>2, <2>3, <2>4
\* The receive loop.
<1>16. ASSUME NEW c \in Conn, Ready(c), NEW paced \in BOOLEAN, NEW job \in {"snapshot", "msg"},
              Become(c, [conn[c] EXCEPT !.paced = paced, !.job = job]), UNCHANGED hubVars
       PROVE  EndpointInv'
  <2> DEFINE k == [conn[c] EXCEPT !.paced = paced, !.job = job]
  <2>1. /\ conn[c] \in Connection /\ conn[c] # Free /\ Tidy(conn[c], sub[c]) /\ Timely(conn[c], cutFor, dbErrors)
        /\ conn[c].phase = "open"
    BY <1>16, <1>b, <1>c DEF Ready, Phase
  <2>2. /\ k \in Connection /\ k.fwd = conn[c].fwd /\ k.device = conn[c].device /\ k.phase = conn[c].phase
        /\ k.watch = conn[c].watch /\ k.due = conn[c].due
    BY <2>1 DEF Connection
  <2>3. UNCHANGED <<sub, cutFor, member, revoked, dbErrors>> /\ conn' = [conn EXCEPT ![c] = k]
    BY <1>16 DEF Become, hubVars
  <2>4. dbErrors = 0 => Within(conn[c], 0, cutFor)
    BY <1>a, <2>1, Fields, Cuts DEF Timely, Within
  <2>5. Tidy(k, sub'[c]) /\ Timely(k, cutFor', dbErrors')
    <3> HIDE DEF k
    <3> QED BY <2>1, <2>2, <2>3, <2>4, Fields DEF Tidy, Timely, Within
  <2> HIDE DEF k
  <2> QED BY <1>a, <2>2, <2>3, <2>5, OneConnection
<1>17. ASSUME NEW c \in Conn, ReceiveSnapshot(c) \/ ReceiveMessage(c) PROVE EndpointInv'
  <2>1. CASE ReceiveSnapshot(c)
    BY <1>16, <2>1 DEF ReceiveSnapshot
  <2>2. CASE ReceiveMessage(c)
    <3>1. conn[c] \in Connection
      BY <1>c, <2>2 DEF ReceiveMessage, Ready, Phase
    <3>2. conn[c].paced \in BOOLEAN /\ [conn[c] EXCEPT !.job = "msg"] = [conn[c] EXCEPT !.paced = conn[c].paced, !.job = "msg"]
      BY <3>1 DEF Connection
    <3> QED BY <1>16, <2>2, <3>2 DEF ReceiveMessage
  <2> QED BY <1>17, <2>1, <2>2
<1>18. ASSUME NEW c \in Conn, NEW on \in BOOLEAN, ReceiveListen(c, on) PROVE EndpointInv'
  <2>1. conn[c] \in Connection /\ conn[c].device \in Device
    BY <1>18, <1>c, Fields DEF ReceiveListen, Ready, Phase
  <2>2. \A b \in Conn : /\ sub'[b] = NoSub <=> sub[b] = NoSub
                        /\ sub[b] # NoSub => sub'[b].device = sub[b].device
    BY <1>18, <1>a, <2>1, Subscriptions DEF ReceiveListen
  <2>3. UNCHANGED endpointVars
    BY <1>18 DEF ReceiveListen
  <2>4. conn' = [conn EXCEPT ![c] = conn[c]]
    BY <2>3, <1>a DEF endpointVars, EndpointTypeOK
  <2>5. Tidy(conn[c], sub'[c]) /\ Timely(conn[c], cutFor', dbErrors')
    <3>1. Tidy(conn[c], sub[c]) /\ Timely(conn[c], cutFor, dbErrors) /\ UNCHANGED <<cutFor, dbErrors>>
      BY <1>b, <2>3 DEF endpointVars
    <3>2. /\ sub'[c] = NoSub <=> sub[c] = NoSub
          /\ sub[c] # NoSub => sub'[c].device = sub[c].device
      BY <2>2
    <3>3. Tidy(conn[c], sub'[c])
      BY <3>1, <3>2 DEF Tidy
    <3> QED BY <3>1, <3>3
  <2>6. UNCHANGED <<member, revoked, cutFor, dbErrors>>
    BY <2>3 DEF endpointVars
  <2> QED BY <1>a, <2>1, <2>2, <2>4, <2>5, <2>6, OneConnection
\* finally.
<1>19. ASSUME NEW c \in Conn, conn[c] \in Connection, conn[c].phase \in {"open", "closed", "ended"},
              conn' = [conn EXCEPT ![c] = Ended(conn[c])],
              UNCHANGED <<hubVars, member, revoked, cutFor>>, dbErrors' = dbErrors \/ DbError
       PROVE  EndpointInv'
  <2> DEFINE k == Ended(conn[c])
  <2>1. conn[c] # Free /\ Tidy(conn[c], sub[c]) /\ UNCHANGED sub
    BY <1>19, <1>b, Fields DEF hubVars
  <2>2. /\ k \in Connection /\ k.fwd = conn[c].fwd /\ k.device = conn[c].device /\ k.phase = "ended"
        /\ k.watch = "off" /\ k.due = conn[c].due /\ k.job = "none"
    BY <1>19 DEF Connection, Ended
  <2>3. Tidy(k, sub'[c])
    <3> HIDE DEF k
    <3> QED BY <2>1, <2>2, Fields DEF Tidy
  <2> HIDE DEF k
  <2>4. conn' = [conn EXCEPT ![c] = k]
    BY <1>19 DEF k
  <2> QED BY <1>6, <1>19, <2>1, <2>2, <2>3, <2>4
<1>20. ASSUME NEW c \in Conn, ReceiveTooLarge(c) \/ Finally(c) PROVE EndpointInv'
  BY <1>19, <1>20, <1>c DEF ReceiveTooLarge, Finally, Ready, Phase, Become
<1>21. ASSUME NEW c \in Conn, JobFails(c) PROVE EndpointInv'
  <2>1. conn[c] \in Connection /\ conn[c].phase \in {"open", "closed", "ended"}
    BY <1>21, <1>b, <1>c, Fields DEF JobFails, Tidy
  <2>2. conn' = [conn EXCEPT ![c] = Ended(conn[c])]
    BY <1>21 DEF JobFails
  <2> QED BY <1>19, <1>21, <2>1, <2>2 DEF JobFails
<1>22. ASSUME NEW c \in Conn, conn[c] # Free, Become(c, [conn[c] EXCEPT !.job = "none"]), UNCHANGED sub
       PROVE  EndpointInv'
  <2> DEFINE k == [conn[c] EXCEPT !.job = "none"]
  <2>1. conn[c] \in Connection /\ Tidy(conn[c], sub[c])
    BY <1>22, <1>b, <1>c
  <2>2. /\ k \in Connection /\ k.fwd = conn[c].fwd /\ k.device = conn[c].device /\ k.phase = conn[c].phase
        /\ k.watch = conn[c].watch /\ k.due = conn[c].due /\ k.job = "none"
    BY <2>1 DEF Connection
  <2>3. UNCHANGED <<cutFor, member, revoked, dbErrors>> /\ conn' = [conn EXCEPT ![c] = k]
    BY <1>22 DEF Become
  <2>4. Tidy(k, sub'[c])
    <3> HIDE DEF k
    <3> QED BY <1>22, <2>1, <2>2, Fields DEF Tidy
  <2> HIDE DEF k
  <2> QED BY <1>6, <1>22, <2>2, <2>3, <2>4
<1>23. ASSUME NEW c \in Conn, Ingest(c) PROVE EndpointInv'
  BY <1>22, <1>23 DEF Ingest, Publish
<1>24. ASSUME NEW c \in Conn, NEW to \in User \cup {Everybody}, SendMessage(c, to) PROVE EndpointInv'
  BY <1>22, <1>24 DEF SendMessage, Deliver
\* The world around.
<1>25. ASSUME NEW c \in Conn, ClientGone(c) PROVE EndpointInv'
  <2> DEFINE k == [conn[c] EXCEPT !.phase = "closed"]
  <2>1. /\ conn[c] \in Connection /\ conn[c] # Free /\ Tidy(conn[c], sub[c]) /\ conn[c].phase = "open"
    BY <1>25, <1>b, <1>c DEF ClientGone, Phase
  <2>2. /\ k \in Connection /\ k.fwd = conn[c].fwd /\ k.device = conn[c].device /\ k.phase = "closed"
        /\ k.watch = conn[c].watch /\ k.due = conn[c].due /\ k.job = conn[c].job
    BY <2>1 DEF Connection
  <2>3. UNCHANGED <<sub, cutFor, member, revoked, dbErrors>> /\ conn' = [conn EXCEPT ![c] = k]
    BY <1>25 DEF ClientGone, Become, hubVars
  <2>4. Tidy(k, sub'[c])
    <3> HIDE DEF k
    <3> QED BY <2>1, <2>2, <2>3, Fields DEF Tidy
  <2> HIDE DEF k
  <2> QED BY <1>6, <2>1, <2>2, <2>3, <2>4
<1>26. CASE CloseAll
  <2>1. ASSUME NEW c \in Conn
        PROVE  /\ conn'[c] \in Connection \cup {Free}
               /\ Tidy(conn'[c], sub'[c]) /\ Timely(conn'[c], cutFor', dbErrors')
    <3>1. UNCHANGED <<sub, cutFor, dbErrors>> /\ Tidy(conn[c], sub[c]) /\ Timely(conn[c], cutFor, dbErrors)
      BY <1>26, <1>b DEF CloseAll, hubVars
    <3>2. CASE Phase(c) # "open"
      <4>1. conn'[c] = conn[c]
        BY <1>26, <3>2 DEF CloseAll
      <4> QED BY <1>a, <3>1, <4>1 DEF EndpointTypeOK
    <3>3. CASE Phase(c) = "open"
      <4> DEFINE k == [conn[c] EXCEPT !.phase = "closed"]
      <4>1. conn[c] \in Connection /\ conn[c] # Free /\ conn[c].phase = "open" /\ conn'[c] = k
        BY <1>26, <1>c, <3>3 DEF CloseAll, Phase
      <4>2. /\ k \in Connection /\ k.fwd = conn[c].fwd /\ k.device = conn[c].device /\ k.phase = "closed"
            /\ k.watch = conn[c].watch /\ k.due = conn[c].due /\ k.job = conn[c].job
        BY <4>1 DEF Connection
      <4>3. Tidy(k, sub'[c]) /\ Timely(k, cutFor', dbErrors')
        <5> HIDE DEF k
        <5> QED BY <1>a, <3>1, <4>1, <4>2, StillTimely, Fields DEF Tidy
      <4> QED BY <4>1, <4>2, <4>3
    <3> QED BY <3>2, <3>3
  <2>2. EndpointTypeOK'
    <3>1. conn' \in [Conn -> Connection \cup {Free}]
      BY <1>26, <2>1 DEF CloseAll
    <3> QED BY <1>26, <1>a, <3>1 DEF CloseAll, EndpointTypeOK
  <2>3. Counted'
    BY <1>26 DEF CloseAll, EndpointInv, Counted, Admitted
  <2> QED BY <2>1, <2>2, <2>3 DEF EndpointInv
<1>27. ASSUME NEW a \in User, MemberRemoved(a) PROVE EndpointInv'
  <2>1. UNCHANGED <<sub, conn, cutFor, dbErrors, revoked>> /\ member' \subseteq member
    BY <1>27 DEF MemberRemoved, hubVars
  <2>2. EndpointTypeOK' /\ Counted'
    BY <1>a, <2>1 DEF EndpointInv, EndpointTypeOK, Counted, Admitted
  <2> QED BY <1>b, <2>1, <2>2 DEF EndpointInv
<1>28. ASSUME NEW a \in User, MemberAdded(a) PROVE EndpointInv'
  <2>1. /\ UNCHANGED <<sub, conn, dbErrors, revoked>>
        /\ member' = member \cup {a} /\ cutFor' = [cutFor EXCEPT ![a] = 0]
    BY <1>28 DEF MemberAdded, hubVars
  <2>2. EndpointTypeOK' /\ Counted'
    BY <1>a, <2>1 DEF EndpointInv, EndpointTypeOK, Counted, Admitted
  <2>3. \A x \in User \cup Device : cutFor'[x] \in Nat /\ cutFor[x] \in Nat /\ cutFor'[x] <= cutFor[x]
    BY <1>a, <2>1 DEF EndpointTypeOK
  <2>4. ASSUME NEW c \in Conn PROVE Timely(conn[c], cutFor', dbErrors')
    <3>1. SUFFICES ASSUME conn[c] # Free PROVE Timely(conn[c], cutFor', dbErrors')
      BY DEF Timely
    <3>2. conn[c] \in Connection
      BY <1>c, <3>1
    <3>3. conn[c].device \in User \cup Device /\ AccountOf[conn[c].device] \in User \cup Device
      BY <3>2, Fields
    <3>4. \A n \in Nat : Within(conn[c], n, cutFor) => Within(conn[c], n, cutFor')
      BY <2>3, <3>3 DEF Within
    <3>5. conn[c].due \in Nat
      BY <3>2, Fields
    <3>6. cutFor[conn[c].device] = 0 => cutFor'[conn[c].device] = 0
      BY <2>3, <3>3
    <3> QED BY <1>b, <2>1, <3>4, <3>5, <3>6 DEF Timely
  <2> QED BY <1>b, <2>1, <2>2, <2>4 DEF EndpointInv
<1>29. ASSUME NEW d \in Device, DeviceRevoked(d) PROVE EndpointInv'
  <2>1. UNCHANGED <<sub, conn, cutFor, dbErrors, member>> /\ revoked' = revoked \cup {d}
    BY <1>29 DEF DeviceRevoked, hubVars
  <2>2. EndpointTypeOK' /\ Counted'
    BY <1>a, <2>1 DEF EndpointInv, EndpointTypeOK, Counted, Admitted
  <2> QED BY <1>b, <2>1, <2>2 DEF EndpointInv
<1>30. ASSUME NEW a \in User, PhotoPosted(a) PROVE EndpointInv'
  <2>1. UNCHANGED <<sub, conn, cutFor, dbErrors, member, revoked>>
    BY <1>30 DEF PhotoPosted, PublishPhoto, endpointVars
  <2> QED BY <1>a, <1>b, <2>1 DEF EndpointInv, EndpointTypeOK, Counted, Admitted
<1>31. CASE UNCHANGED vars
  <2>1. UNCHANGED <<sub, conn, cutFor, dbErrors, member, revoked>>
    BY <1>31 DEF vars, hubVars, endpointVars
  <2> QED BY <1>a, <1>b, <2>1 DEF EndpointInv, EndpointTypeOK, Counted, Admitted
<1>32. CASE Tick
  <2>1. UNCHANGED <<sub, dbErrors, member, revoked>>
    BY <1>32 DEF Tick, Age
  <2>2. cutFor' \in [User \cup Device -> 0 .. Recheck + 1]
    <3>1. \A x \in User \cup Device : cutFor[x] \in 0 .. Recheck + 1
      BY <1>a DEF EndpointTypeOK
    <3>2. \A x \in User \cup Device : ~(cutFor[x] > Recheck) => cutFor[x] + 1 \in 0 .. Recheck + 1
      BY <3>1
    <3> QED BY <1>32, <3>1, <3>2 DEF Tick
  <2>3. \A x \in User \cup Device : cutFor'[x] \in {cutFor[x], cutFor[x] + 1} /\ (x \in Admitted => cutFor'[x] = cutFor[x])
    BY <1>32 DEF Tick
  <2>4. Admitted \subseteq User \cup Device
    BY <1>a DEF Admitted, EndpointTypeOK
  <2>5. Counted'
    BY <2>1, <2>3, <2>4 DEF EndpointInv, Counted, Admitted
  <2>6. ASSUME NEW c \in Conn
        PROVE  /\ conn'[c] \in Connection \cup {Free}
               /\ Tidy(conn'[c], sub'[c]) /\ Timely(conn'[c], cutFor', dbErrors')
    <3>1. Tidy(conn[c], sub[c]) /\ Timely(conn[c], cutFor, dbErrors)
      BY <1>b
    <3>2. CASE conn[c] = Free
      BY <1>32, <2>1, <3>1, <3>2 DEF Tick, Timely
    <3>3. CASE conn[c] # Free
      <4> DEFINE due == IF conn[c].watch = "sleep" THEN conn[c].due - 1 ELSE conn[c].due
                 k == [conn[c] EXCEPT !.paced = FALSE, !.due = due]
      <4>1. conn[c] \in Connection /\ conn'[c] = k
        BY <1>32, <1>c, <3>3 DEF Tick
      <4>2. /\ conn[c].phase \notin {"device", "member"} /\ conn[c].job = "none"
            /\ ~Watching(c)
        BY <1>32, <3>3 DEF Tick, Prompt, Phase
      <4>3. conn[c].phase = "open" \/ conn[c].watch # "off" => conn[c].watch \in {"sleep", "off"} /\ (conn[c].watch = "sleep" => conn[c].due # 0)
        BY <3>1, <3>3, <4>1, <4>2, Fields DEF Watching, Due, Phase, Tidy
      <4>4. due \in 0 .. Recheck /\ (conn[c].watch = "sleep" => due + 1 = conn[c].due)
        BY <4>1, <4>3, Fields
      <4> HIDE DEF due
      <4>5. /\ k \in Connection /\ k.fwd = conn[c].fwd /\ k.device = conn[c].device /\ k.phase = conn[c].phase
            /\ k.watch = conn[c].watch /\ k.due = due /\ k.job = conn[c].job
        BY <4>1, <4>4 DEF Connection
      <4> HIDE DEF k
      <4>6. Tidy(k, sub'[c])
        BY <2>1, <3>1, <3>3, <4>5, Fields DEF Tidy
      <4>7. k.watch # "off" /\ k.phase = "open" => Within(k, k.due, cutFor')
        <5>1. k.device \in User \cup Device /\ AccountOf[k.device] \in User \cup Device
          BY <4>5, Fields
        <5>2. SUFFICES ASSUME k.watch # "off", k.phase = "open" PROVE Within(k, k.due, cutFor')
          OBVIOUS
        <5>3. Within(conn[c], conn[c].due, cutFor) /\ conn[c].due = due + 1
          BY <3>1, <3>3, <4>3, <4>4, <4>5, <5>2 DEF Timely
        <5>4. \A x \in User \cup Device : cutFor[x] \in Nat /\ cutFor'[x] <= cutFor[x] + 1
          BY <1>a, <2>3 DEF EndpointTypeOK
        <5>5. due \in Nat
          BY <4>4
        <5>6. \A x \in User \cup Device : cutFor'[x] \in Nat
          BY <2>2
        <5> QED BY <4>5, <5>1, <5>3, <5>4, <5>5, <5>6 DEF Within
      <4>8. Timely(k, cutFor', dbErrors')
        BY <2>1, <3>1, <3>3, <4>2, <4>3, <4>5, <4>7 DEF Timely
      <4> QED BY <4>1, <4>5, <4>6, <4>8
    <3> QED BY <3>2, <3>3
  <2>7. EndpointTypeOK'
    <3>1. conn' \in [Conn -> Connection \cup {Free}]
      BY <1>32, <2>6 DEF Tick
    <3> QED BY <1>a, <2>1, <2>2, <3>1 DEF EndpointTypeOK
  <2> QED BY <2>5, <2>6, <2>7 DEF EndpointInv
<1> QED
  BY <1>1, <1>3, <1>4, <1>5, <1>7, <1>8, <1>9, <1>11, <1>12, <1>13, <1>14, <1>15, <1>17, <1>18,
     <1>20, <1>21, <1>23, <1>24, <1>25, <1>26, <1>27, <1>28, <1>29, <1>30, <1>31, <1>32
  DEF Next, Proceed, Fails, Receives

LEMMA EndpointInvariance == Spec => []EndpointInv
  BY EndpointInitInv, EndpointStep, PTL DEF Spec

-----------------------------------------------------------------------------
\* Types of the endpoint: what a connection's tasks can be at.
THEOREM EndpointTypes == Spec => []EndpointTypeOK
<1>1. EndpointInv => EndpointTypeOK BY DEF EndpointInv
<1> QED BY <1>1, EndpointInvariance, PTL

\* The endpoint uses the hub as the hub is meant to be used: whatever its tasks do,
\* the hub sees calls of its methods only, in some order.
THEOREM EndpointImplementsHub == Spec => HubSpec
<1>1. Init => HubInit BY DEF Init
<1>2. EndpointInv => EndpointTypeOK BY DEF EndpointInv
<1> QED BY <1>1, <1>2, HubBelow, EndpointInvariance, PTL DEF Spec, HubSpec

\* The hub holds exactly the subscriptions of connections that are not over.
THEOREM EndpointNoOrphanSubscriber == Spec => []NoOrphanSubscriber
<1>1. EndpointInv => NoOrphanSubscriber
  <2> SUFFICES ASSUME EndpointInv, NEW c \in Conn
      PROVE  /\ sub[c] # NoSub => /\ Phase(c) \in {"open", "closed", "ended"}
                                  /\ sub[c].device = conn[c].device
                                  /\ conn[c].fwd \in {"on", "closing"}
             /\ Phase(c) = "open" /\ conn[c].fwd # "new" => sub[c] # NoSub
    BY DEF NoOrphanSubscriber
  <2>1. Tidy(conn[c], sub[c]) /\ (conn[c] # Free => conn[c] \in Connection)
    BY Somewhere DEF EndpointInv
  <2>2. Phase(c) = "open" => conn[c] # Free
    BY DEF Phase, Free
  <2> QED BY <2>1, <2>2, Fields DEF Tidy, Phase
<1> QED BY <1>1, EndpointInvariance, PTL

\* Losing access is felt within AUTHZ_RECHECK.
THEOREM EndpointCutWithinRecheck == Spec => []CutWithinRecheck
<1>1. EndpointInv => CutWithinRecheck
  <2> SUFFICES ASSUME EndpointInv, NEW c \in Conn, Phase(c) = "open", conn[c].watch # "off"
      PROVE  cutFor[conn[c].device] <= Recheck /\ cutFor[AccountOf[conn[c].device]] <= Recheck
    BY DEF CutWithinRecheck
  <2>1. EndpointTypeOK /\ conn[c] # Free /\ conn[c] \in Connection
    BY Somewhere DEF EndpointInv
  <2>2. Within(conn[c], conn[c].due, cutFor)
    BY <2>1 DEF EndpointInv, Timely, Phase
  <2> QED BY <2>1, <2>2, Fields, Cuts DEF Within
<1> QED BY <1>1, EndpointInvariance, PTL

\* Nor does who has been cut speak, as long as no SELECT has failed.
THEOREM EndpointSilentWhenCut == Spec => SilentWhenCut
<1>1. EndpointInv /\ [Next]_vars =>
        [\A d \in Device : last'[d].n > last[d].n /\ dbErrors = 0 =>
             cutFor[d] <= Recheck /\ cutFor[AccountOf[d]] <= Recheck]_vars
  <2> SUFFICES ASSUME EndpointInv, [Next]_vars, NEW d \in Device, last'[d].n > last[d].n, dbErrors = 0
               PROVE  cutFor[d] <= Recheck /\ cutFor[AccountOf[d]] <= Recheck
    OBVIOUS
  <2>1. EndpointTypeOK /\ HubTypeOK
    BY DEF EndpointInv, EndpointTypeOK
  <2>2. last[d].n \in Nat
    BY <2>1 DEF HubTypeOK
  <2>3. PICK c \in Conn : Ingest(c) /\ conn[c].device = d
    <3>1. [HubNext]_hubVars /\ ~(UNCHANGED last) /\ ~Age
      BY <2>1, <2>2, HubBelow, StampsStay
    <3>2. \A c \in Conn, e \in Device : Publish(e) => e = d
      BY <2>1, <2>2 DEF Publish, HubTypeOK
    <3>3. ASSUME NEW c \in Conn, Ingest(c) PROVE conn[c].device = d
      <4>1. conn[c].device \in Device
        BY <2>1, <3>3, Somewhere, Fields DEF Ingest
      <4> QED BY <3>2, <3>3, <4>1 DEF Ingest
    <3>4. \E c \in Conn : Ingest(c)
      <4>1. ASSUME NEW c \in Conn, Proceed(c) PROVE Ingest(c)
        BY <3>1, <4>1 DEF hubVars, Proceed, CheckDevice, CheckMember, StartForward, Subscribe, Send,
              Forward, SendFails, CloseGenerator, Unsubscribe, WatchDevice, WatchMember, SendMessage,
              Deliver, Finally, CancelForward
      <4>2. ASSUME NEW c \in Conn, Fails(c) \/ Receives(c) \/ ClientGone(c) PROVE FALSE
        BY <3>1, <4>2 DEF hubVars, Fails, Receives, HandshakeFails, WatchFails, JobFails, ReceiveSnapshot,
              ReceiveMessage, ReceiveListen, SetListening, ReceiveTooLarge, ClientGone
      <4>3. ASSUME NEW c \in Conn, NEW e \in Device, Connect(c, e) PROVE FALSE
        BY <3>1, <4>3 DEF hubVars, Connect
      <4>4. ~ CloseAll
        BY <3>1 DEF hubVars, CloseAll
      <4>5. ASSUME NEW a \in User, MemberRemoved(a) \/ MemberAdded(a) \/ PhotoPosted(a) PROVE FALSE
        BY <3>1, <4>5 DEF hubVars, MemberRemoved, MemberAdded, PhotoPosted, PublishPhoto
      <4>6. ASSUME NEW e \in Device, DeviceRevoked(e) PROVE FALSE
        BY <3>1, <4>6 DEF hubVars, DeviceRevoked
      <4>7. ~ Tick
        BY <3>1 DEF Tick
      <4>8. ~ UNCHANGED vars
        BY <3>1 DEF vars, hubVars
      <4> QED BY <4>1, <4>2, <4>3, <4>4, <4>5, <4>6, <4>7, <4>8 DEF Next
    <3> QED BY <3>3, <3>4
  <2>4. conn[c] # Free /\ conn[c].job = "snapshot"
    BY <2>3 DEF Ingest
  <2>5. Within(conn[c], 0, cutFor) /\ conn[c] \in Connection
    BY <2>1, <2>4, Somewhere DEF EndpointInv, Timely
  <2> QED BY <2>1, <2>3, <2>5, Cuts DEF Within
<1> QED BY <1>1, EndpointInvariance, PTL DEF Spec, SilentWhenCut
=============================================================================
