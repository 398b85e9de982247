-------------------------------- MODULE Hub --------------------------------
(***************************************************************************)
(* The fan-out of one room of the server (RealtimeHub, server/src/app/     *)
(* modules/realtime/infrastructure/hub.py).  Rooms share nothing, so one   *)
(* room is modelled.                                                       *)
(*                                                                         *)
(* None of the hub's methods awaits between reading and writing its state, *)
(* so each is one atomic step of the event loop.  What is concurrent is    *)
(* around it: connections subscribe, are cancelled and drain their queues  *)
(* at any time between two calls.                                          *)
(***************************************************************************)
EXTENDS Integers, Sequences

CONSTANTS Device,       \* the devices that publish to the room
          User,         \* the accounts of the room
          AccountOf,    \* the account each device is linked to
          Subscriber,   \* slots for the subscriptions
          QueueSize,    \* maxsize of a subscriber's queue (128)
          ReplayMaxAge, \* REPLAY_MAX_AGE, in ticks
          MaxEvents     \* bound on what is published and sent in a run

ASSUME AccountOfAssumption == AccountOf \in [Device -> User]
ASSUME QueueSizeAssumption == QueueSize \in Nat \ {0}
ASSUME ReplayMaxAgeAssumption == ReplayMaxAge \in Nat
ASSUME MaxEventsAssumption == MaxEvents \in Nat

VARIABLES sub,    \* room.subscribers: by slot, the device and whether it listens
          queue,  \* the queue of each subscriber
          last,   \* room.last_snapshot: by device, the snapshot and its age
          order,  \* the order of the keys of room.last_snapshot
          events, \* history: how many events there have been; stamps the snapshots
          seen,   \* history: by subscriber and device, the last snapshot sent on
          lost    \* history: the subscribers a full queue has cost a snapshot

hubVars == <<sub, queue, last, order, events, seen, lost>>

NoSub == [device |-> "none"]
Everybody == "everybody"
Never == [age |-> 0, n |-> 0]

Snapshot == [kind : {"snapshot"}, from : Device, n : Nat]
Message == [kind : {"msg"}, from : User, to : User \cup {Everybody}]
Photo == [kind : {"photo_status"}, from : User]
Event == Snapshot \cup Message \cup Photo

HubTypeOK ==
    /\ sub \in [Subscriber -> [device : Device, listening : BOOLEAN] \cup {NoSub}]
    /\ queue \in [Subscriber -> Seq(Event)]
    /\ \A s \in Subscriber : Len(queue[s]) <= QueueSize
    /\ last \in [Device -> [age : 0 .. ReplayMaxAge + 1, n : Nat]]
    /\ order \in Seq(Device)
    /\ events \in Nat
    /\ seen \in [Subscriber -> [Device -> Nat]]
    /\ lost \in SUBSET Subscriber

HubInit ==
    /\ sub = [s \in Subscriber |-> NoSub]
    /\ queue = [s \in Subscriber |-> <<>>]
    /\ last = [d \in Device |-> Never]
    /\ order = <<>>
    /\ events = 0
    /\ seen = [s \in Subscriber |-> [d \in Device |-> 0]]
    /\ lost = {}

-----------------------------------------------------------------------------
Live == {s \in Subscriber : sub[s] # NoSub}

Capped(q) == SubSeq(q, 1, IF Len(q) > QueueSize THEN QueueSize ELSE Len(q))

\* Mutant: what is newer jumps the queue.
PutFirst(q, es) == Capped(es \o q)

\* put_nowait of the events one after the other: what does not fit is dropped.
Put(q, es) == Capped(q \o es)

Fits(q, es) == Len(q \o es) <= QueueSize

\* The devices a replay to this one is about: every other one with a snapshot,
\* unless that is older than REPLAY_MAX_AGE.
Fresh(device) == {d \in Device \ {device} : last[d] # Never /\ last[d].age <= ReplayMaxAge}

\* Device d is before e in the dictionary.
Before(d, e) == \E i, j \in DOMAIN order : i < j /\ order[i] = d /\ order[j] = e

Snapshots(keys) == [i \in DOMAIN keys |-> [kind |-> "snapshot", from |-> keys[i], n |-> last[keys[i]].n]]

\* _replay_snapshots: the last snapshots of these devices in the order of the
\* dictionary, as the one element of a set.
Replay(device) ==
    {Snapshots(keys) : keys \in
        {ks \in UNION {[1 .. n -> Fresh(device)] : n \in 0 .. Len(order)} :
            /\ \A d \in Fresh(device) : \E i \in DOMAIN ks : ks[i] = d
            /\ \A i, j \in DOMAIN ks : i < j => Before(ks[i], ks[j])}}

\* subscribe, up to the first get: an empty queue, the replay, the list.
Subscribe(s, d) ==
    /\ sub[s] = NoSub
    /\ sub' = [sub EXCEPT ![s] = [device |-> d, listening |-> TRUE]]
    /\ \E es \in Replay(d) :
          /\ queue' = [queue EXCEPT ![s] = Put(<<>>, es)]
          /\ lost' = IF Fits(<<>>, es) THEN lost ELSE lost \cup {s}
    /\ UNCHANGED <<last, order, events, seen>>

\* The generator is closed: _remove_subscriber, and the queue goes with it.
Unsubscribe(s) ==
    /\ sub[s] # NoSub
    /\ sub' = [sub EXCEPT ![s] = NoSub]
    /\ queue' = [queue EXCEPT ![s] = <<>>]
    /\ seen' = [seen EXCEPT ![s] = [d \in Device |-> 0]]
    /\ lost' = lost \ {s}
    /\ UNCHANGED <<last, order, events>>

\* The subscriber's task takes the head of the queue and sends it.
Forward(s) ==
    /\ queue[s] # <<>>
    /\ queue' = [queue EXCEPT ![s] = Tail(@)]
    /\ seen' = IF Head(queue[s]).kind = "snapshot"
               THEN [seen EXCEPT ![s][Head(queue[s]).from] = Head(queue[s]).n]
               ELSE seen
    /\ UNCHANGED <<sub, last, order, events, lost>>

\* Mutant: turning the feed on again does not catch up.
SetListeningNoReplay(d, on) ==
    /\ sub' = [s \in Subscriber |->
                 IF s \in Live /\ sub[s].device = d THEN [sub[s] EXCEPT !.listening = on] ELSE sub[s]]
    /\ UNCHANGED <<queue, last, order, events, seen, lost>>

\* set_listening: every subscriber of the device is switched, and catches up
\* when it is switched on.
SetListening(d, on) ==
    LET own == {s \in Live : sub[s].device = d} IN
    /\ sub' = [s \in Subscriber |-> IF s \in own THEN [sub[s] EXCEPT !.listening = on] ELSE sub[s]]
    /\ \E es \in IF on THEN Replay(d) ELSE {<<>>} :
          /\ queue' = [s \in Subscriber |-> IF s \in own THEN Put(queue[s], es) ELSE queue[s]]
          /\ lost' = lost \cup {s \in own : ~Fits(queue[s], es)}
    /\ UNCHANGED <<last, order, events, seen>>

\* An event for some of the subscribers.
FanOut(readers, e) ==
    queue' = [s \in Subscriber |-> IF s \in readers THEN Put(queue[s], <<e>>) ELSE queue[s]]

\* Bound: so many events in a run.
CountEvent ==
    /\ events < MaxEvents
    /\ events' = events + 1

\* Whom a snapshot of device d goes to.
Listeners(d) == {s \in Live : sub[s].device # d /\ sub[s].listening}

\* publish: remember the snapshot, then hand it to the other devices that listen.
Publish(d) ==
    LET e == [kind |-> "snapshot", from |-> d, n |-> events + 1] IN
    /\ CountEvent
    /\ last' = [last EXCEPT ![d] = [age |-> 0, n |-> events + 1]]
    /\ order' = IF last[d] = Never THEN Append(order, d) ELSE order
    /\ FanOut(Listeners(d), e)
    /\ lost' = lost \cup {s \in Listeners(d) : ~Fits(queue[s], <<e>>)}
    /\ UNCHANGED <<sub, seen>>

\* publish_photo: to everybody, the sender and those who do not listen included.
PublishPhoto(a) ==
    /\ CountEvent
    /\ FanOut(Live, [kind |-> "photo_status", from |-> a])
    /\ UNCHANGED <<sub, last, order, seen, lost>>

\* Whom a message goes to: the room, or the two accounts of a conversation.
Readers(a, to) == {s \in Live : to # Everybody => AccountOf[sub[s].device] \in {a, to}}

\* deliver.
Deliver(a, to) ==
    /\ CountEvent
    /\ FanOut(Readers(a, to), [kind |-> "msg", from |-> a, to |-> to])
    /\ UNCHANGED <<sub, last, order, seen, lost>>

\* Time passes.  All that is too old for the replay is of the same age.
Age ==
    /\ last' = [d \in Device |->
                  IF last[d] = Never \/ last[d].age > ReplayMaxAge THEN last[d]
                  ELSE [last[d] EXCEPT !.age = @ + 1]]
    /\ UNCHANGED <<sub, queue, order, events, seen, lost>>

HubNext ==
    \/ \E s \in Subscriber : Unsubscribe(s) \/ Forward(s) \/ \E d \in Device : Subscribe(s, d)
    \/ \E d \in Device : Publish(d) \/ \E on \in BOOLEAN : SetListening(d, on)
    \/ \E a \in User : PublishPhoto(a) \/ \E to \in User \cup {Everybody} : Deliver(a, to)
    \/ Age

HubSpec == HubInit /\ [][HubNext]_hubVars
=============================================================================
