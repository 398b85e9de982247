------------------------------ MODULE Endpoint ------------------------------
(***************************************************************************)
(* The websocket endpoint of the server (server/src/app/modules/realtime/  *)
(* presentation/ws.py) on top of the hub: what a connection goes through   *)
(* from the handshake to the last of its tasks, against a membership and a *)
(* list of devices that change at any time.                                *)
(*                                                                         *)
(* A connection is three tasks of one event loop: the receive loop (phase, *)
(* job), the forwarding task (fwd) and the watcher (watch).  Between two   *)
(* awaits nothing else runs, so each stretch is one action.                *)
(*                                                                         *)
(* Time is counted in ticks of at least MIN_MESSAGE_INTERVAL, and a tick   *)
(* waits for the timers that are due and for the SELECTs under way: the    *)
(* event loop is not late and the database answers within a tick.          *)
(***************************************************************************)
EXTENDS Hub, FiniteSets

CONSTANTS Recheck,     \* AUTHZ_RECHECK, in ticks
          MaxDbErrors  \* bound on the SELECTs that fail

ASSUME RecheckAssumption == Recheck \in Nat \ {0}
ASSUME MaxDbErrorsAssumption == MaxDbErrors \in Nat

VARIABLES member,   \* the accounts with a row in room_members for this room
          revoked,  \* the devices marked revoked
          conn,     \* the connections; a connection subscribes in its own slot
          dbErrors, \* how many SELECTs have failed
          cutFor    \* history: for how many ticks each account has been out, each device revoked

endpointVars == <<member, revoked, conn, dbErrors, cutFor>>
vars == <<hubVars, endpointVars>>

Conn == Subscriber

\* A connection.  phase: what the receive loop is at; fwd and watch: the tasks;
\* due: ticks until the watcher wakes; paced: a snapshot came less than
\* MIN_MESSAGE_INTERVAL ago; job: the frame that is being handled.
Free == [phase |-> "free"]
Connection == [device : Device,
               phase : {"device", "member", "open", "closed", "ended"},
               fwd : {"new", "on", "closing", "dead"},
               watch : {"sleep", "active", "inactive", "off"},
               due : 0 .. Recheck,
               paced : BOOLEAN,
               job : {"none", "snapshot", "msg"}]

EndpointTypeOK ==
    /\ HubTypeOK
    /\ member \in SUBSET User
    /\ revoked \in SUBSET Device
    /\ conn \in [Conn -> Connection \cup {Free}]
    /\ dbErrors \in 0 .. MaxDbErrors
    /\ cutFor \in [User \cup Device -> 0 .. Recheck + 1]

Init ==
    /\ HubInit
    /\ member = User
    /\ revoked = {}
    /\ conn = [c \in Conn |-> Free]
    /\ dbErrors = 0
    /\ cutFor = [x \in User \cup Device |-> 0]

Phase(c) == conn[c].phase
Admitted == member \cup (Device \ revoked)

\* Connection c in state k; the rest of the endpoint is left alone.
Become(c, k) ==
    /\ conn' = [conn EXCEPT ![c] = k]
    /\ UNCHANGED <<member, revoked, dbErrors, cutFor>>

DbError ==
    /\ dbErrors < MaxDbErrors
    /\ dbErrors' = dbErrors + 1

-----------------------------------------------------------------------------
\* The handshake: the token, then the device, then the membership.

Connect(c, d) ==
    /\ conn[c] = Free
    /\ Become(c, [device |-> d, phase |-> "device", fwd |-> "new", watch |-> "off", due |-> 0,
                  paced |-> FALSE, job |-> "none"])
    /\ UNCHANGED hubVars

CheckDevice(c) ==
    /\ Phase(c) = "device"
    /\ Become(c, IF conn[c].device \in revoked THEN Free ELSE [conn[c] EXCEPT !.phase = "member"])
    /\ UNCHANGED hubVars

\* is_member, then accept; the two tasks are created, and none of them has run.
CheckMember(c) ==
    /\ Phase(c) = "member"
    /\ Become(c, IF AccountOf[conn[c].device] \notin member THEN Free
                 ELSE [conn[c] EXCEPT !.phase = "open", !.watch = "sleep", !.due = Recheck])
    /\ UNCHANGED hubVars

\* A check raises before the connection is accepted.
HandshakeFails(c) ==
    /\ Phase(c) \in {"device", "member"}
    /\ DbError
    /\ conn' = [conn EXCEPT ![c] = Free]
    /\ UNCHANGED <<hubVars, member, revoked, cutFor>>

-----------------------------------------------------------------------------
\* forward_to_client

StartForward(c) ==
    /\ Phase(c) \in {"open", "closed"}
    /\ conn[c].fwd = "new"
    /\ Subscribe(c, conn[c].device)
    /\ Become(c, [conn[c] EXCEPT !.fwd = "on"])

Send(c) ==
    /\ Phase(c) = "open" /\ conn[c].fwd = "on"
    /\ Forward(c)
    /\ UNCHANGED endpointVars

\* The socket is gone: send_text raises and the task ends.  Its generator is
\* suspended at the yield, and is closed by a task of its own.
SendFails(c) ==
    /\ Phase(c) = "closed" /\ conn[c].fwd = "on"
    /\ queue[c] # <<>>
    /\ Become(c, [conn[c] EXCEPT !.fwd = "closing"])
    /\ UNCHANGED hubVars

\* The connection once its forwarding is over: nothing is left of it if the
\* receive loop has ended too.
Done(k) == IF k.phase = "ended" THEN Free ELSE [k EXCEPT !.fwd = "dead"]

CloseGenerator(c) ==
    /\ conn[c] # Free /\ conn[c].fwd = "closing"
    /\ Unsubscribe(c)
    /\ Become(c, Done(conn[c]))

-----------------------------------------------------------------------------
\* watch_authz: two SELECTs after every sleep, and a verdict on both.

Due(c) == conn[c].watch = "sleep" /\ conn[c].due = 0
Watching(c) == Phase(c) \in {"open", "closed"} /\ (Due(c) \/ conn[c].watch \in {"active", "inactive"})

\* Mutant: the revocation is not looked at again.
WatchDeviceNot(c) ==
    /\ Watching(c) /\ Due(c)
    /\ Become(c, [conn[c] EXCEPT !.watch = "active"])
    /\ UNCHANGED hubVars

WatchDevice(c) ==
    /\ Watching(c) /\ Due(c)
    /\ Become(c, [conn[c] EXCEPT !.watch =
                    IF conn[c].device \in revoked THEN "inactive" ELSE "active"])
    /\ UNCHANGED hubVars

\* Mutant: the membership is not looked at again.
WatchMemberOnlyDevice(c) ==
    /\ Watching(c) /\ ~Due(c)
    /\ Become(c, IF conn[c].watch = "active"
                 THEN [conn[c] EXCEPT !.watch = "sleep", !.due = Recheck]
                 ELSE [conn[c] EXCEPT !.watch = "off", !.phase = "closed"])
    /\ UNCHANGED hubVars

WatchMember(c) ==
    /\ Watching(c) /\ ~Due(c)
    /\ Become(c, IF conn[c].watch = "active" /\ AccountOf[conn[c].device] \in member
                 THEN [conn[c] EXCEPT !.watch = "sleep", !.due = Recheck]
                 ELSE [conn[c] EXCEPT !.watch = "off", !.phase = "closed"])
    /\ UNCHANGED hubVars

\* A SELECT raises: nothing catches it, the watcher is gone and nobody notices.
WatchFails(c) ==
    /\ Watching(c)
    /\ DbError
    /\ conn' = [conn EXCEPT ![c].watch = "off"]
    /\ UNCHANGED <<hubVars, member, revoked, cutFor>>

-----------------------------------------------------------------------------
\* The receive loop.  The handshake's answer has to reach the client before it
\* can send, so the forwarding task has run once by the time a frame arrives.

Ready(c) == Phase(c) = "open" /\ conn[c].fwd # "new" /\ conn[c].job = "none"

\* Bound: no frame is taken that would exceed MaxEvents.
Room4More == events + Cardinality({c \in Conn : conn[c] # Free /\ conn[c].job # "none"}) < MaxEvents

\* A snapshot that comes too soon after the last one is skipped.
ReceiveSnapshot(c) ==
    /\ Ready(c) /\ ~conn[c].paced /\ Room4More
    /\ Become(c, [conn[c] EXCEPT !.paced = TRUE, !.job = "snapshot"])
    /\ UNCHANGED hubVars

ReceiveMessage(c) ==
    /\ Ready(c) /\ Room4More
    /\ Become(c, [conn[c] EXCEPT !.job = "msg"])
    /\ UNCHANGED hubVars

ReceiveListen(c, on) ==
    /\ Ready(c)
    /\ SetListening(conn[c].device, on)
    /\ UNCHANGED endpointVars

\* finally: the connection leaves _active and its tasks are cancelled.
Ended(k) == [k EXCEPT !.phase = "ended", !.watch = "off", !.job = "none"]

ReceiveTooLarge(c) ==
    /\ Ready(c)
    /\ Become(c, Ended(conn[c]))
    /\ UNCHANGED hubVars

\* name_of has answered: the snapshot is published (and handed to the sampler).
\* The connection may have been closed in the meantime.
Ingest(c) ==
    /\ conn[c] # Free /\ conn[c].job = "snapshot"
    /\ Publish(conn[c].device)
    /\ Become(c, [conn[c] EXCEPT !.job = "none"])

\* name_of has answered and the message is stored: it is delivered.
SendMessage(c, to) ==
    /\ conn[c] # Free /\ conn[c].job = "msg"
    /\ Deliver(AccountOf[conn[c].device], to)
    /\ Become(c, [conn[c] EXCEPT !.job = "none"])

\* A statement of the job raises: except Exception, and finally.
JobFails(c) ==
    /\ conn[c] # Free /\ conn[c].job # "none"
    /\ DbError
    /\ conn' = [conn EXCEPT ![c] = Ended(@)]
    /\ UNCHANGED <<hubVars, member, revoked, cutFor>>

\* WebSocketDisconnect, once nothing is being handled.
Finally(c) ==
    /\ Phase(c) = "closed" /\ conn[c].job = "none"
    /\ Become(c, Ended(conn[c]))
    /\ UNCHANGED hubVars

\* Mutant: the forwarding task is left behind.
CancelNothing(c) ==
    /\ Phase(c) = "ended"
    /\ Become(c, Free)
    /\ UNCHANGED hubVars

\* The cancelled task runs for the last time.  If it was waiting for its queue
\* the generator ends at once, if it was sending somebody has to close it; if it
\* had never run or had ended there is nothing to do.
CancelForward(c) ==
    /\ Phase(c) = "ended"
    /\ \/ conn[c].fwd \in {"new", "dead"} /\ Become(c, Free) /\ UNCHANGED hubVars
       \/ conn[c].fwd = "on" /\ Become(c, Free) /\ Unsubscribe(c)
       \/ conn[c].fwd = "on" /\ Become(c, [conn[c] EXCEPT !.fwd = "closing"]) /\ UNCHANGED hubVars

-----------------------------------------------------------------------------
\* The world around.

ClientGone(c) ==
    /\ Phase(c) = "open"
    /\ Become(c, [conn[c] EXCEPT !.phase = "closed"])
    /\ UNCHANGED hubVars

\* close_all, when the server shuts down.
CloseAll ==
    /\ \E c \in Conn : Phase(c) = "open"
    /\ conn' = [c \in Conn |-> IF Phase(c) = "open" THEN [conn[c] EXCEPT !.phase = "closed"] ELSE conn[c]]
    /\ UNCHANGED <<hubVars, member, revoked, dbErrors, cutFor>>

\* The rooms and accounts modules commit a change.
MemberRemoved(a) ==
    /\ a \in member
    /\ member' = member \ {a}
    /\ UNCHANGED <<hubVars, revoked, conn, dbErrors, cutFor>>

MemberAdded(a) ==
    /\ a \notin member
    /\ member' = member \cup {a}
    /\ cutFor' = [cutFor EXCEPT ![a] = 0]
    /\ UNCHANGED <<hubVars, revoked, conn, dbErrors>>

DeviceRevoked(d) ==
    /\ d \notin revoked
    /\ revoked' = revoked \cup {d}
    /\ UNCHANGED <<hubVars, member, conn, dbErrors, cutFor>>

\* A photo is posted over HTTP by a member.
PhotoPosted(a) ==
    /\ a \in member /\ Room4More
    /\ PublishPhoto(a)
    /\ UNCHANGED endpointVars

Prompt ==
    \A c \in Conn : conn[c] # Free =>
        Phase(c) \notin {"device", "member"} /\ ~Watching(c) /\ conn[c].job = "none"

Tick ==
    /\ Prompt
    /\ Age
    /\ conn' = [c \in Conn |->
                  IF conn[c] = Free THEN Free
                  ELSE [conn[c] EXCEPT !.paced = FALSE,
                                       !.due = IF conn[c].watch = "sleep" THEN @ - 1 ELSE @]]
    /\ cutFor' = [x \in User \cup Device |->
                    IF x \in Admitted \/ cutFor[x] > Recheck THEN cutFor[x] ELSE cutFor[x] + 1]
    /\ UNCHANGED <<member, revoked, dbErrors>>

\* What the server does by itself with connection c.
Proceed(c) ==
    \/ CheckDevice(c)
    \/ CheckMember(c)
    \/ StartForward(c)
    \/ Send(c)
    \/ SendFails(c)
    \/ CloseGenerator(c)
    \/ WatchDevice(c)
    \/ WatchMember(c)
    \/ Ingest(c)
    \/ \E to \in User \cup {Everybody} : SendMessage(c, to)
    \/ Finally(c)
    \/ CancelForward(c)

Fails(c) == HandshakeFails(c) \/ WatchFails(c) \/ JobFails(c)

Receives(c) ==
    \/ ReceiveSnapshot(c)
    \/ ReceiveMessage(c)
    \/ \E on \in BOOLEAN : ReceiveListen(c, on)
    \/ ReceiveTooLarge(c)

Next ==
    \/ \E c \in Conn : Proceed(c) \/ Fails(c) \/ Receives(c) \/ ClientGone(c)
    \/ \E c \in Conn, d \in Device : Connect(c, d)
    \/ CloseAll
    \/ \E a \in User : MemberRemoved(a) \/ MemberAdded(a) \/ PhotoPosted(a)
    \/ \E d \in Device : DeviceRevoked(d)
    \/ Tick

Spec == Init /\ [][Next]_vars

\* The event loop runs every task that can run.  Nothing is assumed of time.
Fairness ==
    \A c \in Conn :
        /\ WF_vars(StartForward(c) \/ SendFails(c))
        /\ WF_vars(Ingest(c) \/ (\E to \in User \cup {Everybody} : SendMessage(c, to)) \/ JobFails(c))
        /\ WF_vars(Finally(c) \/ CancelForward(c))
        /\ WF_vars(CloseGenerator(c))

FairSpec == Spec /\ Fairness
=============================================================================
