-------------------------------- MODULE Chat --------------------------------
(***************************************************************************)
(* The chat of a room, from the message a member writes to the thread a    *)
(* reader sees: the server's chats module (send_message.py, repositories,  *)
(* readers), its delivery to a desktop client, and the client's chat store *)
(* (renderer/tui/chatstore.go), which is filled from two sides, the live   *)
(* messages and the history that is fetched once at the start.             *)
(*                                                                         *)
(* The client is that of the account Me.  A message is its sender, its     *)
(* addressee and created_at, which is the time its transaction started:    *)
(* transactions need not commit in that order, nor are messages delivered  *)
(* in it.                                                                  *)
(***************************************************************************)
EXTENDS Integers, Sequences, FiniteSetsExt, SequencesExt

CONSTANTS Account,      \* the members of the room
          Me,           \* the account of the client
          Writer,       \* the accounts that write, over one connection each
          GroupLimit,   \* GROUP_LIMIT (300)
          DmLimit,      \* DM_LIMIT (100)
          ChatMax,      \* chatMax (300)
          MaxMessages,  \* bound on the messages written in a run
          MaxTroubles   \* bound on cut connections and server restarts

AccountsAssumption == Me \in Account /\ Writer \subseteq Account /\ "room" \notin Account
LimitsAssumption == {GroupLimit, DmLimit, ChatMax} \subseteq Nat \ {0}
BoundsAssumption == MaxMessages \in Nat /\ MaxTroubles \in Nat

VARIABLES clock,    \* the time of the database; stamps the messages
          writing,  \* by writer, the message its connection is being served for
          table,    \* the rows of the table messages of this room
          online,   \* whether the client is subscribed at the hub
          wire,     \* the messages on their way to the client
          fetch,    \* the history request: its stage and what it has read so far
          log,      \* ChatStore: the log of each thread
          troubles, \* history: how many there have been
          excused   \* history: lost on the way, or sent to nobody, after the SELECT

vars == <<clock, writing, table, online, wire, fetch, log, troubles, excused>>

Group == "room"
Peer == Account \ {Me}
Thread == Peer \cup {Group}

Message == [from : Account, to : Account \cup {Group}, at : 1 .. MaxMessages]

Idle == [stage |-> "idle"]
Asked == [stage |-> "asked"]
Failed == [stage |-> "failed"]
Loaded == [stage |-> "loaded"]

TypeOK ==
    /\ clock \in 0 .. MaxMessages
    /\ writing \in [Writer ->
          {Idle} \cup [stage : {"inserted", "pruned"}, msg : Message, doomed : SUBSET Message]
                 \cup [stage : {"stored"}, msg : Message]]
    /\ table \subseteq Message
    /\ online \in BOOLEAN
    /\ wire \in Seq(Message)
    /\ fetch.stage \in {"asked", "group", "answered", "loaded", "failed"}
    /\ log \in [Thread -> Seq(Message)]
    /\ \A t \in Thread : Len(log[t]) <= ChatMax
    /\ troubles \in 0 .. MaxTroubles
    /\ excused \subseteq Message

Init ==
    /\ clock = 0
    /\ writing = [a \in Writer |-> Idle]
    /\ table = {}
    /\ online = FALSE
    /\ wire = <<>>
    /\ fetch = Asked
    /\ log = [t \in Thread |-> <<>>]
    /\ troubles = 0
    /\ excused = {}

-----------------------------------------------------------------------------
(***************************************************************************)
(* The table.                                                              *)
(***************************************************************************)
\* The messages that are pruned together: the room's, or those of two accounts.
Conversation(m) == IF m.to = Group THEN {Group} ELSE {m.from, m.to}

Limit(c) == IF c = {Group} THEN GroupLimit ELSE DmLimit

\* The newest rows of a conversation, as ORDER BY created_at DESC LIMIT finds them.
Newest(rows, c) ==
    {m \in rows : Conversation(m) = c
                  /\ Cardinality({o \in rows : Conversation(o) = c /\ o.at > m.at}) < Limit(c)}

\* Mutant: without DESC, the oldest rows stay.
DoomedNewest(rows, c) ==
    {m \in rows : Conversation(m) = c
                  /\ Cardinality({o \in rows : Conversation(o) = c /\ o.at < m.at}) >= Limit(c)}

\* What the DELETE of add takes away, of the rows it sees.
Doomed(rows, c) == {m \in rows : Conversation(m) = c} \ Newest(rows, c)

\* SendMessage, add: the transaction starts and inserts the row.
Insert(a, to) ==
    /\ writing[a] = Idle
    /\ to # a
    /\ clock < MaxMessages
    /\ clock' = clock + 1
    /\ writing' = [writing EXCEPT ![a] =
          [stage |-> "inserted", msg |-> [from |-> a, to |-> to, at |-> clock + 1], doomed |-> {}]]
    /\ UNCHANGED <<table, online, wire, fetch, log, troubles, excused>>

\* add: the DELETE, which sees the rows committed by now and its own.
Prune(a) ==
    /\ writing[a].stage = "inserted"
    /\ LET m == writing[a].msg
       IN  writing' = [writing EXCEPT ![a].stage = "pruned",
                                      ![a].doomed = Doomed(table \cup {m}, Conversation(m))]
    /\ UNCHANGED <<clock, table, online, wire, fetch, log, troubles, excused>>

\* The unit of work commits.
Commit(a) ==
    /\ writing[a].stage = "pruned"
    /\ table' = (table \cup {writing[a].msg}) \ writing[a].doomed
    /\ writing' = [writing EXCEPT ![a] = [stage |-> "stored", msg |-> writing[a].msg]]
    /\ UNCHANGED <<clock, online, wire, fetch, log, troubles, excused>>

\* A statement or the commit fails: rolled back, and nothing is delivered.
Abort(a) ==
    /\ writing[a].stage \in {"inserted", "pruned"}
    /\ writing' = [writing EXCEPT ![a] = Idle]
    /\ UNCHANGED <<clock, table, online, wire, fetch, log, troubles, excused>>

\* Whether the hub hands m to the connections of Me.
ForMe(m) == m.to = Group \/ Me \in {m.from, m.to}

\* Whether the history request has passed the SELECT that would find m.
SelectDone(m) ==
    \/ fetch.stage \in {"answered", "loaded"}
    \/ fetch.stage = "group" /\ m.to = Group

\* What is lost on the way is lost for good if the history has been read.
Lose(ms) == excused' = excused \cup {m \in ms : SelectDone(m)}

\* hub.deliver: after the commit, to who is subscribed by then; or to nobody, since
\* the subscriber's queue of 128 is full.  The queue holds snapshots and photos too,
\* so it may be full whatever number of messages is on the way; neither side is told.
Deliver(a) ==
    /\ writing[a].stage = "stored"
    /\ \/ /\ online /\ ForMe(writing[a].msg)
          /\ wire' = Append(wire, writing[a].msg)
          /\ UNCHANGED excused
       \/ UNCHANGED wire /\ Lose({writing[a].msg})
    /\ writing' = [writing EXCEPT ![a] = Idle]
    /\ UNCHANGED <<clock, table, online, fetch, log, troubles>>

-----------------------------------------------------------------------------
(***************************************************************************)
(* The connection of the client.                                           *)
(***************************************************************************)
Subscribe ==
    /\ ~online
    /\ online' = TRUE
    /\ UNCHANGED <<clock, writing, table, wire, fetch, log, troubles, excused>>

\* Bound: so many troubles in a run.
CountTrouble ==
    /\ troubles < MaxTroubles
    /\ troubles' = troubles + 1

\* The connection breaks, with what is on it.
Cut ==
    /\ online
    /\ CountTrouble
    /\ online' = FALSE
    /\ wire' = <<>>
    /\ Lose(ToSet(wire))
    /\ UNCHANGED <<clock, writing, table, fetch, log>>

\* The server restarts: open transactions are rolled back, messages that were
\* stored and not yet delivered stay so, a request in flight fails.
Restart ==
    /\ CountTrouble
    /\ writing' = [a \in Writer |-> Idle]
    /\ online' = FALSE
    /\ wire' = <<>>
    /\ Lose(ToSet(wire) \cup {writing[a].msg : a \in {b \in Writer : writing[b].stage = "stored"}})
    /\ fetch' = IF fetch.stage \in {"asked", "group"} THEN Failed ELSE fetch
    /\ UNCHANGED <<clock, table, log>>

-----------------------------------------------------------------------------
\* A stable sort by the time of the messages.
ByAt(s) ==
    LET before(i, j) == s[i].at < s[j].at \/ (s[i].at = s[j].at /\ i < j)
        order == CHOOSE p \in Bijection(DOMAIN s, DOMAIN s) :
                    \A i, j \in DOMAIN s : i < j => before(p[i], p[j])
    IN  [i \in DOMAIN s |-> s[order[i]]]

(***************************************************************************)
(* The history: one request per run of the client, beside the connection.  *)
(***************************************************************************)
\* history: the first SELECT, of the newest messages to the room.
ReadGroup ==
    /\ fetch.stage = "asked"
    /\ fetch' = [stage |-> "group", rows |-> Newest(table, {Group})]
    /\ UNCHANGED <<clock, writing, table, online, wire, log, troubles, excused>>

\* history: the second SELECT, of the newest messages of each of one's own
\* conversations, in no transaction with the first; the answer is sorted.
ReadDms ==
    /\ fetch.stage = "group"
    /\ LET rows == fetch.rows \cup UNION {Newest(table, {Me, p}) : p \in Peer}
       IN  fetch' = [stage |-> "answered", rows |-> ByAt(SetToSeq(rows))]
    /\ UNCHANGED <<clock, writing, table, online, wire, log, troubles, excused>>

\* FetchHistory fails: logged, and not tried again.
FetchFails ==
    /\ fetch.stage \in {"asked", "group", "answered"}
    /\ fetch' = Failed
    /\ UNCHANGED <<clock, writing, table, online, wire, log, troubles, excused>>

-----------------------------------------------------------------------------
(***************************************************************************)
(* The chat store.                                                         *)
(***************************************************************************)
\* route: the thread of a message.
Route(m) == CASE m.to = Group -> Group
              [] m.to # Group /\ m.from = Me -> m.to
              [] OTHER -> m.from

\* The end of a log that is too long.
Latest(s) == IF Len(s) > ChatMax THEN SubSeq(s, Len(s) - ChatMax + 1, Len(s)) ELSE s

\* Mutant: whether the thread has the message already is not asked.
AddTwice(s, m) == Latest(Append(s, m))

\* thread.add.
Add(s, m) == IF m \in ToSet(s) THEN s ELSE Latest(Append(s, m))

\* thread.sortAndCap.
SortAndCap(s) == Latest(ByAt(s))

\* A message is added to its thread.
Put(store, m) == [store EXCEPT ![Route(m)] = Add(@, m)]

\* The loop of LoadHistory: the store after all of rows.
Merged(store, rows) ==
    LET after[i \in 0 .. Len(rows)] ==
          IF i = 0 THEN store ELSE Put(after[i - 1], rows[i])
    IN  after[Len(rows)]

\* Mutant: the history takes the place of what was there.
LoadReplaces ==
    /\ fetch.stage = "answered"
    /\ LET store == Merged([t \in Thread |-> <<>>], fetch.rows)
       IN  log' = [t \in Thread |-> SortAndCap(store[t])]
    /\ fetch' = Loaded
    /\ UNCHANGED <<clock, writing, table, online, wire, troubles, excused>>

\* LoadHistory: every message of the answer is added to its thread.
LoadHistory ==
    /\ fetch.stage = "answered"
    /\ LET store == Merged(log, fetch.rows)
       IN  log' = [t \in Thread |-> SortAndCap(store[t])]
    /\ fetch' = Loaded
    /\ UNCHANGED <<clock, writing, table, online, wire, troubles, excused>>

\* handleMessage, Ingest: the next live message.
Ingest ==
    /\ wire # <<>>
    /\ wire' = Tail(wire)
    /\ log' = Put(log, Head(wire))
    /\ UNCHANGED <<clock, writing, table, online, fetch, troubles, excused>>

Next ==
    \/ \E a \in Writer : \/ Prune(a) \/ Commit(a) \/ Abort(a) \/ Deliver(a)
                         \/ \E to \in Account \cup {Group} : Insert(a, to)
    \/ Subscribe \/ Cut \/ Restart
    \/ ReadGroup \/ ReadDms \/ FetchFails \/ LoadHistory
    \/ Ingest

Spec == Init /\ [][Next]_vars
=============================================================================
