--------------------------- MODULE ChatProperties ---------------------------
(***************************************************************************)
(* What must hold of the chat of a room.                                   *)
(***************************************************************************)
EXTENDS Chat

\* A message that comes twice, live and in the history, in either order, is shown
\* once, in its own thread, and nothing is shown that was not said to the reader.
ShownOnce ==
    \A t \in Thread :
        /\ Cardinality(ToSet(log[t])) = Len(log[t])
        /\ \A m \in ToSet(log[t]) :
              IF t = Group THEN m.to = Group ELSE {m.from, m.to} = {Me, t}

\* However the transactions of several writers overlap, commit out of the order
\* of their stamps or are rolled back, the table never loses one of the newest
\* messages of a conversation: what leaves it has Limit newer ones there.
NewestStay ==
    [][\A m \in table \ table' :
          Cardinality({o \in table' : Conversation(o) = Conversation(m) /\ o.at > m.at})
             >= Limit(Conversation(m))]_vars

\* The messages of the table the reader may count on: still among the newest of
\* their conversation, delivered, and not lost after the SELECT that would find
\* them: with a connection, with nobody subscribed, or to a full queue of the hub,
\* which drops a message without a word.
Due ==
    {m \in table :
        /\ ForMe(m)
        /\ m \in Newest(table, Conversation(m))
        /\ m \notin excused
        /\ m \notin ToSet(wire)
        /\ \A a \in Writer : writing[a].stage = "idle" \/ writing[a].msg # m}

\* History and live messages leave no gap between them: a message is stored
\* before it is delivered, so it is in the SELECT or comes live, unless it is lost
\* after the SELECT, and a thread that is not full has it.
NothingMissed ==
    fetch = Loaded =>
        \A m \in Due : m \in ToSet(log[Route(m)]) \/ Len(log[Route(m)]) = ChatMax

\* The newest message of the room that has arrived is shown, whether it came
\* before the history or after it.  This does not hold: a live message that comes
\* between the SELECT and the answer is the first of the log when LoadHistory adds
\* GROUP_LIMIT others to it, and add drops the first before sortAndCap sorts.
NewestShown ==
    fetch = Loaded /\ troubles = 0 /\ online =>
        \A m \in Due : m.to = Group /\ (\A o \in table : o.to = Group => o.at <= m.at)
                          => m \in ToSet(log[Group])
=============================================================================
