------------------------------- MODULE Caches -------------------------------
(***************************************************************************)
(* The caches of statistics of the desktop client, each in front of one    *)
(* path of the server.  Drawing the screen asks for a value, gets what     *)
(* there is, and starts a fetch beside it when that is missing or old.     *)
(* The screen is drawn by one goroutine; each fetch is another.            *)
(*                                                                         *)
(* A value is how new it was at the server, or Zeroed: a fetch does not     *)
(* look at the status of the answer, so the body of an error, an object    *)
(* with other fields, is read as statistics with nothing in them.          *)
(***************************************************************************)
EXTENDS Integers, FiniteSets

CONSTANTS
    Key,       \* the devices, or the room
    Zeroed, NoEntry,
    MaxTruth,  \* bound on how often the statistics change
    MaxErrors  \* bound on the errors of the server and of the way to it

VARIABLES
    truth,    \* how new the server's values are
    items,    \* the entry of each key
    flights,  \* the fetches under way: of which key, with which answer
    newest,   \* history: how new the newest statistics of each key were
    errors    \* how many errors there were

vars == <<truth, items, flights, newest, errors>>

TypeOK ==
    LET Data == 0..MaxTruth \cup {Zeroed}
    IN  /\ truth \in 1..MaxTruth
        /\ items \in [Key -> [data : Data, fresh : BOOLEAN, fetching : BOOLEAN] \cup {NoEntry}]
        /\ flights \subseteq [key : Key, answer : Data]
        /\ newest \in [Key -> 0..MaxTruth]
        /\ errors \in 0..MaxErrors

Init ==
    /\ truth = 1 /\ items = [k \in Key |-> NoEntry] /\ flights = {}
    /\ newest = [k \in Key |-> 0] /\ errors = 0

Advance ==
    /\ truth < MaxTruth /\ truth' = truth + 1
    /\ UNCHANGED <<items, flights, newest, errors>>

\* An entry is older than its time to live.
Expire(k) ==
    /\ items[k] # NoEntry /\ items[k].fresh
    /\ items' = [items EXCEPT ![k].fresh = FALSE]
    /\ UNCHANGED <<truth, flights, newest, errors>>

\* What there is to show of a key, 0 for nothing.
Kept(k) == IF items[k] = NoEntry THEN 0 ELSE items[k].data

-----------------------------------------------------------------------------
(* Get. *)

Ask(k) ==
    /\ items' = [items EXCEPT ![k] =
          [data |-> Kept(k), fresh |-> items[k] # NoEntry /\ items[k].fresh, fetching |-> TRUE]]
    /\ flights' = flights \cup {[key |-> k, answer |-> 0]}
    /\ UNCHANGED <<truth, newest, errors>>

\* Mutant: what is being fetched already is not asked.
GetAgain(k) ==
    /\ items[k] # NoEntry => Kept(k) = 0 \/ ~items[k].fresh
    /\ Ask(k)

\* There is no fresh value, and none is being fetched: a fetch is started.  Get asks
\* again under the lock for writing, but nobody else starts a fetch, and only the
\* fetch of the key itself would change what it has seen.
Get(k) ==
    /\ items[k] # NoEntry => ~items[k].fetching /\ (Kept(k) = 0 \/ ~items[k].fresh)
    /\ Ask(k)

-----------------------------------------------------------------------------
(* fetch. *)

Failing == errors < MaxErrors /\ errors' = errors + 1

\* The server answers, with the statistics ...
Answer(f) ==
    /\ f.answer = 0
    /\ flights' = (flights \ {f}) \cup {[f EXCEPT !.answer = truth]}
    /\ UNCHANGED <<truth, items, newest, errors>>

\* ... or with an error whose body is an object.
Refuse(f) ==
    /\ f.answer = 0
    /\ Failing
    /\ flights' = (flights \ {f}) \cup {[f EXCEPT !.answer = Zeroed]}
    /\ UNCHANGED <<truth, items, newest>>

\* Whatever could be read becomes the entry, and counts as fresh.
Store(f) ==
    /\ f.answer # 0
    /\ items' = [items EXCEPT ![f.key] = [data |-> f.answer, fresh |-> TRUE, fetching |-> FALSE]]
    /\ newest' = IF f.answer = Zeroed THEN newest ELSE [newest EXCEPT ![f.key] = f.answer]
    /\ flights' = flights \ {f}
    /\ UNCHANGED <<truth, errors>>

\* No answer, or one that cannot be read: the entry stays, and is asked for again
\* as soon as the screen is drawn.
Fail(f) ==
    /\ Failing
    /\ items' = [items EXCEPT ![f.key].fetching = FALSE]
    /\ flights' = flights \ {f}
    /\ UNCHANGED <<truth, newest>>

Next ==
    \/ Advance
    \/ \E k \in Key : Expire(k) \/ Get(k)
    \/ \E f \in flights : Answer(f) \/ Refuse(f) \/ Store(f) \/ Fail(f)

Spec == Init /\ [][Next]_vars

-----------------------------------------------------------------------------
Abstract == INSTANCE SingleFlight WITH
    busy <- {f.key : f \in flights}, value <- [k \in Key |-> Kept(k)]

\* For each key one fetch is under way at a time, though the screen is drawn again
\* and again before it ends, and fetches of several keys end in any order; so no
\* statistics are shown after newer ones, whatever errors came between them.
ImplementsSingleFlight == Abstract!Spec
=============================================================================
