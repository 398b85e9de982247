-------------------------------- MODULE Desk --------------------------------
(***************************************************************************)
(* The terminal screen of the desktop client: which card is selected, what *)
(* is open over the cards, and what every key does.  One loop takes keys   *)
(* and lists in turn, so each key is one step, and a list may arrive       *)
(* between any two.  Roster says which lists follow each other; here any   *)
(* list may follow any other.                                              *)
(*                                                                         *)
(* A list says who is on it, whether the roles are known, and which of its *)
(* people play a track that can be opened.  Left out: the width of the     *)
(* window, the scrolling, the ticks that redraw an open music section,     *)
(* which pieces of it are ticked, and quitting.  What the update row       *)
(* starts is in Updater, what incognito does in Publish.                   *)
(***************************************************************************)
EXTENDS Naturals, FiniteSets, SequencesExt

CONSTANTS
    Account,  \* the accounts, in the order of their ids
    Me,       \* the account of this client
    Roles,    \* the role of each account in the room
    Playing,  \* the accounts whose frames name a track
    Writers,  \* the accounts that send messages
    NoOne,
    Pieces,   \* how many pieces of music the open section offers
    Group     \* the thread of the whole room, beside one thread for each account

DeskAssumption ==
    /\ Account \subseteq Nat /\ IsFiniteSet(Account) /\ Me \in Account
    /\ Roles \in [Account -> {"owner", "admin", "member"}]
    /\ Playing \subseteq Account /\ Writers \subseteq Account \ {Me} /\ Pieces \in Nat
    /\ NoOne \notin Account /\ Group \notin Account

VARIABLES
    shown,    \* the list the screen got last
    mode,     \* what is open over the cards
    selected, \* the index of the selected card, from 0
    index,    \* the index of the row of the open menu, from 0
    section,  \* whether the music section of the menu is open
    focus,    \* where keys go when nothing is open: to the cards or to the chat
    panel,    \* what stands beside the cards, also kept in a file
    confirm,  \* whom the standing prompt would remove
    dm,       \* whom the direct messages go to, and whose name stands over them
    draft,    \* for whom the text on the input line was typed
    unread,   \* the threads with unread messages
    outbox    \* history: what was done last to someone: whom, and who was meant

vars == <<shown, mode, selected, index, section, focus, panel, confirm, dm, draft,
          unread, outbox>>

Modes == {"none", "menu", "settings", "view", "update", "dm", "rename", "screen"}

\* Joined with the members a list has this account on it; before, whoever was heard.
Lists == {l \in [people : SUBSET Account, sure : BOOLEAN, playing : SUBSET Playing] :
             l.playing \subseteq l.people /\ (l.sure => Me \in l.people)}

\* A removal or a direct message, sent off: to whom, and for whom it was asked or
\* typed.
Acts == [what : {"none", "remove", "message"}, to : Account \cup {NoOne},
         meant : Account \cup {NoOne, Group}]

-----------------------------------------------------------------------------
(* What the screen derives from the list. *)

\* The cards: this account first, the others by id.
Cards(list) ==
    SetToSortSeq(list.people, LAMBDA a, b : a = Me \/ (b # Me /\ a < b))

MinSelectable(list) == IF Me \in list.people THEN 1 ELSE 0
HasSelectable == Cardinality(shown.people) > MinSelectable(shown)

Clamped(i, list) ==
    LET last == Cardinality(list.people) - 1
        capped == IF i > last THEN last ELSE i
    IN  IF capped < MinSelectable(list) THEN MinSelectable(list) ELSE capped

Focused == IF selected < Cardinality(shown.people)
           THEN Cards(shown)[selected + 1] ELSE NoOne

\* Roles stand on the list only when it was joined with the members.
IsManager == shown.sure /\ Me \in shown.people /\ Roles[Me] # "member"
CanRemove(a) == IsManager /\ a \notin {NoOne, Me} /\ Roles[a] # "owner"

Rows ==
    CASE mode = "settings" -> <<"update", "incognito", "rename", "quit">>
      [] mode = "view" -> <<"chat", "board">>
      [] OTHER ->
            <<"music">> \o [i \in 1..(IF section THEN Pieces ELSE 0) |-> "piece"]
            \o <<"screen">>
            \o (IF Focused \in shown.playing THEN <<"sync">> ELSE <<>>)
            \o (IF Focused \in {NoOne, Me} THEN <<>> ELSE <<"message">>)

Row == IF index < Len(Rows) THEN Rows[index + 1] ELSE "none"

\* What is drawn: a full screen of its own for some modes, the cards and a footer
\* for the others.
Full == mode \in {"update", "rename", "dm", "screen"}
Footer == CASE Full -> "none"
            [] mode # "none" -> "menu"
            [] focus = "chat" -> "chat"
            [] confirm # NoOne -> "remove"
            [] OTHER -> "cards"

-----------------------------------------------------------------------------
TypeOK ==
    /\ shown \in Lists
    /\ mode \in Modes /\ selected \in Nat /\ index \in Nat /\ section \in BOOLEAN
    /\ focus \in {"cards", "chat"} /\ panel \in {"chat", "board"}
    /\ confirm \in Account \cup {NoOne}
    /\ dm \in [peer : Account \cup {NoOne}, title : Account \cup {NoOne}]
    /\ draft \in Account \cup {NoOne, Group}
    /\ unread \subseteq Writers \cup {Group}
    /\ outbox \in Acts

Init ==
    /\ shown = [people |-> {}, sure |-> FALSE, playing |-> {}]
    /\ mode = "none" /\ selected = 0 /\ index = 0 /\ section = FALSE
    /\ focus = "cards" /\ panel \in {"chat", "board"}
    /\ confirm = NoOne /\ dm = [peer |-> NoOne, title |-> NoOne]
    /\ draft = NoOne /\ unread = {}
    /\ outbox = [what |-> "none", to |-> NoOne, meant |-> NoOne]

-----------------------------------------------------------------------------
(* Lists and messages. *)

\* The selection stays at its index, not with its person.  What the new list is
\* drawn beside is read.
FeedMsg(list) ==
    /\ shown' = list
    /\ selected' = Clamped(selected, list)
    /\ unread' = unread \ (IF mode = "dm" THEN {dm.peer}
                           ELSE IF mode = "none" /\ panel = "chat" THEN {Group}
                           ELSE {})
    /\ UNCHANGED <<mode, index, section, focus, panel, confirm, dm, draft, outbox>>

\* A message of someone else arrives.
Ingest(thread) ==
    /\ unread' = unread \cup {thread}
    /\ UNCHANGED <<shown, mode, selected, index, section, focus, panel, confirm, dm, draft,
                   outbox>>

-----------------------------------------------------------------------------
(* Keys when nothing is open.  The chat takes them first, then the prompt. *)

AtCards == mode = "none" /\ focus = "cards" /\ confirm = NoOne

\* The keys of the chat line but the one that leaves it change nothing here.
LeaveChat ==
    /\ mode = "none" /\ focus = "chat"
    /\ focus' = "cards"
    /\ UNCHANGED <<shown, mode, selected, index, section, panel, confirm, dm,
                   draft, unread, outbox>>

\* Mutant: the removal takes whoever is selected by the time of the answer.
AnswerPromptFocused(yes) ==
    /\ mode = "none" /\ focus = "cards" /\ confirm # NoOne
    /\ outbox' = IF yes THEN [what |-> "remove", to |-> Focused, meant |-> confirm]
                 ELSE outbox
    /\ confirm' = NoOne
    /\ UNCHANGED <<shown, mode, selected, index, section, focus, panel, dm, draft,
                   unread>>

\* Any key answers the prompt, one of them with yes.
AnswerPrompt(yes) ==
    /\ mode = "none" /\ focus = "cards" /\ confirm # NoOne
    /\ outbox' = IF yes THEN [what |-> "remove", to |-> confirm, meant |-> confirm]
                 ELSE outbox
    /\ confirm' = NoOne
    /\ UNCHANGED <<shown, mode, selected, index, section, focus, panel, dm, draft,
                   unread>>

Tab ==
    /\ AtCards /\ panel = "chat"
    /\ focus' = "chat"
    /\ unread' = unread \ {Group}
    /\ UNCHANGED <<shown, mode, selected, index, section, panel, confirm, dm,
                   draft, outbox>>

Move(i) ==
    /\ AtCards
    /\ \/ i = selected - 1 /\ i >= MinSelectable(shown)
       \/ i = selected + 1 /\ i < Cardinality(shown.people)
    /\ selected' = i
    /\ UNCHANGED <<shown, mode, index, section, focus, panel, confirm, dm, draft,
                   unread, outbox>>

\* Enter, 1, 2, s and v: the menu of the selected person, the same with the music
\* open, their screen time, the settings, and the choice of the panel.
Open(to, row, music) ==
    /\ AtCards
    /\ <<to, row, music>> \in {<<"menu", 0, section>>, <<"menu", 0, TRUE>>,
                               <<"screen", index, section>>, <<"settings", 0, section>>,
                               <<"view", IF panel = "chat" THEN 0 ELSE 1, section>>}
    /\ to \in {"menu", "screen"} => HasSelectable
    /\ mode' = to /\ index' = row /\ section' = music
    /\ UNCHANGED <<shown, selected, focus, panel, confirm, dm, draft, unread,
                   outbox>>

AskToRemove ==
    /\ AtCards /\ CanRemove(Focused)
    /\ confirm' = Focused
    /\ UNCHANGED <<shown, mode, selected, index, section, focus, panel, dm, draft,
                   unread, outbox>>

-----------------------------------------------------------------------------
(* Keys of an open menu. *)

InMenu == mode \in {"menu", "settings", "view"}

CloseMenu ==
    /\ InMenu
    /\ mode' = "none" /\ section' = FALSE
    /\ UNCHANGED <<shown, selected, index, focus, panel, confirm, dm, draft,
                   unread, outbox>>

MoveRow(i) ==
    /\ InMenu
    /\ \/ i = index - 1 /\ i >= 0
       \/ i = index + 1 /\ i < Len(Rows)
    /\ index' = i
    /\ UNCHANGED <<shown, mode, selected, section, focus, panel, confirm, dm,
                   draft, unread, outbox>>

\* Right opens the section, left closes it and goes back to its row (the first:
\* of the person's menu, and of every other, where there is none), and enter on
\* its row turns it over.
Fold(open, row) ==
    /\ InMenu
    /\ \/ Row = "music" /\ open /\ row = index
       \/ section /\ ~open /\ row = 0
       \/ Row = "music" /\ open = ~section /\ row = index
    /\ section' = open /\ index' = row
    /\ UNCHANGED <<shown, mode, selected, focus, panel, confirm, dm, draft, unread,
                   outbox>>

\* The rows that only go somewhere else.  (A piece and incognito change nothing
\* here, and stay.)
Enter(to) ==
    /\ InMenu
    /\ <<Row, to>> \in {<<"screen", "screen">>, <<"sync", "none">>,
                        <<"update", "update">>, <<"rename", "rename">>}
    /\ mode' = to
    /\ draft' = IF to = "rename" THEN NoOne ELSE draft
    /\ UNCHANGED <<shown, selected, index, section, focus, panel, confirm, dm,
                   unread, outbox>>

EnterMessage ==
    /\ InMenu /\ Row = "message"
    /\ mode' = "dm"
    /\ draft' = NoOne
    /\ dm' = [peer |-> Focused, title |-> Focused]
    /\ unread' = unread \ {Focused}
    /\ UNCHANGED <<shown, selected, index, section, focus, panel, confirm, outbox>>

EnterPanel ==
    /\ mode = "view" /\ Row \in {"chat", "board"}
    /\ panel' = Row
    /\ unread' = unread \ (IF Row = "chat" THEN {Group} ELSE {})
    /\ mode' = "none"
    /\ UNCHANGED <<shown, selected, index, section, focus, confirm, dm, draft,
                   outbox>>

-----------------------------------------------------------------------------
(* Keys of a full screen. *)

\* Escape goes to the room and drops the text of an input line.
Escape ==
    /\ Full
    /\ mode' = "none"
    /\ draft' = IF mode \in {"dm", "rename"} THEN NoOne ELSE draft
    /\ UNCHANGED <<shown, selected, index, section, focus, panel, confirm, dm,
                   unread, outbox>>

\* Left goes back: to the settings from the update, to the person's menu from
\* everywhere else, renaming included.
Back ==
    /\ Full
    /\ mode' = IF mode = "update" THEN "settings" ELSE "menu"
    /\ index' = IF mode = "update" THEN 0 ELSE index
    /\ draft' = IF mode \in {"dm", "rename"} THEN NoOne ELSE draft
    /\ UNCHANGED <<shown, selected, section, focus, panel, confirm, dm, unread,
                   outbox>>

\* A character is typed, or the last one is taken back.
Type(text) ==
    /\ mode \in {"dm", "rename"}
    /\ text \in {NoOne, IF mode = "dm" THEN dm.peer ELSE Group}
    /\ draft' = text
    /\ UNCHANGED <<shown, mode, selected, index, section, focus, panel, confirm,
                   dm, unread, outbox>>

\* Enter sends the text and stays, or renames the device and closes.
Submit ==
    /\ mode \in {"dm", "rename"}
    /\ draft' = NoOne
    /\ IF mode = "dm"
       THEN /\ outbox' = IF draft # NoOne /\ dm.peer # NoOne
                         THEN [what |-> "message", to |-> dm.peer, meant |-> draft]
                         ELSE outbox
            /\ UNCHANGED mode
       ELSE /\ mode' = "none"
            /\ UNCHANGED outbox
    /\ UNCHANGED <<shown, selected, index, section, focus, panel, confirm, dm,
                   unread>>

-----------------------------------------------------------------------------
Keys ==
    \/ LeaveChat \/ Tab \/ AskToRemove
    \/ \E yes \in BOOLEAN : AnswerPrompt(yes)
    \/ \E i \in 0..Cardinality(Account) : Move(i)
    \/ \E to \in Modes, row \in 0..Pieces + 4, music \in BOOLEAN : Open(to, row, music)
    \/ CloseMenu \/ EnterMessage \/ EnterPanel
    \/ \E i \in 0..Pieces + 4 : MoveRow(i)
    \/ \E open \in BOOLEAN, row \in 0..Pieces + 4 : Fold(open, row)
    \/ \E to \in Modes : Enter(to)
    \/ Escape \/ Back \/ Submit
    \/ \E text \in Account \cup {NoOne, Group} : Type(text)

Next ==
    \/ Keys
    \/ \E list \in Lists : FeedMsg(list)
    \/ \E thread \in Writers \cup {Group} : Ingest(thread)

\* Lists keep coming, for a ticker asks for one every few seconds.  No key need
\* ever be pressed.
Spec == Init /\ [][Next]_vars /\ WF_vars(\E list \in Lists : FeedMsg(list))

-----------------------------------------------------------------------------
(* Safety. *)

\* Whatever arrives in between, a key does what the screen says it does.  A prompt to
\* remove someone stands in the footer as long as the next key answers it, and while
\* keys go to the chat, the chat is what stands beside the cards.  Lists come and go
\* under an open prompt or conversation, and the selection goes to someone else with
\* them; still a removal takes the one in the prompt, a message goes to the one in
\* the title and was typed for them, and neither is ever this account, nor a removal
\* the owner's.
KeysActAsShown ==
    /\ confirm # NoOne => Footer = "remove"
    /\ focus = "chat" => Footer = "chat" /\ panel = "chat"
    /\ outbox.to = outbox.meant /\ outbox.to # Me
    /\ outbox.what = "remove" => Roles[outbox.to] # "owner"
    /\ mode = "dm" => dm.peer = dm.title /\ dm.peer \notin {NoOne, Me}

=============================================================================
