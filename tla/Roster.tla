------------------------------- MODULE Roster -------------------------------
(***************************************************************************)
(* Who is in the room, as the desktop client knows it.  The feed holds the *)
(* frames that arrived lately; the roster holds the member list the server *)
(* answered last, fetched by a poll and, after a removal, by a goroutine   *)
(* beside it.  Every goroutine that learns something joins the two into a  *)
(* list and hands it to the screen, each at its own pace.                  *)
(*                                                                         *)
(* The screen is the terminal, which takes lists one after the other, or   *)
(* the output of a widget, one line for each list that differs from the    *)
(* last.  A list says who is on it and who of them is away; names, ages,   *)
(* photos and the devices of one account are left out.                     *)
(***************************************************************************)
EXTENDS Naturals, FiniteSets

CONSTANTS
    Account,     \* the accounts
    Me,          \* the account of this client
    Removable,   \* the accounts this client is let to remove
    Renderers,   \* the goroutines that only render: of the socket, of the ticker
    MaxChanges   \* how often others join or leave

RosterAssumption ==
    /\ IsFiniteSet(Account) /\ Me \in Account
    /\ Removable \subseteq Account \ {Me}
    /\ MaxChanges \in Nat
    /\ Renderers \cap {"poll", "kick"} = {}

VARIABLES
    ui,       \* what takes the lists: "tui" or "json"
    room,     \* the members, at the server
    changes,  \* joins and leaves so far
    live,     \* the accounts with a frame in the feed that is not stale
    members,  \* the member list stored last, {} before the first
    nudged,   \* whether a refresh is asked for
    job,      \* what each goroutine is doing
    shown,    \* the list the screen took last
    last,     \* the widget: the line remembered as written
    line      \* the widget: the line written last

vars == <<ui, room, changes, live, members, nudged, job, shown, last, line>>

Workers == Renderers \cup {"poll", "kick"}

Lists == [people : SUBSET Account, away : SUBSET Account]
NoList == [people |-> {}, away |-> {}]

\* The goroutine is between two jobs; or it removes someone, fetches, has an
\* answer to store, something to render, a list to hand over, or a line to write.
Idle == [at |-> "idle"]
Jobs == {Idle, [at |-> "asked"], [at |-> "render"]}
            \cup [at : {"removing"}, who : Account]
            \cup [at : {"got"}, answer : SUBSET Account]
            \cup [at : {"send", "emit", "write"}, list : Lists]

TypeOK ==
    /\ ui \in {"tui", "json"}
    /\ room \subseteq Account /\ live \subseteq Account /\ members \subseteq Account
    /\ changes \in 0..MaxChanges /\ nudged \in BOOLEAN
    /\ job \in [Workers -> Jobs]
    /\ shown \in Lists /\ last \in Lists /\ line \in Lists

Init ==
    /\ ui \in {"tui", "json"}
    /\ room \in {r \in SUBSET Account : Me \in r}
    /\ changes = 0 /\ live = {} /\ members = {} /\ nudged = FALSE
    /\ job = [w \in Workers |-> Idle]
    /\ shown = NoList /\ last = NoList /\ line = NoList

Becomes(w, j) == job' = [job EXCEPT ![w] = j]

-----------------------------------------------------------------------------
(* The server, and the room around this client. *)

\* Someone joins, or leaves; this client stays.
Change(a) ==
    /\ changes < MaxChanges /\ a # Me
    /\ changes' = changes + 1
    /\ room' = IF a \in room THEN room \ {a} ELSE room \cup {a}
    /\ UNCHANGED <<live, members, nudged, job, shown, last, line>>

\* A device stays silent until its frame is stale.  This client keeps sending.
Expire(a) ==
    /\ a \in live \ {Me}
    /\ live' = live \ {a}
    /\ UNCHANGED <<room, changes, members, nudged, job, shown, last, line>>

-----------------------------------------------------------------------------
(* The goroutines. *)

\* This client's own frame, put into the feed after it was sent.
UpdateOwn ==
    /\ live' = live \cup {Me}
    /\ UNCHANGED <<room, changes, members, nudged, job, shown, last, line>>

\* A frame arrives.  An account the list does not hold asks for a refresh, unless
\* there is no list yet, and the client renders.
Hear(w, a) ==
    /\ w \in Renderers /\ job[w] = Idle /\ a \in room
    /\ live' = live \cup {a}
    /\ nudged' = (nudged \/ (members # {} /\ a \notin members))
    /\ Becomes(w, [at |-> "render"])
    /\ UNCHANGED <<room, changes, members, shown, last, line>>

\* The ticker of the screen, or a message or a photo that came in.
Redraw(w) ==
    /\ w \in Renderers /\ job[w] = Idle
    /\ Becomes(w, [at |-> "render"])
    /\ UNCHANGED <<room, changes, live, members, nudged, shown, last, line>>

\* The poll starts a fetch: at its ticker, or at a nudge, which it takes.
Poll ==
    /\ job["poll"] = Idle
    /\ nudged' \in {nudged, FALSE}
    /\ Becomes("poll", [at |-> "asked"])
    /\ UNCHANGED <<room, changes, live, members, shown, last, line>>

\* A goroutine of its own asks the server to remove someone.  (One at a time: a
\* bound, the program starts one for each confirmed prompt.)
Kick(a) ==
    /\ ui = "tui" /\ a \in Removable
    /\ job["kick"] = Idle
    /\ Becomes("kick", [at |-> "removing", who |-> a])
    /\ UNCHANGED <<room, changes, live, members, nudged, shown, last, line>>

\* The server removes them, and the list is fetched again; or it refuses, or the
\* call fails, and nothing more is done.
Removed ==
    /\ job["kick"].at = "removing"
    /\ \/ /\ job["kick"].who \in room
          /\ room' = room \ {job["kick"].who}
          /\ Becomes("kick", [at |-> "asked"])
       \/ Becomes("kick", Idle) /\ UNCHANGED room
    /\ UNCHANGED <<changes, live, members, nudged, shown, last, line>>

Answer(w) ==
    /\ job[w].at = "asked"
    /\ Becomes(w, [at |-> "got", answer |-> room])
    /\ UNCHANGED <<room, changes, live, members, nudged, shown, last, line>>

\* The fetch fails: neither stored nor rendered.
Fail(w) ==
    /\ job[w].at = "asked"
    /\ Becomes(w, Idle)
    /\ UNCHANGED <<room, changes, live, members, nudged, shown, last, line>>

\* Mutant: only the first answer is stored.
StoreFirst(w) ==
    /\ job[w].at = "got"
    /\ members' = IF members = {} THEN job[w].answer ELSE members
    /\ Becomes(w, [at |-> "render"])
    /\ UNCHANGED <<room, changes, live, nudged, shown, last, line>>

\* The answer replaces the list, whichever fetch it belongs to.
Store(w) ==
    /\ job[w].at = "got"
    /\ members' = job[w].answer
    /\ Becomes(w, [at |-> "render"])
    /\ UNCHANGED <<room, changes, live, nudged, shown, last, line>>

\* Without a member list the feed is shown as it is; with one, its members and no
\* others, those without a frame as away.
Merge == IF members = {} THEN [people |-> live, away |-> {}]
         ELSE [people |-> members, away |-> members \ live]

Render(w) ==
    /\ job[w].at = "render"
    /\ Becomes(w, [at |-> "send", list |-> Merge])
    /\ UNCHANGED <<room, changes, live, members, nudged, shown, last, line>>

\* The terminal takes the list, what it does with it is Desk's; the widget makes a
\* line of it.
UpdateDevices(w) ==
    /\ job[w].at = "send"
    /\ shown' = job[w].list
    /\ Becomes(w, IF ui = "tui" THEN Idle ELSE [at |-> "emit", list |-> shown'])
    /\ UNCHANGED <<room, changes, live, members, nudged, last, line>>

\* Under the lock: a line like the last is dropped, another remembered as written.
Emit(w) ==
    /\ job[w].at = "emit"
    /\ last' = job[w].list
    /\ Becomes(w, IF last = job[w].list THEN Idle ELSE [job[w] EXCEPT !.at = "write"])
    /\ UNCHANGED <<room, changes, live, members, nudged, shown, line>>

\* Outside the lock: lines are written in any order.
Write(w) ==
    /\ job[w].at = "write"
    /\ line' = job[w].list
    /\ Becomes(w, Idle)
    /\ UNCHANGED <<room, changes, live, members, nudged, shown, last>>

-----------------------------------------------------------------------------
Next ==
    /\ UNCHANGED ui
    /\ \/ \E a \in Account : Change(a) \/ Expire(a) \/ Kick(a)
       \/ UpdateOwn \/ Poll \/ Removed
       \/ \E w \in Renderers : Redraw(w) \/ \E a \in Account \ {Me} : Hear(w, a)
       \/ \E w \in Workers :
             \/ Answer(w) \/ Fail(w) \/ Store(w) \/ Render(w)
             \/ UpdateDevices(w) \/ Emit(w) \/ Write(w)

\* A goroutine goes on with what it has.
Goes(w) ==
    /\ UNCHANGED ui
    /\ Store(w) \/ Render(w) \/ UpdateDevices(w) \/ Emit(w) \/ Write(w)

\* Goroutines are scheduled, the tickers of the screen and of the poll tick, and
\* the server answers some of the polls, however many fail.
Fairness ==
    /\ \A w \in Workers : WF_vars(Goes(w))
    /\ \A w \in Renderers : WF_vars(Redraw(w) /\ UNCHANGED ui)
    /\ WF_vars(Poll /\ UNCHANGED ui)
    /\ SF_vars(Answer("poll") /\ UNCHANGED ui)

Spec == Init /\ [][Next]_vars /\ Fairness

-----------------------------------------------------------------------------
(* Properties. *)

\* Once people stop coming and going, the screen shows exactly the members, though
\* two goroutines store their answers in either order, lists are handed over in
\* either order, and any number of fetches fail.
ShowsTheRoom == <>[](shown.people = room)

\* The widget gets what the screen would.  This does not hold: of two goroutines
\* the one whose line was remembered first may write last, and the other line,
\* being remembered, is not written again.
WidgetKeepsUp == ui = "json" => <>[](line.people = room)
=============================================================================
