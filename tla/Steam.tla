------------------------------- MODULE Steam -------------------------------
(***************************************************************************)
(* The game a desktop client shows as being played (client/internal/       *)
(* collector/linux/steam: steam.go, detect.go).  The collector looks for a *)
(* process that names a title on its command line or in its environment,   *)
(* and goes on looking at that one process for as long as it does.         *)
(*                                                                         *)
(* What is known of a title comes from module Art; here, the store's       *)
(* answer comes at some time after the first lookup.  The title's pictures *)
(* and the time it has been played are left out.                           *)
(***************************************************************************)
EXTENDS Naturals, FiniteSets

CONSTANTS
    Pid,        \* process ids, which are used again
    App,        \* the titles
    Tools,      \* those that are no games, by what the store says
    NonGames,   \* those that isNonGame knows by id or by name
    Installed,  \* those whose name is found in a library
    Nothing,    \* no process, no session, no game
    MaxChanges  \* bound on the processes that start and on what Steam does

VARIABLES
    proc,     \* by process id, what the process names
    up,       \* steamRunning: Steam runs, or there is no telling
    cur,      \* s.cur
    rested,   \* envRecheck has passed since s.lastEnv
    types,    \* what the resolver knows the titles to be
    asked,    \* the titles that have been looked up
    game,     \* the game in the last snapshot
    changes

vars == <<proc, up, cur, rested, types, asked, game, changes>>

Probes == {"cmdline", "environ"}
Sessions == [app : App, pid : Pid, started : 1..MaxChanges, via : Probes]

TypeOK ==
    /\ proc \in [Pid -> [app : App, in : SUBSET Probes, started : 1..MaxChanges] \cup {Nothing}]
    /\ up \in BOOLEAN /\ rested \in BOOLEAN
    /\ cur \in Sessions \cup {Nothing}
    /\ types \in [App -> {"", "game", "tool"}]
    /\ asked \in SUBSET (App \ NonGames)
    /\ game \in App \cup {Nothing}
    /\ changes \in 0..MaxChanges

Init ==
    /\ proc = [p \in Pid |-> Nothing] /\ up \in BOOLEAN
    /\ cur = Nothing /\ rested = TRUE
    /\ types = [a \in App |-> ""] /\ asked = {}
    /\ game = Nothing /\ changes = 0

-----------------------------------------------------------------------------
(* The machine. *)

Changes == changes < MaxChanges /\ changes' = changes + 1

Launch(p, a, in) ==
    /\ Changes /\ proc[p] = Nothing
    /\ proc' = [proc EXCEPT ![p] = [app |-> a, in |-> in, started |-> changes']]
    /\ UNCHANGED <<up, cur, rested, types, asked, game>>

Exit(p) ==
    /\ proc[p] # Nothing /\ proc' = [proc EXCEPT ![p] = Nothing]
    /\ UNCHANGED <<up, cur, rested, types, asked, game, changes>>

Toggle ==
    /\ Changes /\ up' = ~up
    /\ UNCHANGED <<proc, cur, rested, types, asked, game>>

-----------------------------------------------------------------------------
(* session. *)

Names(p, via) == proc[p] # Nothing /\ via \in proc[p].in

\* The newest of the processes that name a title this way.
Scan(via) ==
    {[app |-> proc[p].app, pid |-> p, started |-> proc[p].started, via |-> via] :
        p \in {q \in Pid : /\ Names(q, via)
                           /\ \A r \in Pid : Names(r, via) => proc[r].started <= proc[q].started}}

\* Mutant: a process id that is used again passes for the session it was.
AliveAnyApp(s) == s # Nothing /\ Names(s.pid, s.via)

Alive(s) == s # Nothing /\ Names(s.pid, s.via) /\ proc[s.pid].app = s.app

\* What a tick finds; the environments are read when the command lines give nothing.
Found ==
    IF Alive(cur) THEN {cur}
    ELSE IF ~up THEN {Nothing}
    ELSE IF Scan("cmdline") # {} THEN Scan("cmdline")
    ELSE IF rested /\ Scan("environ") # {} THEN Scan("environ")
    ELSE {Nothing}

ReadsEnvironments == ~Alive(cur) /\ up /\ Scan("cmdline") = {} /\ rested

\* ten seconds
Rest == rested' = TRUE /\ UNCHANGED <<proc, up, cur, types, asked, game, changes>>

-----------------------------------------------------------------------------
(* collect. *)

Shown(s) ==
    IF \/ s = Nothing
       \/ s.app \in NonGames
       \/ types[s.app] = "tool"
       \/ types[s.app] = "" /\ s.app \notin Installed
    THEN Nothing
    ELSE s.app

Collect ==
    /\ cur' \in Found
    /\ rested' = (rested /\ ~ReadsEnvironments)
    /\ game' = Shown(cur')
    /\ asked' = IF cur' # Nothing /\ cur'.app \notin NonGames THEN asked \cup {cur'.app} ELSE asked
    /\ UNCHANGED <<proc, up, types, changes>>

\* The store's answer, by module Art; it may have none.
Learn(a) ==
    /\ a \in asked /\ types[a] = ""
    /\ types' = [types EXCEPT ![a] = IF a \in Tools THEN "tool" ELSE "game"]
    /\ UNCHANGED <<proc, up, cur, rested, asked, game, changes>>

Next ==
    \/ \E p \in Pid : Exit(p) \/ \E a \in App, in \in (SUBSET Probes) \ {{}} : Launch(p, a, in)
    \/ Toggle \/ Rest \/ Collect
    \/ \E a \in App : Learn(a)

\* The collectors run every two seconds.
Fairness == WF_vars(Collect) /\ WF_vars(Rest)

Spec == Init /\ [][Next]_vars
FairSpec == Spec /\ Fairness

-----------------------------------------------------------------------------
Runs(a) == \E p \in Pid : proc[p] # Nothing /\ proc[p].app = a
Candidates == {a \in App \ NonGames : Runs(a) /\ types[a] # "tool"
                                        /\ (types[a] = "game" \/ a \in Installed)}

\* Whatever starts, ends and gets the process id of another in between: in the end
\* the game that is shown is one that runs, and none is missing while Steam runs and
\* nothing but games does (session: one process is followed, not searched again).
FollowsTheGame ==
    <>[](/\ game # Nothing => game \in Candidates
         /\ up /\ (\A p \in Pid : proc[p] # Nothing => proc[p].app \in Candidates)
               /\ Candidates # {} => game # Nothing)

\* "A tool the name filter missed must not flash up as a game for the tick before the
\* store answers" (steam.go, collect).
NoFlash == game \notin Tools
=============================================================================
