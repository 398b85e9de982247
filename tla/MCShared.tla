----------------------------- MODULE MCShared -----------------------------
(***************************************************************************)
(* What must come to be shown, on small instances: the photos of the room, *)
(* the list of who is there, and the game that is played.                  *)
(*                                                                         *)
(* The three share nothing in this model, so one run checks each of them   *)
(* on its own: a behaviour is one of the part it has chosen, and the other *)
(* parts stay where they started.                                          *)
(***************************************************************************)
EXTENDS PhotosProperties, FiniteSets

CONSTANTS Account, Me, Removable, Renderers, MaxChanges,
          Pid, App, Tools, NonGames, Installed, Nothing, MaxStarts

VARIABLES part,
          ui, room, changes, live, members, nudged, job, list, last, line,
          proc, up, cur, rested, types, asked, game, starts

rosterVars == <<ui, room, changes, live, members, nudged, job, list, last, line>>
steamVars == <<proc, up, cur, rested, types, asked, game, starts>>

R == INSTANCE Roster WITH shown <- list
S == INSTANCE Steam WITH changes <- starts, MaxChanges <- MaxStarts

ASSUME PollerAssumption /\ MaxPhotosAssumption /\ MaxFailuresAssumption
ASSUME R!RosterAssumption

InitOfPart ==
    /\ part \in {"photos", "roster", "steam"}
    /\ Init
    /\ R!Init /\ (part # "roster" => ui = "tui" /\ room = {Me})
    /\ S!Init /\ (part # "steam" => up)

NextOfPart ==
    \/ part = "photos" /\ Next /\ UNCHANGED <<part, rosterVars, steamVars>>
    \/ part = "roster" /\ R!Next /\ UNCHANGED <<part, vars, steamVars>>
    \/ part = "steam" /\ S!Next /\ UNCHANGED <<part, vars, rosterVars>>

\* The fairness of each part, in the behaviours of that part.
PhotosFairness ==
    /\ \A p \in Poster : WF_vars(part = "photos" /\ Serve(p))
    /\ \A f \in Fetcher :
          /\ WF_vars(part = "photos" /\ Cache(f))
          /\ WF_vars(part = "photos" /\ \E n \in Photo : Announced(f, n))
    /\ WF_vars(part = "photos" /\ Poll)
    /\ WF_vars(part = "photos" /\ Snapshot)

RosterFairness ==
    /\ \A w \in R!Workers : WF_rosterVars(part = "roster" /\ R!Goes(w))
    /\ \A w \in Renderers : WF_rosterVars(part = "roster" /\ R!Redraw(w) /\ UNCHANGED ui)
    /\ WF_rosterVars(part = "roster" /\ R!Poll /\ UNCHANGED ui)
    /\ SF_rosterVars(part = "roster" /\ R!Answer("poll") /\ UNCHANGED ui)

SteamFairness ==
    /\ WF_steamVars(part = "steam" /\ S!Collect)
    /\ WF_steamVars(part = "steam" /\ S!Rest)

SpecOfPart ==
    /\ InitOfPart /\ [][NextOfPart]_<<part, vars, rosterVars, steamVars>>
    /\ PhotosFairness /\ RosterFairness /\ SteamFairness

-----------------------------------------------------------------------------
\* The screen ends up showing exactly the members of the room (Roster).
ShowsTheRoom == part = "roster" => R!ShowsTheRoom

\* The game that is shown is one that runs, in the end (Steam).
FollowsTheGame == part = "steam" => S!FollowsTheGame
=============================================================================
