------------------------------ MODULE MCRooms ------------------------------
(***************************************************************************)
(* A room on small instances: who is in it, three accounts of which one    *)
(* owns it (an admin may act on another); what is live in it, the hub with *)
(* two accounts, one with two devices; and the chat of three members.      *)
(*                                                                         *)
(* The three share nothing here, so one run checks each of them on its     *)
(* own: a behaviour is one of the part it has chosen, and the other parts  *)
(* stay where they started.                                                *)
(***************************************************************************)
EXTENDS RoomsProperties, HubProperties, TLC

CONSTANTS d1, d2, d3, b1, b2,
          Member, Me, Writer, GroupLimit, DmLimit, ChatMax, MaxMessages, MaxTroubles

VARIABLES part,
          clock, writing, table, online, wire, fetch, log, troubles, excused

chatVars == <<clock, writing, table, online, wire, fetch, log, troubles, excused>>

TwoOfOne == d1 :> b1 @@ d2 :> b2 @@ d3 :> b1

C == INSTANCE ChatProperties WITH Account <- Member

ASSUME ChatAssumption == C!AccountsAssumption /\ C!LimitsAssumption /\ C!BoundsAssumption

InitOfPart == part \in {"rooms", "hub", "chat"} /\ Init /\ HubInit /\ C!Init

NextOfPart ==
    \/ part = "rooms" /\ Next /\ UNCHANGED <<part, hubVars, chatVars>>
    \/ part = "hub" /\ HubNext /\ UNCHANGED <<part, vars, chatVars>>
    \/ part = "chat" /\ C!Next /\ UNCHANGED <<part, vars, hubVars>>

\* The fairness of Rooms, in its behaviours.
SpecOfPart ==
    /\ InitOfPart /\ [][NextOfPart]_<<part, vars, hubVars, chatVars>>
    /\ WF_vars(part = "rooms" /\ Tick)
    /\ \A p \in Request : WF_vars(part = "rooms" /\ (Proceed(p) \/ Abort(p)))

-----------------------------------------------------------------------------
\* A message that comes twice, live and in the history, is shown once, in its own
\* thread (ChatProperties).
ShownOnce == C!ShownOnce

\* History and live messages leave no gap between them (ChatProperties).
NothingMissed == C!NothingMissed

\* However transactions overlap, the table keeps the newest of each conversation
\* (ChatProperties).
NewestStay == C!NewestStay
=============================================================================
