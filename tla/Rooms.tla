------------------------------- MODULE Rooms -------------------------------
(***************************************************************************)
(* The rooms module of the server (server/src/app/modules/rooms): invites, *)
(* joining, leaving, kicking and appointing, as the concurrent requests    *)
(* they are.                                                               *)
(*                                                                         *)
(* Every use case checks first and writes later: it reads the roles it     *)
(* needs on connections of their own, one SELECT at a time, and only then  *)
(* opens the transaction that writes.  Any other request may commit in     *)
(* between, so a request in flight carries what it has read so far and     *)
(* each SELECT and each transaction is a step of its own.  The first       *)
(* SELECT is taken together with the arrival of the request, because       *)
(* nothing is decided before it.  A request that is refused changes        *)
(* nothing, so only the accepted branch of the last check is an action,    *)
(* except in CheckTarget, where the refusal ends a request in flight.      *)
(***************************************************************************)
EXTENDS Integers, FiniteSets

CONSTANTS Account,    \* the accounts
          Room,       \* the room ids generate_room_id may draw
          Request,    \* slots for the requests in flight
          InviteTTL,  \* INVITE_TTL, in ticks of the clock
          MaxNow      \* bound: the clock stops here, and no invite outlives it

ASSUME InviteTTLAssumption == InviteTTL \in Nat \ {0}
ASSUME MaxNowAssumption == MaxNow \in Nat

VARIABLES role,    \* table room_members: role[r][a], NoRole when there is no row
          invite,  \* the invite codes signed so far
          now,     \* the server's clock
          req      \* the requests in flight, by slot

vars == <<role, invite, now, req>>

NoRole == "none"
Roles == {"owner", "admin", "member"}
ManagerRoles == {"owner", "admin"}
Grants == {"admin", "member"}

\* Mutants of the policies: the target, or the leaver, may be the owner.
CanManageAnyone(actorRole, targetRole) == actorRole \in ManagerRoles
CanLeaveAnyone(actorRole) == actorRole # NoRole

\* The two policies, on roles that may be absent.
CanManage(actorRole, targetRole) == actorRole \in ManagerRoles /\ targetRole # "owner"
CanLeave(actorRole) == actorRole \notin {NoRole, "owner"}

Invite == [room : Room, exp : Nat]

\* A request in flight: what it has read and what it is about to do.
Idle == [step |-> "idle"]
Signing == [step : {"sign"}, room : Room]
Joining == [step : {"join"}, room : Room, actor : Account]
Removing == [step : {"remove"}, room : Room, target : Account]
Updating == [step : {"update"}, room : Room, target : Account, grant : Grants]
Kicking == [step : {"kick"}, room : Room, target : Account, actorRole : Roles \cup {NoRole}]
Appointing == [step : {"appoint"}, room : Room, target : Account, grant : Grants,
               actorRole : Roles \cup {NoRole}]
Call == Signing \cup Joining \cup Removing \cup Updating \cup Kicking \cup Appointing

TypeOK ==
    /\ role \in [Room -> [Account -> Roles \cup {NoRole}]]
    /\ invite \in SUBSET Invite
    /\ now \in Nat
    /\ req \in [Request -> Call \cup {Idle}]

Founded(r) == \E a \in Account : role[r][a] = "owner"
MembersOf(r) == {a \in Account : role[r][a] # NoRole}

Init ==
    /\ role = [r \in Room |-> [a \in Account |-> NoRole]]
    /\ invite = {}
    /\ now = 0
    /\ req = [p \in Request |-> Idle]

-----------------------------------------------------------------------------
\* Requests: the first SELECT of each use case.

Start(p, call) ==
    /\ req[p] = Idle
    /\ req' = [req EXCEPT ![p] = call]
    /\ UNCHANGED <<role, invite, now>>

\* create_invite: is_member, then the code is signed.
CreateInvite(p, a, r) ==
    /\ role[r][a] # NoRole
    /\ Start(p, [step |-> "sign", room |-> r])

\* Mutant: a code is good for ever.
JoinRoomAnyAge(p, a) ==
    \E code \in invite :
        Start(p, [step |-> "join", room |-> code.room, actor |-> a])

\* join_room: verify_code refuses exp < now, so a code is good at exp itself.
\* The issuer of the code is not looked at, nor who was kicked before.
JoinRoom(p, a) ==
    \E code \in invite :
        /\ code.exp >= now
        /\ Start(p, [step |-> "join", room |-> code.room, actor |-> a])

\* leave_room: role_of and can_leave.
LeaveRoom(p, a, r) ==
    /\ CanLeave(role[r][a])
    /\ Start(p, [step |-> "remove", room |-> r, target |-> a])

\* kick_member and set_member_role: nobody manages himself; the role of the
\* actor is read first, the role of the target by a second SELECT.
KickMember(p, a, r, t) ==
    /\ a # t
    /\ Start(p, [step |-> "kick", room |-> r, target |-> t, actorRole |-> role[r][a]])

SetMemberRole(p, a, r, t, g) ==
    /\ a # t
    /\ Start(p, [step |-> "appoint", room |-> r, target |-> t, grant |-> g,
                 actorRole |-> role[r][a]])

-----------------------------------------------------------------------------
\* The later steps of the requests in flight.

Finish(p) == req' = [req EXCEPT ![p] = Idle]

\* The second SELECT of kick_member and set_member_role, and can_manage.
CheckTarget(p) ==
    LET q == req[p] IN
    /\ q.step \in {"kick", "appoint"}
    /\ IF CanManage(q.actorRole, role[q.room][q.target])
       THEN req' = [req EXCEPT ![p] =
                      IF q.step = "kick"
                      THEN [step |-> "remove", room |-> q.room, target |-> q.target]
                      ELSE [step |-> "update", room |-> q.room, target |-> q.target,
                            grant |-> q.grant]]
       ELSE Finish(p)
    /\ UNCHANGED <<role, invite, now>>

\* sign_code: no row is written, the code itself carries room and expiry.
\* Bound: no code outlives the clock.
SignInvite(p) ==
    /\ req[p].step = "sign"
    /\ now + InviteTTL < MaxNow
    /\ invite' = invite \cup {[room |-> req[p].room, exp |-> now + InviteTTL]}
    /\ Finish(p)
    /\ UNCHANGED <<role, now>>

\* INSERT ... ON CONFLICT DO NOTHING.
AddMember(p) ==
    LET q == req[p] IN
    /\ q.step = "join"
    /\ role' = [role EXCEPT ![q.room][q.actor] = IF @ = NoRole THEN "member" ELSE @]
    /\ Finish(p)
    /\ UNCHANGED <<invite, now>>

\* DELETE ... WHERE room_id AND account_id, of a kick or of a leave.
RemoveMember(p) ==
    LET q == req[p] IN
    /\ q.step = "remove"
    /\ role' = [role EXCEPT ![q.room][q.target] = NoRole]
    /\ Finish(p)
    /\ UNCHANGED <<invite, now>>

\* Mutant: an upsert instead of an update.
SetRoleUpsert(p) ==
    LET q == req[p] IN
    /\ q.step = "update"
    /\ role' = [role EXCEPT ![q.room][q.target] = q.grant]
    /\ Finish(p)
    /\ UNCHANGED <<invite, now>>

\* UPDATE ... SET role: no row, no change.
SetRole(p) ==
    LET q == req[p] IN
    /\ q.step = "update"
    /\ role' = [role EXCEPT ![q.room][q.target] = IF @ = NoRole THEN NoRole ELSE q.grant]
    /\ Finish(p)
    /\ UNCHANGED <<invite, now>>

\* create_room_for_owner, called when an account registers: the id is drawn
\* at random, so it is one that no row has; the owner's row is the first.
CreateRoomForOwner(a, r) ==
    /\ MembersOf(r) = {}
    /\ role' = [role EXCEPT ![r][a] = "owner"]
    /\ UNCHANGED <<invite, now, req>>

\* A statement fails, or the server restarts: the transaction is rolled back.
Abort(p) ==
    /\ req[p] # Idle
    /\ Finish(p)
    /\ UNCHANGED <<role, invite, now>>

Tick ==
    /\ now < MaxNow
    /\ now' = now + 1
    /\ UNCHANGED <<role, invite, req>>

Proceed(p) ==
    \/ CheckTarget(p)
    \/ SignInvite(p)
    \/ AddMember(p)
    \/ RemoveMember(p)
    \/ SetRole(p)

Next ==
    \/ \E p \in Request, a \in Account, r \in Room :
          \/ CreateInvite(p, a, r)
          \/ LeaveRoom(p, a, r)
          \/ \E t \in Account : KickMember(p, a, r, t)
          \/ \E t \in Account, g \in Grants : SetMemberRole(p, a, r, t, g)
    \/ \E p \in Request, a \in Account : JoinRoom(p, a)
    \/ \E p \in Request : Proceed(p) \/ Abort(p)
    \/ \E a \in Account, r \in Room : CreateRoomForOwner(a, r)
    \/ Tick

Spec == Init /\ [][Next]_vars

\* The clock runs, and a request that was accepted is carried out or fails.
Fairness ==
    /\ WF_vars(Tick)
    /\ \A p \in Request : WF_vars(Proceed(p) \/ Abort(p))

FairSpec == Spec /\ Fairness
=============================================================================
