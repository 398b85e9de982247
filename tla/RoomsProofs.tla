----------------------------- MODULE RoomsProofs -----------------------------
(***************************************************************************)
(* The safety properties of Rooms for any number of accounts, rooms and    *)
(* concurrent requests; and those of the chat, which MCRooms puts beside   *)
(* it: that its table keeps the newest messages, and that the reader is    *)
(* shown each once and misses none.                                        *)
(*                                                                         *)
(* OneOwner is not inductive: a request past its check writes without      *)
(* looking again.  What makes the write safe is in the requests, so the    *)
(* invariant that is carried from step to step is IInv, with               *)
(* RequestsStayJustified, the reason why a stale check cannot hurt: the    *)
(* owner of a founded room never changes, so "not the owner" cannot become *)
(* false while a request waits.                                            *)
(***************************************************************************)
EXTENDS MCRooms, FiniteSetTheorems, TLAPS

IInv == TypeOK /\ OneOwner /\ RequestsStayJustified

\* Clearing a slot leaves the type intact.
LEMMA FinishType ==
  ASSUME TypeOK, NEW p \in Request, Finish(p)
  PROVE  req' \in [Request -> Call \cup {Idle}]
  BY DEF Finish, TypeOK

\* The record of a request in flight has the fields its step needs.
LEMMA CallFields ==
  ASSUME NEW q \in Call
  PROVE  /\ q.room \in Room
         /\ q.step \in {"sign", "join", "remove", "update", "kick", "appoint"}
         /\ q.step = "join" => q.actor \in Account
         /\ q.step \in {"remove", "update", "kick", "appoint"} => q.target \in Account
         /\ q.step \in {"update", "appoint"} => q.grant \in Grants
         /\ q.step \in {"kick", "appoint"} => q.actorRole \in Roles \cup {NoRole}
  BY DEF Call, Signing, Joining, Removing, Updating, Kicking, Appointing

\* A slot that is not idle holds a request.
LEMMA StepOfCall ==
  ASSUME TypeOK, NEW p \in Request, req[p].step # "idle"
  PROVE  req[p] \in Call
  BY DEF TypeOK, Idle

\* The types are preserved by every step.
LEMMA TypeInductive == TypeOK /\ [Next]_vars => TypeOK'
<1> SUFFICES ASSUME TypeOK, [Next]_vars PROVE TypeOK'
  OBVIOUS
<1> USE DEF NoRole, Roles, Grants
<1>1. ASSUME NEW p \in Request, NEW call \in Call, Start(p, call) PROVE TypeOK'
  BY <1>1 DEF Start, TypeOK
<1>2. ASSUME NEW p \in Request, NEW a \in Account, NEW r \in Room, CreateInvite(p, a, r)
      PROVE TypeOK'
  <2>1. [step |-> "sign", room |-> r] \in Call
    BY DEF Call, Signing
  <2> QED BY <1>1, <1>2, <2>1 DEF CreateInvite
<1>3. ASSUME NEW p \in Request, NEW a \in Account, JoinRoom(p, a) PROVE TypeOK'
  <2>1. PICK code \in invite : Start(p, [step |-> "join", room |-> code.room, actor |-> a])
    BY <1>3 DEF JoinRoom
  <2>2. [step |-> "join", room |-> code.room, actor |-> a] \in Call
    BY DEF Call, Joining, TypeOK, Invite
  <2> QED BY <1>1, <2>1, <2>2
<1>4. ASSUME NEW p \in Request, NEW a \in Account, NEW r \in Room, LeaveRoom(p, a, r)
      PROVE TypeOK'
  <2>1. [step |-> "remove", room |-> r, target |-> a] \in Call
    BY DEF Call, Removing
  <2> QED BY <1>1, <1>4, <2>1 DEF LeaveRoom
<1>5. ASSUME NEW p \in Request, NEW a \in Account, NEW r \in Room, NEW t \in Account,
             KickMember(p, a, r, t)
      PROVE TypeOK'
  <2>1. [step |-> "kick", room |-> r, target |-> t, actorRole |-> role[r][a]] \in Call
    BY DEF Call, Kicking, TypeOK
  <2> QED BY <1>1, <1>5, <2>1 DEF KickMember
<1>6. ASSUME NEW p \in Request, NEW a \in Account, NEW r \in Room, NEW t \in Account,
             NEW g \in Grants, SetMemberRole(p, a, r, t, g)
      PROVE TypeOK'
  <2>1. [step |-> "appoint", room |-> r, target |-> t, grant |-> g,
         actorRole |-> role[r][a]] \in Call
    BY DEF Call, Appointing, TypeOK
  <2> QED BY <1>1, <1>6, <2>1 DEF SetMemberRole
<1>7. ASSUME NEW p \in Request, CheckTarget(p) PROVE TypeOK'
  <2>1. req[p] \in Call
    BY <1>7, StepOfCall DEF CheckTarget
  <2>2. [step |-> "remove", room |-> req[p].room, target |-> req[p].target] \in Call
    BY <1>7, <2>1, CallFields DEF CheckTarget, Call, Removing
  <2>3. CASE req[p].step = "kick"
    BY <1>7, <2>2, <2>3 DEF CheckTarget, TypeOK, Finish
  <2>4. CASE req[p].step = "appoint"
    <3>1. [step |-> "update", room |-> req[p].room, target |-> req[p].target,
           grant |-> req[p].grant] \in Call
      BY <2>1, <2>4, CallFields DEF Call, Updating
    <3> QED BY <1>7, <2>4, <3>1 DEF CheckTarget, TypeOK, Finish
  <2> QED BY <1>7, <2>3, <2>4 DEF CheckTarget
<1>8. ASSUME NEW p \in Request, SignInvite(p) PROVE TypeOK'
  <2>1. req[p].room \in Room
    BY <1>8, StepOfCall, CallFields DEF SignInvite
  <2>2. [room |-> req[p].room, exp |-> now + InviteTTL] \in Invite
    BY <2>1, InviteTTLAssumption DEF Invite, TypeOK
  <2> QED BY <1>8, <2>2, FinishType DEF SignInvite, TypeOK
<1>9. ASSUME NEW p \in Request, AddMember(p) \/ RemoveMember(p) \/ SetRole(p) PROVE TypeOK'
  <2>1. req[p] \in Call
    BY <1>9, StepOfCall DEF AddMember, RemoveMember, SetRole
  <2>2. role' \in [Room -> [Account -> Roles \cup {NoRole}]]
    <3>1. CASE AddMember(p)
      BY <3>1, <2>1, CallFields DEF AddMember, TypeOK
    <3>2. CASE RemoveMember(p)
      BY <3>2, <2>1, CallFields DEF RemoveMember, TypeOK
    <3>3. CASE SetRole(p)
      BY <3>3, <2>1, CallFields DEF SetRole, TypeOK
    <3> QED BY <1>9, <3>1, <3>2, <3>3
  <2> QED BY <1>9, <2>2, FinishType DEF AddMember, RemoveMember, SetRole, TypeOK
<1>10. ASSUME NEW p \in Request, Abort(p) PROVE TypeOK'
  BY <1>10, FinishType DEF Abort, TypeOK
<1>11. ASSUME NEW a \in Account, NEW r \in Room, CreateRoomForOwner(a, r) PROVE TypeOK'
  BY <1>11 DEF CreateRoomForOwner, TypeOK
<1>12. CASE Tick
  BY <1>12 DEF Tick, TypeOK
<1>13. CASE UNCHANGED vars
  BY <1>13 DEF vars, TypeOK
<1> QED
  BY <1>2, <1>3, <1>4, <1>5, <1>6, <1>7, <1>8, <1>9, <1>10, <1>11, <1>12, <1>13
     DEF Next, Proceed

\* TypeOK of every run, for every value of the constants.
THEOREM RoomsTypeOK == Spec => []TypeOK
<1>1. Init => TypeOK
  BY DEF Init, TypeOK, Call, Idle
<1> QED BY <1>1, TypeInductive, PTL DEF Spec

-----------------------------------------------------------------------------
\* Every step of Rooms is a step of Membership or leaves the table alone.
LEMMA StepRefines == IInv /\ [Next]_vars => [M!Next]_role
<1> SUFFICES ASSUME IInv, [Next]_vars, role' # role PROVE M!Next
  OBVIOUS
<1> USE DEF IInv, NoRole, Roles, Grants
<1>1. ASSUME NEW p \in Request, AddMember(p) PROVE M!Next
  <2>1. req[p] \in Call /\ req[p].step = "join"
    BY <1>1, StepOfCall DEF AddMember
  <2> DEFINE r == req[p].room
             a == req[p].actor
  <2>2. r \in Room /\ a \in Account /\ Founded(r)
    BY <2>1, CallFields DEF RequestsStayJustified
  <2>3. role[r][a] = NoRole
    BY <1>1, <2>2 DEF AddMember, TypeOK
  <2>4. M!Enter(r, a)
    BY <1>1, <2>2, <2>3 DEF AddMember, TypeOK, M!Enter, M!Founded, M!NoRole, Founded
  <2> QED BY <2>2, <2>4 DEF M!Next
<1>2. ASSUME NEW p \in Request, RemoveMember(p) PROVE M!Next
  <2>1. req[p] \in Call /\ req[p].step = "remove"
    BY <1>2, StepOfCall DEF RemoveMember
  <2> DEFINE r == req[p].room
             t == req[p].target
  <2>2. r \in Room /\ t \in Account /\ role[r][t] # "owner"
    BY <2>1, CallFields DEF RequestsStayJustified
  <2>3. role[r][t] # NoRole
    BY <1>2, <2>2 DEF RemoveMember, TypeOK
  <2>4. M!Exit(r, t)
    BY <1>2, <2>2, <2>3 DEF RemoveMember, TypeOK, M!Exit, M!NoRole
  <2> QED BY <2>2, <2>4 DEF M!Next
<1>3. ASSUME NEW p \in Request, SetRole(p) PROVE M!Next
  <2>1. req[p] \in Call /\ req[p].step = "update"
    BY <1>3, StepOfCall DEF SetRole
  <2> DEFINE r == req[p].room
             t == req[p].target
             g == req[p].grant
  <2>2. r \in Room /\ t \in Account /\ g \in Grants /\ role[r][t] # "owner"
    BY <2>1, CallFields DEF RequestsStayJustified
  <2>3. role[r][t] # NoRole
    BY <1>3, <2>2 DEF SetRole, TypeOK
  <2>4. M!Appoint(r, t, g)
    BY <1>3, <2>2, <2>3 DEF SetRole, TypeOK, M!Appoint
  <2> QED BY <2>2, <2>4 DEF M!Next
<1>4. ASSUME NEW a \in Account, NEW r \in Room, CreateRoomForOwner(a, r) PROVE M!Next
  <2>1. M!Found(r, a)
    BY <1>4 DEF CreateRoomForOwner, M!Found, M!MembersOf, MembersOf, M!NoRole
  <2> QED BY <2>1 DEF M!Next
<1> QED
  BY <1>1, <1>2, <1>3, <1>4
     DEF Next, vars, Proceed, Start, CreateInvite, JoinRoom, LeaveRoom, KickMember,
         SetMemberRole, CheckTarget, SignInvite, Abort, Tick

\* An owner stays, and a new owner can only be that of a room without members.
LEMMA OwnersOnlyFounded ==
  ASSUME IInv, [Next]_vars, NEW r \in Room, NEW a \in Account
  PROVE  /\ role[r][a] = "owner" => role'[r][a] = "owner"
         /\ role'[r][a] = "owner" => role[r][a] = "owner" \/ MembersOf(r) = {}
<1>1. [M!Next]_role
  BY StepRefines
<1>2. CASE role' = role
  BY <1>2
<1>3. ASSUME NEW r1 \in Room, NEW a1 \in Account, M!Found(r1, a1)
      PROVE  /\ role[r][a] = "owner" => role'[r][a] = "owner"
             /\ role'[r][a] = "owner" => role[r][a] = "owner" \/ MembersOf(r) = {}
  BY <1>3 DEF M!Found, M!MembersOf, MembersOf, M!NoRole, NoRole, IInv, TypeOK
<1>4. ASSUME NEW r1 \in Room, NEW a1 \in Account,
             M!Enter(r1, a1) \/ M!Exit(r1, a1)
                \/ \E as \in {"admin", "member"} : M!Appoint(r1, a1, as)
      PROVE  role[r][a] = "owner" <=> role'[r][a] = "owner"
  BY <1>4 DEF M!Enter, M!Exit, M!Appoint, M!NoRole, IInv, TypeOK
<1> QED BY <1>1, <1>2, <1>3, <1>4 DEF M!Next

\* A founded room stays founded, and a member of it who is not the owner does
\* not become the owner.
LEMMA FoundedStays ==
  ASSUME IInv, [Next]_vars, NEW r \in Room, Founded(r)
  PROVE  /\ Founded(r)'
         /\ \A a \in Account : role[r][a] # "owner" => role'[r][a] # "owner"
<1>1. MembersOf(r) # {}
  BY DEF Founded, MembersOf, NoRole
<1>2. Founded(r)'
  BY OwnersOnlyFounded DEF Founded
<1> QED BY <1>1, <1>2, OwnersOnlyFounded

LEMMA OneOwnerInductive == IInv /\ [Next]_vars => OneOwner'
<1> SUFFICES ASSUME IInv, [Next]_vars, NEW r \in Room
             PROVE  /\ MembersOf(r)' # {} => Founded(r)'
                    /\ \A a, b \in Account : role'[r][a] = "owner" /\ role'[r][b] = "owner" => a = b
  BY DEF OneOwner
<1>1. [M!Next]_role
  BY StepRefines
<1>2. CASE Founded(r)
  BY <1>2, FoundedStays DEF OneOwner, IInv
<1>3. CASE ~Founded(r)
  <2>1. MembersOf(r) = {}
    BY <1>3 DEF OneOwner, IInv
  <2>2. \A a \in Account : role[r][a] = NoRole
    BY <2>1 DEF MembersOf
  <2>3. CASE \E a \in Account : M!Found(r, a)
    BY <2>2, <2>3 DEF M!Found, Founded, NoRole, IInv, TypeOK
  <2>4. CASE ~ \E a \in Account : M!Found(r, a)
    <3>1. role'[r] = role[r]
      BY <1>1, <1>3, <2>2, <2>4
         DEF M!Next, M!Found, M!Enter, M!Exit, M!Appoint, M!Founded, Founded, NoRole, IInv, TypeOK
    <3> QED BY <2>2, <3>1 DEF MembersOf, NoRole
  <2> QED BY <2>3, <2>4
<1> QED BY <1>2, <1>3

\* What RequestsStayJustified says of one request.
Justified(p) ==
    LET q == req[p] IN
    /\ q.step \in {"sign", "join"} => Founded(q.room)
    /\ q.step \in {"kick", "appoint"} /\ q.actorRole \in ManagerRoles => Founded(q.room)
    /\ q.step \in {"remove", "update"} => Founded(q.room) /\ role[q.room][q.target] # "owner"

\* A request that waits keeps its justification.
LEMMA WaitingStaysJustified ==
  ASSUME IInv, [Next]_vars, NEW p \in Request, req'[p] = req[p]
  PROVE  Justified(p)'
<1>1. CASE req[p].step = "idle"
  BY <1>1 DEF Justified
<1>2. CASE req[p].step # "idle"
  <2>1. req[p] \in Call /\ Justified(p)
    BY <1>2, StepOfCall DEF IInv, RequestsStayJustified, Justified
  <2>2. req[p].room \in Room
    BY <2>1, CallFields
  <2>3. Founded(req[p].room) => Founded(req[p].room)'
    BY <2>2, FoundedStays
  <2>4. ASSUME req[p].step \in {"remove", "update"} PROVE role'[req[p].room][req[p].target] # "owner"
    <3>1. req[p].target \in Account
      BY <2>1, <2>4, CallFields
    <3> QED BY <2>1, <2>2, <2>4, <3>1, FoundedStays DEF Justified
  <2> QED BY <2>1, <2>3, <2>4 DEF Justified, Founded
<1> QED BY <1>1, <1>2

\* A request that has just been accepted, or has just passed its second check,
\* is justified by what was read in that very step.
LEMMA NewCallJustified ==
  ASSUME IInv, [Next]_vars, NEW p \in Request, req'[p] # req[p]
  PROVE  Justified(p)'
<1> USE DEF NoRole, Roles, IInv
<1>1. ASSUME req'[p] = Idle PROVE Justified(p)'
  BY <1>1 DEF Justified, Idle
<1>2. ASSUME NEW a \in Account, NEW r \in Room, role[r][a] # NoRole PROVE Founded(r)
  BY <1>2 DEF OneOwner, MembersOf
<1>3. ASSUME NEW a \in Account, NEW r \in Room, CreateInvite(p, a, r) PROVE Justified(p)'
  <2>1. req'[p] = [step |-> "sign", room |-> r] /\ role' = role
    BY <1>3 DEF CreateInvite, Start, TypeOK
  <2> QED BY <1>2, <1>3, <2>1 DEF Justified, CreateInvite, Founded
<1>4. ASSUME NEW a \in Account, JoinRoom(p, a) PROVE Justified(p)'
  <2>1. PICK code \in invite : Start(p, [step |-> "join", room |-> code.room, actor |-> a])
    BY <1>4 DEF JoinRoom
  <2>2. req'[p] = [step |-> "join", room |-> code.room, actor |-> a] /\ role' = role
    BY <2>1 DEF Start, TypeOK
  <2> QED BY <2>2 DEF Justified, RequestsStayJustified, Founded
<1>5. ASSUME NEW a \in Account, NEW r \in Room, LeaveRoom(p, a, r) PROVE Justified(p)'
  <2>1. req'[p] = [step |-> "remove", room |-> r, target |-> a] /\ role' = role
    BY <1>5 DEF LeaveRoom, Start, TypeOK
  <2> QED BY <1>2, <1>5, <2>1 DEF Justified, LeaveRoom, CanLeave, Founded
<1>6. ASSUME NEW a \in Account, NEW r \in Room, NEW t \in Account, KickMember(p, a, r, t)
      PROVE  Justified(p)'
  <2>1. /\ req'[p] = [step |-> "kick", room |-> r, target |-> t, actorRole |-> role[r][a]]
        /\ role' = role
    BY <1>6 DEF KickMember, Start, TypeOK
  <2> QED BY <1>2, <2>1 DEF Justified, ManagerRoles, Founded
<1>7. ASSUME NEW a \in Account, NEW r \in Room, NEW t \in Account, NEW g \in Grants,
             SetMemberRole(p, a, r, t, g)
      PROVE  Justified(p)'
  <2>1. /\ req'[p] = [step |-> "appoint", room |-> r, target |-> t, grant |-> g,
                      actorRole |-> role[r][a]]
        /\ role' = role
    BY <1>7 DEF SetMemberRole, Start, TypeOK
  <2> QED BY <1>2, <2>1 DEF Justified, ManagerRoles, Founded
<1>8. ASSUME CheckTarget(p) PROVE Justified(p)'
  <2> DEFINE q == req[p]
  <2>1. CASE CanManage(q.actorRole, role[q.room][q.target])
    <3>1. Founded(q.room) /\ role[q.room][q.target] # "owner" /\ role' = role
      BY <1>8, <2>1 DEF CheckTarget, CanManage, RequestsStayJustified
    <3>2. \/ req'[p] = [step |-> "remove", room |-> q.room, target |-> q.target]
          \/ req'[p] = [step |-> "update", room |-> q.room, target |-> q.target, grant |-> q.grant]
      BY <1>8, <2>1 DEF CheckTarget, TypeOK
    <3> QED BY <3>1, <3>2 DEF Justified, Founded
  <2>2. CASE ~CanManage(q.actorRole, role[q.room][q.target])
    BY <1>1, <1>8, <2>2 DEF CheckTarget, Finish, TypeOK
  <2> QED BY <2>1, <2>2
<1>9. ASSUME SignInvite(p) \/ AddMember(p) \/ RemoveMember(p) \/ SetRole(p) \/ Abort(p)
      PROVE  Justified(p)'
  BY <1>1, <1>9 DEF SignInvite, AddMember, RemoveMember, SetRole, Abort, Finish, TypeOK
<1>10. ASSUME NEW p1 \in Request, Proceed(p1) \/ Abort(p1) PROVE p1 = p
  BY <1>10 DEF Proceed, CheckTarget, SignInvite, AddMember, RemoveMember, SetRole, Abort,
               Finish, TypeOK
<1>11. ASSUME NEW p1 \in Request, NEW call, Start(p1, call) PROVE p1 = p
  BY <1>11 DEF Start, TypeOK
<1>12. ASSUME NEW p1 \in Request, NEW a \in Account, NEW r \in Room,
              \/ CreateInvite(p1, a, r)
              \/ LeaveRoom(p1, a, r)
              \/ \E t \in Account : KickMember(p1, a, r, t)
              \/ \E t \in Account, g \in Grants : SetMemberRole(p1, a, r, t, g)
       PROVE  Justified(p)'
  <2>1. p1 = p
    BY <1>11, <1>12 DEF CreateInvite, LeaveRoom, KickMember, SetMemberRole
  <2> QED BY <1>3, <1>5, <1>6, <1>7, <1>12, <2>1
<1>13. ASSUME NEW p1 \in Request, NEW a \in Account, JoinRoom(p1, a) PROVE Justified(p)'
  <2>1. p1 = p
    BY <1>11, <1>13 DEF JoinRoom
  <2> QED BY <1>4, <1>13, <2>1
<1>14. ASSUME NEW p1 \in Request, Proceed(p1) \/ Abort(p1) PROVE Justified(p)'
  BY <1>8, <1>9, <1>10, <1>14 DEF Proceed
<1>15. req' # req
  OBVIOUS
<1> QED
  BY <1>12, <1>13, <1>14, <1>15 DEF Next, CreateRoomForOwner, Tick, vars

LEMMA CodesStayFounded ==
  ASSUME IInv, [Next]_vars
  PROVE  \A code \in invite' : Founded(code.room)'
<1> USE DEF IInv
<1>1. ASSUME NEW code \in invite PROVE Founded(code.room)'
  BY <1>1, FoundedStays DEF RequestsStayJustified, TypeOK, Invite
<1>2. ASSUME NEW p \in Request, SignInvite(p) PROVE \A code \in invite' : Founded(code.room)'
  <2>1. req[p].room \in Room /\ Founded(req[p].room)
    BY <1>2, StepOfCall, CallFields DEF SignInvite, RequestsStayJustified
  <2>2. invite' = invite \cup {[room |-> req[p].room, exp |-> now + InviteTTL]}
    BY <1>2 DEF SignInvite
  <2> QED BY <1>1, <2>1, <2>2, FoundedStays
<1>3. CASE invite' = invite
  BY <1>1, <1>3
<1> QED
  BY <1>2, <1>3
     DEF Next, Proceed, CreateInvite, JoinRoom, LeaveRoom, KickMember, SetMemberRole,
         CheckTarget, AddMember, RemoveMember, SetRole, Abort, Start, CreateRoomForOwner,
         Tick, vars

LEMMA JustifiedInductive == IInv /\ [Next]_vars => RequestsStayJustified'
<1> SUFFICES ASSUME IInv, [Next]_vars PROVE RequestsStayJustified'
  OBVIOUS
<1>1. \A p \in Request : Justified(p)'
  BY WaitingStaysJustified, NewCallJustified
<1> QED BY <1>1, CodesStayFounded DEF RequestsStayJustified, Justified, Founded

-----------------------------------------------------------------------------
\* The inductive invariant.
LEMMA IInvHolds == Spec => []IInv
<1>1. Init => IInv
  BY DEF Init, IInv, TypeOK, OneOwner, RequestsStayJustified, MembersOf, Founded, NoRole,
         Idle, Roles, Call
<1>2. IInv /\ [Next]_vars => IInv'
  BY TypeInductive, OneOwnerInductive, JustifiedInductive DEF IInv
<1> QED BY <1>1, <1>2, PTL DEF Spec

\* Whatever the number of requests in flight, a room has exactly one owner.
THEOREM RoomsOneOwner == Spec => []OneOwner
<1>1. IInv => OneOwner
  BY DEF IInv
<1> QED BY <1>1, IInvHolds, PTL

\* The checks of a request in flight stay good enough until it writes.
THEOREM RoomsRequestsStayJustified == Spec => []RequestsStayJustified
<1>1. IInv => RequestsStayJustified
  BY DEF IInv
<1> QED BY <1>1, IInvHolds, PTL

\* The requests, with their reads and writes apart, implement the table that
\* changes one atomic step at a time.
THEOREM RoomsImplementMembership == Spec => ImplementsMembership
<1>1. Init => M!Init
  BY DEF Init, M!Init, NoRole, M!NoRole
<1>2. IInv /\ [Next]_vars => [M!Next]_role
  BY StepRefines
<1> QED BY <1>1, <1>2, IInvHolds, PTL DEF Spec, ImplementsMembership, M!Spec

-----------------------------------------------------------------------------
(* The chat: the table keeps the newest messages of a conversation.  What a *)
(* transaction is going to delete was doomed when it looked, and others may *)
(* delete and add in the meantime; it stays doomed, since of all that goes  *)
(* with somebody else's DELETE the newest has Limit newer ones that stay.   *)

\* The messages of the conversation that are newer.
Newer(rows, m) == {o \in rows : C!Conversation(o) = C!Conversation(m) /\ o.at > m.at}

Outdated(rows, m) == m.at \in Nat /\ Cardinality(Newer(rows, m)) >= C!Limit(C!Conversation(m))

Stamped(m) == m.at \in Nat /\ m.at <= MaxMessages

ChatInv ==
    /\ clock \in Nat /\ clock <= MaxMessages
    /\ IsFiniteSet(table) /\ \A m \in table : Stamped(m)
    /\ writing = [a \in Writer |-> writing[a]]
    /\ \A a \in Writer : writing[a].stage \in {"inserted", "pruned"} =>
          /\ writing[a] = [stage |-> writing[a].stage, msg |-> writing[a].msg,
                           doomed |-> writing[a].doomed]
          /\ Stamped(writing[a].msg)
    /\ \A a \in Writer : writing[a].stage = "pruned" =>
          \A m \in writing[a].doomed : Outdated(table \cup {writing[a].msg}, m)

LEMMA ChatCardinality == \A set : C!Cardinality(set) = Cardinality(set)
  BY DEF C!Cardinality, Cardinality

LEMMA LimitsAreCounted == \A c : C!Limit(c) \in Nat
  BY ChatAssumption DEF C!LimitsAssumption, C!Limit

\* Of some numbers one is the first.
LEMMA FirstOf ==
  ASSUME NEW some, some \subseteq Nat, some # {}
  PROVE  \E x \in some : \A y \in some : x <= y
<1>1. PICK least \in some : \A y \in some : ~ (<<y, least>> \in OpToRel(<, Nat))
  BY NatLessThanWellFounded, WFMin
<1>2. \A y \in Nat, z \in Nat : y < z => <<y, z>> \in OpToRel(<, Nat)
  BY DEF OpToRel
<1>3. least \in Nat /\ \A y \in some : y \in Nat /\ ~ (y < least)
  BY <1>1, <1>2
<1> QED
  BY <1>3

\* Of some messages one is the newest.
LEMMA NewestOfSome ==
  ASSUME NEW some, some # {}, \A m \in some : Stamped(m)
  PROVE  \E x \in some : \A m \in some : m.at <= x.at
<1> DEFINE ages == {MaxMessages - m.at : m \in some}
<1>1. MaxMessages \in Nat
  BY ChatAssumption DEF C!BoundsAssumption
<1>2. ages \subseteq Nat /\ ages # {}
  BY <1>1 DEF Stamped
<1>3. PICK least \in ages : \A y \in ages : least <= y
  <2> HIDE DEF ages
  <2> QED
    BY <1>2, FirstOf
<1>4. PICK x \in some : least = MaxMessages - x.at
  BY <1>3
<1>5. ASSUME NEW m \in some PROVE m.at <= x.at
  <2>1. least <= MaxMessages - m.at
    BY <1>3
  <2>2. m.at \in Nat /\ x.at \in Nat
    BY DEF Stamped
  <2> QED
    BY <1>1, <1>4, <2>1, <2>2
<1> QED
  BY <1>5

LEMMA MoreRows ==
  ASSUME NEW rows, NEW more, IsFiniteSet(more), rows \subseteq more, NEW m, Outdated(rows, m)
  PROVE  Outdated(more, m)
<1>1. Newer(rows, m) \subseteq Newer(more, m) /\ Newer(more, m) \subseteq more
  BY DEF Newer
<1>2. IsFiniteSet(Newer(more, m))
  BY <1>1, FS_Subset
<1>3. IsFiniteSet(Newer(rows, m)) /\ Cardinality(Newer(rows, m)) <= Cardinality(Newer(more, m))
  BY <1>1, <1>2, FS_Subset
<1> QED
  BY <1>2, <1>3, FS_CardinalityType, LimitsAreCounted DEF Outdated

\* When all that go have Limit newer ones, those that stay are enough.
LEMMA StayOutdated ==
  ASSUME NEW rows, IsFiniteSet(rows), \A o \in rows : Stamped(o),
         NEW gone, \A x \in gone : Outdated(rows, x), NEW m, Outdated(rows, m)
  PROVE  Outdated(rows \ gone, m)
<1> DEFINE going == Newer(rows, m) \cap gone
<1>1. CASE going = {}
  <2>1. Newer(rows \ gone, m) = Newer(rows, m)
    BY <1>1 DEF Newer
  <2> QED
    BY <2>1 DEF Outdated
<1>2. CASE going # {}
  <2>1. PICK x \in going : \A o \in going : o.at <= x.at
    <3>1. \A o \in going : Stamped(o)
      BY DEF Newer
    <3> QED
      BY <1>2, <3>1, NewestOfSome
  <2>2. /\ C!Conversation(x) = C!Conversation(m) /\ x.at > m.at
        /\ x.at \in Nat /\ m.at \in Nat /\ Outdated(rows, x)
    BY <2>1 DEF Newer, Outdated
  <2>3. Newer(rows, x) \subseteq Newer(rows \ gone, m)
    <3> SUFFICES ASSUME NEW o \in Newer(rows, x) PROVE o \in Newer(rows \ gone, m)
      OBVIOUS
    <3>1. o \in rows /\ C!Conversation(o) = C!Conversation(m) /\ o.at > x.at /\ o.at \in Nat
      BY <2>2 DEF Newer, Stamped
    <3>2. o \in Newer(rows, m)
      BY <2>2, <3>1 DEF Newer
    <3>3. o \notin gone
      BY <2>1, <2>2, <3>1, <3>2
    <3> QED
      BY <3>1, <3>2, <3>3 DEF Newer
  <2>4. Newer(rows \ gone, m) \subseteq rows
    BY DEF Newer
  <2>5. IsFiniteSet(Newer(rows \ gone, m))
    BY <2>4, FS_Subset
  <2>6. IsFiniteSet(Newer(rows, x)) /\ Cardinality(Newer(rows, x)) <= Cardinality(Newer(rows \ gone, m))
    BY <2>3, <2>5, FS_Subset
  <2> QED
    BY <2>2, <2>5, <2>6, FS_CardinalityType, LimitsAreCounted DEF Outdated
<1> QED
  BY <1>1, <1>2

\* What the DELETE takes away has Limit newer ones among the rows it sees.
LEMMA DoomedAreOutdated ==
  ASSUME NEW rows, IsFiniteSet(rows), \A o \in rows : Stamped(o), NEW c,
         NEW m \in C!Doomed(rows, c)
  PROVE  Outdated(rows, m)
<1>1. m \in rows /\ C!Conversation(m) = c /\ m.at \in Nat
  BY DEF C!Doomed, Stamped
<1>2. Newer(rows, m) = {o \in rows : C!Conversation(o) = c /\ o.at > m.at}
  BY <1>1 DEF Newer
<1>3. ~(Cardinality(Newer(rows, m)) < C!Limit(c))
  BY <1>1, <1>2, ChatCardinality DEF C!Doomed, C!Newest
<1>4. IsFiniteSet(Newer(rows, m))
  <2>1. Newer(rows, m) \subseteq rows
    BY DEF Newer
  <2> QED
    BY <2>1, FS_Subset
<1> QED
  BY <1>1, <1>3, <1>4, FS_CardinalityType, LimitsAreCounted DEF Outdated

\* The rows a commit leaves.
LEMMA CommitLeaves ==
  ASSUME ChatInv, NEW b \in Writer, C!Commit(b)
  PROVE  /\ IsFiniteSet(table') /\ \A m \in table' : Stamped(m)
         /\ \A m \in writing[b].doomed : Outdated(table', m)
         /\ \A a \in Writer \ {b} : writing[a].stage = "pruned" =>
               \A m \in writing[a].doomed : Outdated(table' \cup {writing[a].msg}, m)
<1> DEFINE rows == table \cup {writing[b].msg}
           gone == writing[b].doomed
<1>1. writing[b].stage = "pruned" /\ table' = rows \ gone
  BY DEF C!Commit
<1>2. IsFiniteSet(rows) /\ \A m \in rows : Stamped(m)
  BY <1>1, FS_AddElement DEF ChatInv
<1>3. \A x \in gone : Outdated(rows, x)
  BY <1>1 DEF ChatInv
<1>4. IsFiniteSet(table') /\ \A m \in table' : Stamped(m)
  <2>1. rows \ gone \subseteq rows
    OBVIOUS
  <2> QED
    BY <1>1, <1>2, <2>1, FS_Subset
<1>5. \A m \in gone : Outdated(table', m)
  BY <1>1, <1>2, <1>3, StayOutdated
<1>6. ASSUME NEW a \in Writer \ {b}, writing[a].stage = "pruned", NEW m \in writing[a].doomed
      PROVE  Outdated(table' \cup {writing[a].msg}, m)
  <2> DEFINE both == rows \cup {writing[a].msg}
  <2>1. IsFiniteSet(both) /\ \A o \in both : Stamped(o)
    BY <1>2, <1>6, FS_AddElement DEF ChatInv
  <2>2. \A x \in gone : Outdated(both, x)
    BY <1>3, <2>1, MoreRows
  <2>3. Outdated(both, m)
    <3>1. Outdated(table \cup {writing[a].msg}, m)
      BY <1>6 DEF ChatInv
    <3>2. table \cup {writing[a].msg} \subseteq both
      OBVIOUS
    <3> QED
      BY <2>1, <3>1, <3>2, MoreRows
  <2>4. Outdated(both \ gone, m)
    BY <2>1, <2>2, <2>3, StayOutdated
  <2>5. both \ gone \subseteq table' \cup {writing[a].msg} /\ IsFiniteSet(table' \cup {writing[a].msg})
    BY <1>1, <1>4, FS_AddElement
  <2> QED
    BY <2>4, <2>5, MoreRows
<1> QED
  BY <1>4, <1>5, <1>6

LEMMA ChatInvHolds == C!Spec => []ChatInv
<1>1. C!Init => ChatInv
  <2> SUFFICES ASSUME C!Init PROVE ChatInv
    OBVIOUS
  <2>1. MaxMessages \in Nat
    BY ChatAssumption DEF C!BoundsAssumption
  <2> QED
    BY <2>1, FS_EmptySet DEF C!Init, C!Idle, ChatInv
<1>2. ChatInv /\ [C!Next]_C!vars => ChatInv'
  <2> SUFFICES ASSUME ChatInv, [C!Next]_C!vars PROVE ChatInv'
    OBVIOUS
  <2>1. ASSUME NEW a \in Writer, NEW to, C!Insert(a, to) PROVE ChatInv'
    <3> DEFINE m == [from |-> a, to |-> to, at |-> clock + 1]
    <3>1. /\ writing' = [writing EXCEPT ![a] = [stage |-> "inserted", msg |-> m, doomed |-> {}]]
          /\ clock < MaxMessages /\ clock' = clock + 1 /\ table' = table
      BY <2>1 DEF C!Insert
    <3>2. MaxMessages \in Nat
      BY ChatAssumption DEF C!BoundsAssumption
    <3>3. Stamped(m)
      BY <3>1, <3>2 DEF ChatInv, Stamped
    <3>4. /\ writing'[a] = [stage |-> "inserted", msg |-> m, doomed |-> {}]
          /\ \A b \in Writer \ {a} : writing'[b] = writing[b]
          /\ writing' = [b \in Writer |-> writing'[b]]
      BY <3>1 DEF ChatInv
    <3>5. writing'[a].msg = m /\ writing'[a].stage = "inserted" /\ writing'[a].doomed = {}
      BY <3>4
    <3>6. clock' \in Nat /\ clock' <= MaxMessages
      BY <3>1, <3>2 DEF ChatInv
    <3> HIDE DEF m
    <3> QED
      BY <3>1, <3>3, <3>4, <3>5, <3>6 DEF ChatInv
  <2>2. ASSUME NEW a \in Writer, C!Prune(a) PROVE ChatInv'
    <3> DEFINE m == writing[a].msg
               doomed == C!Doomed(table \cup {m}, C!Conversation(m))
    <3>1. /\ writing[a].stage = "inserted" /\ UNCHANGED <<clock, table>>
          /\ writing' = [writing EXCEPT ![a].stage = "pruned", ![a].doomed = doomed]
      BY <2>2 DEF C!Prune
    <3>2. /\ writing[a] = [stage |-> "inserted", msg |-> m, doomed |-> writing[a].doomed]
          /\ Stamped(m)
      BY <3>1 DEF ChatInv
    <3>3. /\ writing'[a] = [stage |-> "pruned", msg |-> m, doomed |-> doomed]
          /\ \A b \in Writer \ {a} : writing'[b] = writing[b]
          /\ writing' = [b \in Writer |-> writing'[b]]
      BY <3>1, <3>2 DEF ChatInv
    <3>4. \A x \in doomed : Outdated(table \cup {m}, x)
      <4>1. IsFiniteSet(table \cup {m}) /\ \A o \in table \cup {m} : Stamped(o)
        BY <3>2, FS_AddElement DEF ChatInv
      <4> QED
        BY <4>1, DoomedAreOutdated
    <3> HIDE DEF m, doomed
    <3> QED
      BY <3>1, <3>2, <3>3, <3>4 DEF ChatInv
  <2>3. ASSUME NEW b \in Writer, C!Commit(b) PROVE ChatInv'
    <3>1. /\ UNCHANGED clock
          /\ writing' = [writing EXCEPT ![b] = [stage |-> "stored", msg |-> writing[b].msg]]
      BY <2>3 DEF C!Commit
    <3>2. /\ writing'[b].stage = "stored"
          /\ \A a \in Writer \ {b} : writing'[a] = writing[a]
          /\ writing' = [a \in Writer |-> writing'[a]]
      BY <3>1 DEF ChatInv
    <3> QED
      BY <2>3, <3>1, <3>2, CommitLeaves DEF ChatInv
  <2>4. ASSUME NEW a \in Writer, C!Abort(a) \/ C!Deliver(a) PROVE ChatInv'
    <3>1. UNCHANGED <<clock, table>> /\ writing' = [writing EXCEPT ![a] = C!Idle]
      BY <2>4 DEF C!Abort, C!Deliver
    <3>2. /\ writing'[a].stage = "idle"
          /\ \A b \in Writer \ {a} : writing'[b] = writing[b]
          /\ writing' = [b \in Writer |-> writing'[b]]
      BY <3>1 DEF ChatInv, C!Idle
    <3> QED
      BY <3>1, <3>2 DEF ChatInv
  <2>5. CASE C!Restart
    <3>1. /\ UNCHANGED <<clock, table>>
          /\ writing' = [a \in Writer |-> [stage |-> "idle"]]
      BY <2>5 DEF C!Restart, C!Idle
    <3> QED
      BY <3>1 DEF ChatInv
  <2>6. CASE UNCHANGED <<clock, writing, table>>
    BY <2>6 DEF ChatInv
  <2> QED
    BY <2>1, <2>2, <2>3, <2>4, <2>5, <2>6
       DEF C!Next, C!vars, C!Subscribe, C!Cut, C!ReadGroup, C!ReadDms, C!FetchFails,
           C!LoadHistory, C!Ingest
<1> QED
  BY <1>1, <1>2, PTL DEF C!Spec

\* However transactions overlap, commit out of the order of their stamps or are
\* rolled back, what leaves the table has Limit newer messages of its conversation
\* there (add of the chats' repository).
THEOREM ChatNewestStay == C!Spec => NewestStay
<1>1. ChatInv /\ [C!Next]_C!vars =>
        (\A m \in table \ table' :
            C!Cardinality({o \in table' : C!Conversation(o) = C!Conversation(m) /\ o.at > m.at})
               >= C!Limit(C!Conversation(m)))
  <2> SUFFICES ASSUME ChatInv, [C!Next]_C!vars, NEW m \in table \ table'
               PROVE  Cardinality(Newer(table', m)) >= C!Limit(C!Conversation(m))
    BY ChatCardinality DEF Newer
  <2>1. PICK b \in Writer : C!Commit(b)
    BY DEF C!Next, C!vars, C!Insert, C!Prune, C!Abort, C!Deliver, C!Restart, C!Subscribe, C!Cut,
           C!ReadGroup, C!ReadDms, C!FetchFails, C!LoadHistory, C!Ingest
  <2>2. m \in writing[b].doomed
    BY <2>1 DEF C!Commit
  <2> QED
    BY <2>1, <2>2, CommitLeaves DEF Outdated
<1> QED
  BY <1>1, ChatInvHolds, PTL DEF C!Spec, NewestStay, C!NewestStay

-----------------------------------------------------------------------------
(* What the reader sees: first the functions of the model.  A stable sort    *)
(* always finds an order, so ByAt only moves the messages of a log; a finite *)
(* set of rows can be put in a row; and the loop of LoadHistory, which is a  *)
(* recursive function, does at each round what Put does.                     *)

\* Counting reaches every number.
LEMMA Counting ==
  ASSUME NEW reached, 0 \in reached, \A n \in Nat : n \in reached => n + 1 \in reached
  PROVE  Nat \subseteq reached
<1> SUFFICES ASSUME Nat \ reached # {} PROVE FALSE
  OBVIOUS
<1>1. PICK x \in Nat \ reached : \A y \in Nat \ reached : x <= y
  <2>1. Nat \ reached \subseteq Nat
    OBVIOUS
  <2> QED
    BY <2>1, FirstOf
<1>2. x \in Nat /\ x # 0 /\ x \notin reached
  BY <1>1
<1>3. x - 1 \in Nat /\ ~ (x <= x - 1) /\ (x - 1) + 1 = x
  BY <1>2
<1>4. x - 1 \in reached
  BY <1>1, <1>3
<1> QED
  BY <1>2, <1>3, <1>4

\* Whether the i-th of some times comes before the j-th in a stable sort.
Sooner(at, i, j) == at[i] < at[j] \/ (at[i] = at[j] /\ i < j)

\* p lists the first n of some times in that order.
Lists(at, n, p) ==
    /\ p \in [1 .. n -> 1 .. n]
    /\ \A w \in 1 .. n : \E v \in 1 .. n : p[v] = w
    /\ \A i, j \in 1 .. n : i < j => Sooner(at, p[i], p[j])

\* One more is put where it belongs: an insertion sort.
LEMMA InsertionSort ==
  ASSUME NEW n \in Nat, NEW at \in [1 .. n + 1 -> Nat], NEW p, Lists(at, n, p)
  PROVE  \E r : Lists(at, n + 1, r)
<1> DEFINE later == {k \in 1 .. n + 1 : k = n + 1 \/ at[p[k]] > at[n + 1]}
<1>1. PICK k \in later : \A y \in later : k <= y
  <2>1. later \subseteq Nat /\ n + 1 \in later
    OBVIOUS
  <2> HIDE DEF later
  <2> QED
    BY <2>1, FirstOf
<1>2. k \in 1 .. n + 1 /\ (k = n + 1 \/ at[p[k]] > at[n + 1])
  BY <1>1
<1>3. \A i \in 1 .. n : p[i] \in 1 .. n /\ at[p[i]] \in Nat /\ at[n + 1] \in Nat
  <2>1. \A i \in 1 .. n : p[i] \in 1 .. n
    BY DEF Lists
  <2>2. \A x \in 1 .. n : x \in 1 .. n + 1
    OBVIOUS
  <2> QED
    BY <2>1, <2>2
<1>4. \A i \in 1 .. n : i < k => at[p[i]] <= at[n + 1]
  BY <1>1, <1>3
<1>5. ASSUME NEW i \in 1 .. n, k <= i PROVE at[p[i]] > at[n + 1]
  <2>1. k \in 1 .. n /\ at[p[k]] > at[n + 1]
    BY <1>2, <1>5
  <2>2. k = i \/ Sooner(at, p[k], p[i])
    BY <1>5, <2>1 DEF Lists
  <2> QED
    BY <1>3, <2>1, <2>2 DEF Sooner
<1> DEFINE r == [i \in 1 .. n + 1 |-> IF i < k THEN p[i] ELSE IF i = k THEN n + 1 ELSE p[i - 1]]
<1>6. ASSUME NEW i \in 1 .. n + 1 PROVE r[i] \in 1 .. n + 1
  <2>1. \A x \in 1 .. n : x \in 1 .. n + 1
    OBVIOUS
  <2>2. CASE i < k
    <3>1. i \in 1 .. n
      BY <1>2, <2>2
    <3> QED
      BY <1>3, <2>1, <2>2, <3>1
  <2>3. CASE i = k
    BY <2>3
  <2>4. CASE ~ (i < k) /\ i # k
    <3>1. i - 1 \in 1 .. n
      BY <1>2, <2>4
    <3> QED
      BY <1>3, <2>1, <2>4, <3>1
  <2> QED
    BY <2>2, <2>3, <2>4
<1>7. ASSUME NEW w \in 1 .. n + 1 PROVE \E v \in 1 .. n + 1 : r[v] = w
  <2>1. CASE w = n + 1
    <3>1. r[k] = n + 1
      BY <1>2
    <3> QED
      BY <1>2, <2>1, <3>1
  <2>2. CASE w # n + 1
    <3>1. PICK v \in 1 .. n : p[v] = w
      BY <2>2 DEF Lists
    <3>2. CASE v < k
      <4>1. v \in 1 .. n + 1 /\ r[v] = w
        BY <3>1, <3>2
      <4> QED
        BY <4>1
    <3>3. CASE ~ (v < k)
      <4>1. v + 1 \in 1 .. n + 1 /\ ~ (v + 1 < k) /\ v + 1 # k /\ (v + 1) - 1 = v
        BY <1>2, <3>1, <3>3
      <4>2. r[v + 1] = w
        BY <3>1, <4>1
      <4> QED
        BY <4>1, <4>2
    <3> QED
      BY <3>2, <3>3
  <2> QED
    BY <2>1, <2>2
<1>8. ASSUME NEW i \in 1 .. n + 1, NEW j \in 1 .. n + 1, i < j PROVE Sooner(at, r[i], r[j])
  <2>1. CASE j < k
    BY <1>2, <1>8, <2>1 DEF Lists
  <2>2. CASE j = k
    <3>1. r[i] = p[i] /\ r[j] = n + 1 /\ i \in 1 .. n
      BY <1>2, <1>8, <2>2
    <3> QED
      BY <1>3, <1>4, <1>8, <2>2, <3>1 DEF Sooner
  <2>3. CASE k < j /\ i < k
    <3>1. r[i] = p[i] /\ r[j] = p[j - 1] /\ i \in 1 .. n /\ j - 1 \in 1 .. n
      BY <1>2, <1>8, <2>3
    <3>2. i < j - 1
      BY <1>2, <1>8, <2>3
    <3> QED
      BY <3>1, <3>2 DEF Lists
  <2>4. CASE k < j /\ i = k
    <3>1. r[i] = n + 1 /\ r[j] = p[j - 1] /\ j - 1 \in 1 .. n /\ k <= j - 1
      BY <1>2, <1>8, <2>4
    <3> QED
      BY <1>5, <3>1 DEF Sooner
  <2>5. CASE k < i
    <3>1. r[i] = p[i - 1] /\ r[j] = p[j - 1] /\ j - 1 \in 1 .. n /\ i - 1 \in 1 .. n /\ i - 1 < j - 1
      BY <1>2, <1>8, <2>5
    <3> QED
      BY <3>1 DEF Lists
  <2> QED
    BY <1>2, <1>8, <2>1, <2>2, <2>3, <2>4, <2>5
<1> HIDE DEF r
<1>9. r \in [1 .. n + 1 -> 1 .. n + 1]
  BY <1>6 DEF r
<1> QED
  BY <1>7, <1>8, <1>9 DEF Lists

\* Any times can be sorted.
LEMMA SomeOrder ==
  ASSUME NEW n \in Nat, NEW at \in [1 .. n -> Nat]
  PROVE  \E p : Lists(at, n, p)
<1> DEFINE Sortable == {k \in Nat : \A f \in [1 .. k -> Nat] : \E p : Lists(f, k, p)}
<1>1. 0 \in Sortable
  <2> SUFFICES ASSUME NEW f PROVE Lists(f, 0, [i \in 1 .. 0 |-> 0])
    OBVIOUS
  <2> QED
    BY DEF Lists
<1>2. ASSUME NEW k \in Nat, k \in Sortable PROVE k + 1 \in Sortable
  <2> SUFFICES ASSUME NEW f \in [1 .. k + 1 -> Nat] PROVE \E r : Lists(f, k + 1, r)
    OBVIOUS
  <2> DEFINE g == [i \in 1 .. k |-> f[i]]
  <2>1. g \in [1 .. k -> Nat]
    <3>1. \A i \in 1 .. k : i \in 1 .. k + 1
      OBVIOUS
    <3> QED
      BY <3>1
  <2>2. PICK p : Lists(g, k, p)
    <3> HIDE DEF g
    <3> QED
      BY <1>2, <2>1
  <2>3. Lists(f, k, p)
    BY <2>2 DEF Lists, Sooner
  <2> QED
    BY <2>3, InsertionSort
<1> HIDE DEF Sortable
<1>3. n \in Sortable
  BY <1>1, <1>2, Counting
<1> QED
  BY <1>3 DEF Sortable

\* What somebody can say.
Sayable == {m \in C!Message : m.to # m.from}
\* Of it, what the hub hands to the reader.
Readable == {m \in Sayable : C!ForMe(m)}

\* Sorting changes the places of the messages, and nothing else.
LEMMA SortedSame ==
  ASSUME NEW kind \in SUBSET Sayable, NEW s \in Seq(kind)
  PROVE  /\ C!ByAt(s) \in Seq(kind)
         /\ Len(C!ByAt(s)) = Len(s)
         /\ C!ToSet(C!ByAt(s)) = C!ToSet(s)
         /\ (\A i, j \in DOMAIN s : s[i] = s[j] => i = j) =>
               \A i, j \in DOMAIN C!ByAt(s) : C!ByAt(s)[i] = C!ByAt(s)[j] => i = j
<1> DEFINE n == Len(s)
           at == [i \in 1 .. n |-> s[i].at]
           sorts(p) == \A i, j \in DOMAIN s : i < j => s[p[i]].at < s[p[j]].at \/ (s[p[i]].at = s[p[j]].at /\ p[i] < p[j])
           ranks == CHOOSE p \in C!Bijection(DOMAIN s, DOMAIN s) : sorts(p)
<1>1. n \in Nat /\ DOMAIN s = 1 .. n
  OBVIOUS
<1>2. at \in [1 .. n -> Nat]
  <2>1. \A i \in 1 .. n : s[i] \in kind /\ s[i] \in Sayable
    OBVIOUS
  <2>2. \A m \in Sayable : m.at \in Nat
    BY DEF Sayable, C!Message
  <2> QED
    BY <2>1, <2>2
<1>3. PICK p : Lists(at, n, p)
  BY <1>1, <1>2, SomeOrder
<1>4. p \in C!Bijection(DOMAIN s, DOMAIN s)
  <2>1. p \in [1 .. n -> 1 .. n] /\ \A w \in 1 .. n : \E v \in 1 .. n : p[v] = w
    BY <1>3 DEF Lists
  <2>2. ASSUME NEW i \in 1 .. n, NEW j \in 1 .. n, p[i] = p[j] PROVE i = j
    <3>1. p[i] \in 1 .. n /\ at[p[i]] \in Nat
      BY <1>2, <2>1
    <3>2. i < j => Sooner(at, p[i], p[i])
      BY <1>3, <2>2 DEF Lists
    <3>3. j < i => Sooner(at, p[i], p[i])
      BY <1>3, <2>2 DEF Lists
    <3> QED
      BY <3>1, <3>2, <3>3 DEF Sooner
  <2> QED
    BY <1>1, <2>1, <2>2 DEF C!Bijection, C!Injection, C!Surjection, C!IsInjective
<1>5. sorts(p)
  <2> SUFFICES ASSUME NEW i \in 1 .. n, NEW j \in 1 .. n, i < j
               PROVE  s[p[i]].at < s[p[j]].at \/ (s[p[i]].at = s[p[j]].at /\ p[i] < p[j])
    BY <1>1
  <2>1. p[i] \in 1 .. n /\ p[j] \in 1 .. n /\ Sooner(at, p[i], p[j])
    BY <1>3 DEF Lists
  <2> QED
    BY <2>1 DEF Sooner
<1>6. ranks \in C!Bijection(DOMAIN s, DOMAIN s)
  <2> HIDE DEF sorts
  <2> QED
    BY <1>4, <1>5
<1>7. C!ByAt(s) = [i \in DOMAIN s |-> s[ranks[i]]]
  BY DEF C!ByAt
<1> HIDE DEF ranks, n
<1>8. /\ ranks \in [1 .. n -> 1 .. n]
      /\ \A i, j \in 1 .. n : ranks[i] = ranks[j] => i = j
      /\ \A w \in 1 .. n : \E v \in 1 .. n : ranks[v] = w
  BY <1>1, <1>6 DEF C!Bijection, C!Injection, C!Surjection, C!IsInjective
<1> DEFINE r == [i \in 1 .. n |-> s[ranks[i]]]
<1>9. r \in Seq(kind) /\ Len(r) = n /\ DOMAIN r = 1 .. n
  <2>1. \A i \in 1 .. n : s[i] \in kind
    BY DEF n
  <2> QED
    BY <1>1, <1>8, <2>1
<1>10. \A i \in 1 .. n : r[i] = s[ranks[i]]
  OBVIOUS
<1>11. C!ByAt(s) = r
  BY <1>1, <1>7
<1> HIDE DEF r
<1>12. C!ToSet(r) = C!ToSet(s)
  <2>1. \A i \in 1 .. n : ranks[i] \in 1 .. n /\ \E v \in 1 .. n : ranks[v] = i
    BY <1>8
  <2>2. C!ToSet(s) = {s[i] : i \in 1 .. n} /\ C!ToSet(r) = {r[i] : i \in 1 .. n}
    BY <1>1, <1>9 DEF C!ToSet
  <2>3. ASSUME NEW i \in 1 .. n PROVE r[i] \in {s[j] : j \in 1 .. n}
    BY <1>10, <2>1
  <2>4. ASSUME NEW i \in 1 .. n PROVE s[i] \in {r[j] : j \in 1 .. n}
    BY <1>10, <2>1
  <2> QED
    BY <2>2, <2>3, <2>4
<1>13. (\A i, j \in DOMAIN s : s[i] = s[j] => i = j) => \A i, j \in DOMAIN r : r[i] = r[j] => i = j
  <2> SUFFICES ASSUME \A i, j \in 1 .. n : s[i] = s[j] => i = j,
                      NEW i \in 1 .. n, NEW j \in 1 .. n, r[i] = r[j]
               PROVE  i = j
    BY <1>1, <1>9
  <2>1. ranks[i] \in 1 .. n /\ ranks[j] \in 1 .. n
    BY <1>8
  <2>2. s[ranks[i]] = s[ranks[j]]
    BY <1>10
  <2>3. ranks[i] = ranks[j]
    BY <2>1, <2>2
  <2> QED
    BY <1>8, <2>3
<1> QED
  BY <1>9, <1>11, <1>12, <1>13 DEF n

\* A finite set can be put in a row.
LEMMA InARow ==
  ASSUME NEW set, IsFiniteSet(set)
  PROVE  /\ C!SetToSeq(set) \in Seq(set)
         /\ C!ToSet(C!SetToSeq(set)) = set
         /\ Len(C!SetToSeq(set)) = Cardinality(set)
<1> DEFINE n == Cardinality(set)
           all == C!SetToSeq(set)
<1>1. n \in Nat
  BY FS_CardinalityType
<1>2. all = CHOOSE f \in [1 .. n -> set] : \A i, j \in DOMAIN f : f[i] = f[j] => i = j
  BY ChatCardinality DEF C!SetToSeq, C!IsInjective
<1>3. PICK f \in Bijection(1 .. n, set) : TRUE
  BY FS_CardinalityType, Zenon DEF ExistsBijection
<1>4. f \in [1 .. n -> set] /\ \A i, j \in 1 .. n : f[i] = f[j] => i = j
  BY <1>3 DEF Bijection, Injection, IsInjective
<1>5. all \in [1 .. n -> set] /\ \A i, j \in DOMAIN all : all[i] = all[j] => i = j
  BY <1>2, <1>4
<1> HIDE DEF all
<1>6. all \in Seq(set) /\ Len(all) = n /\ DOMAIN all = 1 .. n
  BY <1>1, <1>5
<1>7. all \in Surjection(1 .. n, set)
  <2>1. all \in Injection(1 .. n, set)
    BY <1>5, <1>6 DEF Injection, IsInjective
  <2>2. Cardinality(1 .. n) = n
    BY <1>1, FS_Interval
  <2> QED
    BY <2>1, <2>2, FS_Injection
<1>8. C!ToSet(all) = set
  <2>1. \A x \in set : \E i \in 1 .. n : all[i] = x
    BY <1>7 DEF Surjection
  <2> QED
    BY <1>5, <1>6, <2>1 DEF C!ToSet
<1> QED
  BY <1>6, <1>8 DEF all

\* A thread without doubles that is not too long.
Tidy(s) == Len(s) <= ChatMax /\ \A i, j \in DOMAIN s : s[i] = s[j] => i = j

\* A store that shows no message twice, and each in its thread.
Orderly(store) ==
    /\ store \in [C!Thread -> Seq(Readable)]
    /\ \A t \in C!Thread : Tidy(store[t]) /\ \A m \in C!ToSet(store[t]) : C!Route(m) = t

\* The store shows m, or as much as it can.
Shows(store, m) == m \in C!ToSet(store[C!Route(m)]) \/ Len(store[C!Route(m)]) = ChatMax

LEMMA ChatMaxIsCounted == ChatMax \in Nat \ {0}
  BY ChatAssumption DEF C!LimitsAssumption

LEMMA ReadableHasThread == \A m \in Readable : C!Route(m) \in C!Thread
<1> SUFFICES ASSUME NEW m \in Readable PROVE C!Route(m) \in C!Thread
  OBVIOUS
<1>1. /\ m.from \in Member /\ m.to \in Member \cup {C!Group} /\ m.to # m.from
      /\ (m.to = C!Group \/ m.from = Me \/ m.to = Me)
  BY DEF Readable, Sayable, C!Message, C!ForMe
<1> QED
  BY <1>1 DEF C!Route, C!Thread, C!Peer

\* thread.add keeps a thread tidy, and has the message.
LEMMA Added ==
  ASSUME NEW s \in Seq(Readable), Tidy(s), NEW m \in Readable
  PROVE  /\ C!Add(s, m) \in Seq(Readable)
         /\ Tidy(C!Add(s, m))
         /\ C!ToSet(C!Add(s, m)) \subseteq C!ToSet(s) \cup {m}
         /\ m \in C!ToSet(C!Add(s, m))
         /\ Len(s) = ChatMax => Len(C!Add(s, m)) = ChatMax
         /\ Len(s) # ChatMax => C!ToSet(s) \subseteq C!ToSet(C!Add(s, m))
<1>1. CASE m \in C!ToSet(s)
  BY <1>1 DEF C!Add
<1>2. CASE m \notin C!ToSet(s) /\ Len(s) < ChatMax
  <2> DEFINE n == Len(s)
             r == Append(s, m)
  <2>1. n \in Nat /\ DOMAIN s = 1 .. n /\ n < ChatMax /\ ChatMax \in Nat
    BY <1>2, ChatMaxIsCounted
  <2>2. r \in Seq(Readable) /\ Len(r) = n + 1 /\ DOMAIN r = 1 .. n + 1
    OBVIOUS
  <2>3. r[n + 1] = m /\ \A i \in 1 .. n : r[i] = s[i]
    OBVIOUS
  <2>4. C!Add(s, m) = r
    BY <1>2, <2>1, <2>2 DEF C!Add, C!Latest
  <2>5. \A i \in 1 .. n : s[i] # m
    BY <1>2, <2>1 DEF C!ToSet
  <2> HIDE DEF r, n
  <2>6. Tidy(r)
    <3>1. Len(r) <= ChatMax
      BY <2>1, <2>2
    <3>2. \A i, j \in 1 .. n + 1 : r[i] = r[j] => i = j
      BY <2>1, <2>3, <2>5 DEF Tidy
    <3> QED
      BY <2>2, <3>1, <3>2 DEF Tidy
  <2>7. C!ToSet(r) = C!ToSet(s) \cup {m}
    <3>1. C!ToSet(s) = {s[i] : i \in 1 .. n} /\ C!ToSet(r) = {r[i] : i \in 1 .. n + 1}
      BY <2>1, <2>2 DEF C!ToSet
    <3>2. 1 .. n + 1 = (1 .. n) \cup {n + 1}
      BY <2>1
    <3> QED
      BY <2>3, <3>1, <3>2
  <2> QED
    BY <1>2, <2>2, <2>4, <2>6, <2>7 DEF n
<1>3. CASE m \notin C!ToSet(s) /\ Len(s) = ChatMax
  <2> DEFINE n == Len(s)
             r == [i \in 1 .. n |-> IF i = n THEN m ELSE s[i + 1]]
  <2>1. n \in Nat /\ DOMAIN s = 1 .. n /\ n = ChatMax /\ n # 0
    BY <1>3, ChatMaxIsCounted
  <2>2. C!Add(s, m) = r
    <3>1. C!Add(s, m) = SubSeq(Append(s, m), 2, n + 1)
      <4>1. C!Add(s, m) = C!Latest(Append(s, m))
        BY <1>3 DEF C!Add
      <4>2. Len(Append(s, m)) = n + 1 /\ n + 1 > ChatMax /\ (n + 1) - ChatMax + 1 = 2
        BY <2>1
      <4> QED
        BY <4>1, <4>2 DEF C!Latest
    <3>2. SubSeq(Append(s, m), 2, n + 1) = [i \in 1 .. n |-> Append(s, m)[i + 1]]
      BY <2>1
    <3>3. \A i \in 1 .. n : Append(s, m)[i + 1] = r[i]
      BY <2>1
    <3> QED
      BY <3>1, <3>2, <3>3
  <2>3. \A i \in 1 .. n : s[i] \in Readable
    OBVIOUS
  <2>4. \A i \in 1 .. n : r[i] \in Readable
    BY <2>1, <2>3
  <2>5. r \in Seq(Readable) /\ Len(r) = n /\ DOMAIN r = 1 .. n
    BY <2>1, <2>4
  <2>6. r[n] = m /\ \A i \in 1 .. n : i # n => r[i] = s[i + 1] /\ i + 1 \in 1 .. n
    BY <2>1
  <2>7. \A i \in 1 .. n : s[i] # m
    BY <1>3, <2>1 DEF C!ToSet
  <2> HIDE DEF r, n
  <2>8. Tidy(r)
    <3>1. ASSUME NEW i \in 1 .. n, NEW j \in 1 .. n, r[i] = r[j] PROVE i = j
      <4>1. CASE i # n /\ j # n
        <5>1. /\ r[i] = s[i + 1] /\ i + 1 \in DOMAIN s
              /\ r[j] = s[j + 1] /\ j + 1 \in DOMAIN s
          BY <2>1, <2>6, <4>1
        <5>2. i + 1 = j + 1
          BY <3>1, <5>1 DEF Tidy
        <5> QED
          BY <5>2
      <4>2. CASE i = n \/ j = n
        BY <2>6, <2>7, <3>1, <4>2
      <4> QED
        BY <4>1, <4>2
    <3> QED
      BY <2>1, <2>5, <3>1 DEF Tidy
  <2>9. C!ToSet(r) \subseteq C!ToSet(s) \cup {m} /\ m \in C!ToSet(r)
    BY <2>1, <2>5, <2>6 DEF C!ToSet
  <2> QED
    BY <1>3, <2>1, <2>2, <2>5, <2>8, <2>9
<1> QED
  BY <1>1, <1>2, <1>3, ChatMaxIsCounted DEF Tidy

\* So does a message put in its thread; what is shown stays, or the thread is full.
LEMMA PutOne ==
  ASSUME NEW store, Orderly(store), NEW m \in Readable
  PROVE  /\ Orderly(C!Put(store, m))
         /\ Shows(C!Put(store, m), m)
         /\ \A o \in Readable : Shows(store, o) => Shows(C!Put(store, m), o)
<1> DEFINE t == C!Route(m)
           new == C!Put(store, m)
<1>1. t \in C!Thread
  BY ReadableHasThread
<1>2. store \in [C!Thread -> Seq(Readable)] /\ store[t] \in Seq(Readable) /\ Tidy(store[t])
  BY <1>1 DEF Orderly
<1>3. new = [store EXCEPT ![t] = C!Add(store[t], m)]
  BY DEF C!Put
<1>4. /\ C!Add(store[t], m) \in Seq(Readable)
      /\ Tidy(C!Add(store[t], m))
      /\ C!ToSet(C!Add(store[t], m)) \subseteq C!ToSet(store[t]) \cup {m}
      /\ m \in C!ToSet(C!Add(store[t], m))
      /\ Len(store[t]) = ChatMax => Len(C!Add(store[t], m)) = ChatMax
      /\ Len(store[t]) # ChatMax => C!ToSet(store[t]) \subseteq C!ToSet(C!Add(store[t], m))
  BY <1>2, Added
<1>5. /\ new[t] = C!Add(store[t], m)
      /\ \A u \in C!Thread : u # t => new[u] = store[u]
      /\ new \in [C!Thread -> Seq(Readable)]
  BY <1>1, <1>2, <1>3, <1>4
<1> HIDE DEF new
<1>6. Orderly(new)
  <2> SUFFICES ASSUME NEW u \in C!Thread
               PROVE  Tidy(new[u]) /\ \A o \in C!ToSet(new[u]) : C!Route(o) = u
    BY <1>5 DEF Orderly
  <2> QED
    BY <1>4, <1>5 DEF Orderly
<1>7. Shows(new, m)
  BY <1>4, <1>5 DEF Shows
<1>8. ASSUME NEW o \in Readable, Shows(store, o) PROVE Shows(new, o)
  <2>1. C!Route(o) \in C!Thread
    BY ReadableHasThread
  <2> QED
    BY <1>4, <1>5, <1>8, <2>1 DEF Shows
<1> QED
  BY <1>6, <1>7, <1>8 DEF new

\* The loop of LoadHistory, unfolded.
LEMMA MergedUnfolds ==
  ASSUME NEW store, NEW rows, Len(rows) \in Nat
  PROVE  \E after : /\ after[0] = store
                    /\ \A i \in 1 .. Len(rows) : after[i] = C!Put(after[i - 1], rows[i])
                    /\ C!Merged(store, rows) = after[Len(rows)]
<1> DEFINE next(f, i) == IF i = 0 THEN store ELSE C!Put(f[i - 1], rows[i])
           Runs(f, n) == f = [i \in 0 .. n |-> next(f, i)]
           Reached == {n \in Nat : \E f : Runs(f, n)}
<1>1. 0 \in Reached
  <2> DEFINE f == [i \in 0 .. 0 |-> store]
  <2>1. f = [i \in 0 .. 0 |-> next(f, i)]
    OBVIOUS
  <2> QED
    BY <2>1
<1>2. ASSUME NEW n \in Nat, n \in Reached PROVE n + 1 \in Reached
  <2>1. PICK f : Runs(f, n)
    BY <1>2
  <2> DEFINE g == [i \in 0 .. n + 1 |-> next(f, i)]
  <2>2. \A i \in 0 .. n : f[i] = next(f, i) /\ i \in 0 .. n + 1
    BY <2>1
  <2>3. \A i \in 0 .. n : g[i] = f[i]
    BY <2>2
  <2>4. \A i \in 0 .. n + 1 : i = 0 \/ i - 1 \in 0 .. n
    OBVIOUS
  <2>5. \A i \in 0 .. n + 1 : next(f, i) = next(g, i)
    BY <2>3, <2>4
  <2>6. Runs(g, n + 1)
    BY <2>5
  <2> HIDE DEF g, Runs
  <2>7. \E h : Runs(h, n + 1)
    BY <2>6
  <2> QED
    BY <2>7
<1>3. Len(rows) \in Reached
  <2> HIDE DEF Reached
  <2> QED
    BY <1>1, <1>2, Counting
<1> DEFINE after == CHOOSE f : Runs(f, Len(rows))
<1>4. Runs(after, Len(rows))
  <2> HIDE DEF Runs
  <2> QED
    BY <1>3
<1>5. C!Merged(store, rows) = after[Len(rows)]
  BY DEF C!Merged
<1> HIDE DEF after
<1>6. \A i \in 0 .. Len(rows) : after[i] = next(after, i)
  BY <1>4
<1>7. after[0] = store /\ \A i \in 1 .. Len(rows) : after[i] = C!Put(after[i - 1], rows[i])
  BY <1>6
<1> QED
  BY <1>5, <1>7

\* LoadHistory keeps the store in order, keeps what it shows, and shows the answer.
LEMMA MergedShows ==
  ASSUME NEW store, Orderly(store), NEW rows \in Seq(Readable)
  PROVE  /\ Orderly(C!Merged(store, rows))
         /\ \A o \in Readable :
               Shows(store, o) \/ o \in C!ToSet(rows) => Shows(C!Merged(store, rows), o)
<1> DEFINE n == Len(rows)
<1>1. n \in Nat /\ DOMAIN rows = 1 .. n /\ \A i \in 1 .. n : rows[i] \in Readable
  OBVIOUS
<1>2. PICK after : /\ after[0] = store
                   /\ \A i \in 1 .. n : after[i] = C!Put(after[i - 1], rows[i])
                   /\ C!Merged(store, rows) = after[n]
  BY <1>1, MergedUnfolds
<1> DEFINE Good(k) == /\ Orderly(after[k])
                      /\ \A o \in Readable :
                            Shows(store, o) \/ (\E i \in 1 .. k : o = rows[i]) => Shows(after[k], o)
           Reached == {k \in Nat : k <= n => Good(k)}
<1>3. 0 \in Reached
  BY <1>2
<1>4. ASSUME NEW k \in Nat, k \in Reached PROVE k + 1 \in Reached
  <2> SUFFICES ASSUME k + 1 <= n PROVE Good(k + 1)
    OBVIOUS
  <2>1. k + 1 \in 1 .. n /\ (k + 1) - 1 = k /\ k <= n
    BY <1>1
  <2>2. Good(k) /\ after[k + 1] = C!Put(after[k], rows[k + 1]) /\ rows[k + 1] \in Readable
    BY <1>1, <1>2, <1>4, <2>1
  <2>3. /\ Orderly(after[k + 1])
        /\ Shows(after[k + 1], rows[k + 1])
        /\ \A o \in Readable : Shows(after[k], o) => Shows(after[k + 1], o)
    BY <2>2, PutOne
  <2>4. \A i \in 1 .. k + 1 : i = k + 1 \/ i \in 1 .. k
    OBVIOUS
  <2> QED
    BY <2>2, <2>3, <2>4
<1>5. n \in Reached
  <2> HIDE DEF Reached
  <2> QED
    BY <1>1, <1>3, <1>4, Counting
<1>6. Good(n)
  BY <1>5
<1>7. \A o \in C!ToSet(rows) : \E i \in 1 .. n : o = rows[i]
  BY <1>1 DEF C!ToSet
<1> QED
  BY <1>2, <1>6, <1>7

\* Sorting and capping keep what is shown.
LEMMA SortedShows ==
  ASSUME NEW store, Orderly(store)
  PROVE  LET new == [t \in C!Thread |-> C!SortAndCap(store[t])]
         IN  /\ Orderly(new)
             /\ \A o \in Readable : Shows(store, o) => Shows(new, o)
<1> DEFINE new == [t \in C!Thread |-> C!SortAndCap(store[t])]
<1>1. ASSUME NEW t \in C!Thread
      PROVE  /\ new[t] \in Seq(Readable) /\ Tidy(new[t])
             /\ C!ToSet(new[t]) = C!ToSet(store[t]) /\ Len(new[t]) = Len(store[t])
  <2>1. store[t] \in Seq(Readable) /\ Tidy(store[t])
    BY DEF Orderly
  <2>2. Readable \in SUBSET Sayable
    BY DEF Readable
  <2> DEFINE s == store[t]
             r == C!ByAt(s)
  <2>3. /\ r \in Seq(Readable) /\ Len(r) = Len(s) /\ C!ToSet(r) = C!ToSet(s)
        /\ (\A i, j \in DOMAIN s : s[i] = s[j] => i = j) =>
               \A i, j \in DOMAIN r : r[i] = r[j] => i = j
    <3> HIDE DEF s
    <3> QED
      BY <2>1, <2>2, SortedSame DEF s
  <2>4. new[t] = C!Latest(r)
    BY DEF C!SortAndCap
  <2> HIDE DEF r, s, new
  <2>5. Tidy(r)
    BY <2>1, <2>3 DEF Tidy, s
  <2>6. C!Latest(r) = r
    <3>1. Len(r) \in Nat /\ Len(r) <= ChatMax
      BY <2>3, <2>5 DEF Tidy
    <3>2. ~ (Len(r) > ChatMax)
      BY <3>1, ChatMaxIsCounted
    <3> QED
      BY <3>2 DEF C!Latest
  <2> QED
    BY <2>3, <2>4, <2>5, <2>6 DEF s
<1>2. new \in [C!Thread -> Seq(Readable)]
  BY <1>1
<1> HIDE DEF new
<1>3. Orderly(new)
  BY <1>1, <1>2 DEF Orderly
<1>4. \A o \in Readable : Shows(store, o) => Shows(new, o)
  BY <1>1, ReadableHasThread DEF Shows
<1> QED
  BY <1>3, <1>4 DEF new

-----------------------------------------------------------------------------
(* The state: where messages are in which shape, and that the store is in    *)
(* order.  A message is shown once because add asks, and in its own thread   *)
(* because route is the same for both of its ways.                           *)

\* The stages of a message that is being sent, and of the history request.
Sending ==
    [stage : {"idle"}]
    \cup [stage : {"inserted", "pruned"}, msg : Sayable, doomed : SUBSET Sayable]
    \cup [stage : {"stored"}, msg : Sayable]

Fetching ==
    [stage : {"asked", "failed", "loaded"}]
    \cup [stage : {"group"}, rows : {some \in SUBSET Readable : IsFiniteSet(some)}]
    \cup [stage : {"answered"}, rows : Seq(Readable)]

Typed ==
    /\ clock \in 0 .. MaxMessages
    /\ writing \in [Writer -> Sending]
    /\ table \subseteq Sayable /\ IsFiniteSet(table)
    /\ online \in BOOLEAN
    /\ wire \in Seq(Readable)
    /\ fetch \in Fetching
    /\ Orderly(log)
    /\ troubles \in 0 .. MaxTroubles
    /\ excused \subseteq Sayable

\* What a writer's record is.
LEMMA SendingFields ==
  ASSUME NEW w \in Sending
  PROVE  /\ w.stage \in {"idle", "inserted", "pruned", "stored"}
         /\ w.stage # "idle" => w.msg \in Sayable
         /\ w.stage \in {"inserted", "pruned"} =>
              /\ w = [stage |-> w.stage, msg |-> w.msg, doomed |-> w.doomed]
              /\ w.doomed \subseteq Sayable
  BY DEF Sending

LEMMA FetchingFields ==
  ASSUME NEW f \in Fetching
  PROVE  /\ f.stage \in {"asked", "failed", "loaded", "group", "answered"}
         /\ f.stage = "group" => f.rows \subseteq Readable /\ IsFiniteSet(f.rows)
         /\ f.stage = "answered" => f.rows \in Seq(Readable)
  BY DEF Fetching

\* What the first SELECT finds is for the reader.
LEMMA GroupReadable ==
  ASSUME NEW rows \in SUBSET Sayable
  PROVE  C!Newest(rows, {C!Group}) \subseteq Readable /\ C!Newest(rows, {C!Group}) \subseteq rows
<1> SUFFICES ASSUME NEW m \in rows, C!Conversation(m) = {C!Group} PROVE m \in Readable
  BY DEF C!Newest
<1>1. m \in Sayable /\ m.to = C!Group
  BY DEF C!Conversation
<1> QED
  BY <1>1 DEF Readable, C!ForMe

\* And what the second finds.
LEMMA DmsReadable ==
  ASSUME NEW rows \in SUBSET Sayable
  PROVE  LET dms == UNION {C!Newest(rows, {Me, p}) : p \in C!Peer}
         IN  dms \subseteq Readable /\ dms \subseteq rows
<1> SUFFICES ASSUME NEW p \in C!Peer, NEW m \in rows, C!Conversation(m) = {Me, p} PROVE m \in Readable
  BY DEF C!Newest
<1>1. m \in Sayable /\ (m.to = C!Group \/ Me \in {m.from, m.to})
  BY DEF C!Conversation
<1> QED
  BY <1>1 DEF Readable, C!ForMe

\* The answer has every row of both, once.
LEMMA AnswerHasAll ==
  ASSUME Typed, fetch.stage = "group"
  PROVE  LET all == fetch.rows \cup UNION {C!Newest(table, {Me, p}) : p \in C!Peer}
             answer == C!ByAt(C!SetToSeq(all))
         IN  answer \in Seq(Readable) /\ C!ToSet(answer) = all
<1> DEFINE dms == UNION {C!Newest(table, {Me, p}) : p \in C!Peer}
           all == fetch.rows \cup dms
<1>1. dms \subseteq Readable /\ dms \subseteq table
  BY DmsReadable DEF Typed
<1>2. IsFiniteSet(dms)
  <2> HIDE DEF dms
  <2> QED
    BY <1>1, FS_Subset DEF Typed
<1>3. IsFiniteSet(fetch.rows) /\ fetch.rows \subseteq Readable
  BY FetchingFields DEF Typed
<1> HIDE DEF dms
<1>4. IsFiniteSet(all) /\ all \subseteq Readable
  BY <1>1, <1>2, <1>3, FS_Union
<1> HIDE DEF all
<1>5. C!SetToSeq(all) \in Seq(all) /\ C!ToSet(C!SetToSeq(all)) = all
  BY <1>4, InARow
<1>6. C!SetToSeq(all) \in Seq(Readable) /\ Readable \in SUBSET Sayable
  BY <1>4, <1>5 DEF Readable
<1>7. C!ByAt(C!SetToSeq(all)) \in Seq(Readable) /\ C!ToSet(C!ByAt(C!SetToSeq(all))) = all
  BY <1>5, <1>6, SortedSame
<1> QED
  BY <1>7 DEF all, dms

LEMMA NewMessage ==
  ASSUME Typed, NEW a \in Writer, NEW to \in Member \cup {C!Group}, C!Insert(a, to)
  PROVE  [from |-> a, to |-> to, at |-> clock + 1] \in Sayable
<1>1. a \in Member /\ to # a /\ clock + 1 \in 1 .. MaxMessages
  BY ChatAssumption DEF C!AccountsAssumption, C!BoundsAssumption, C!Insert, Typed
<1> QED
  BY <1>1 DEF Sayable, C!Message

\* The writers' side keeps its types.
LEMMA WritersTyped ==
  ASSUME Typed, [C!Next]_C!vars
  PROVE  clock' \in 0 .. MaxMessages /\ writing' \in [Writer -> Sending] /\ excused' \subseteq Sayable
<1> USE DEF Typed
<1>1. ASSUME NEW a \in Writer, NEW to \in Member \cup {C!Group}, C!Insert(a, to)
      PROVE  clock' \in 0 .. MaxMessages /\ writing' \in [Writer -> Sending] /\ excused' = excused
  <2>1. [stage |-> "inserted", msg |-> [from |-> a, to |-> to, at |-> clock + 1], doomed |-> {}] \in Sending
    BY <1>1, NewMessage DEF Sending
  <2> QED
    BY <1>1, <2>1, ChatAssumption DEF C!Insert, C!BoundsAssumption
<1>2. ASSUME NEW a \in Writer, C!Prune(a)
      PROVE  writing' \in [Writer -> Sending] /\ UNCHANGED <<clock, excused>>
  <2> DEFINE m == writing[a].msg
             doomed == C!Doomed(table \cup {m}, C!Conversation(m))
  <2>1. /\ writing[a].stage = "inserted" /\ UNCHANGED <<clock, excused>>
        /\ writing' = [writing EXCEPT ![a].stage = "pruned", ![a].doomed = doomed]
    BY <1>2 DEF C!Prune
  <2>2. m \in Sayable /\ writing[a] = [stage |-> "inserted", msg |-> m, doomed |-> writing[a].doomed]
    BY <2>1, SendingFields
  <2>3. doomed \subseteq Sayable
    BY <2>2 DEF C!Doomed
  <2>4. [stage |-> "pruned", msg |-> m, doomed |-> doomed] \in Sending
    BY <2>2, <2>3 DEF Sending
  <2>5. /\ writing'[a] = [stage |-> "pruned", msg |-> m, doomed |-> doomed]
        /\ \A b \in Writer \ {a} : writing'[b] = writing[b]
        /\ writing' = [b \in Writer |-> writing'[b]]
    <3>1. writing = [b \in Writer |-> writing[b]]
      OBVIOUS
    <3> HIDE DEF Typed
    <3> QED
      BY <2>1, <2>2, <3>1
  <2> HIDE DEF m, doomed
  <2> QED
    BY <2>1, <2>4, <2>5, Zenon
<1>3. ASSUME NEW a \in Writer, C!Commit(a)
      PROVE  writing' \in [Writer -> Sending] /\ UNCHANGED <<clock, excused>>
  <2>1. writing[a].msg \in Sayable
    BY <1>3, SendingFields DEF C!Commit
  <2>2. [stage |-> "stored", msg |-> writing[a].msg] \in Sending
    BY <2>1 DEF Sending
  <2> QED
    BY <1>3, <2>2 DEF C!Commit
<1>4. C!Idle \in Sending
  BY DEF C!Idle, Sending
<1>5. ASSUME NEW a \in Writer, C!Abort(a)
      PROVE  writing' \in [Writer -> Sending] /\ UNCHANGED <<clock, excused>>
  BY <1>4, <1>5 DEF C!Abort
<1>6. ASSUME NEW a \in Writer, C!Deliver(a)
      PROVE  writing' \in [Writer -> Sending] /\ UNCHANGED clock /\ excused' \subseteq Sayable
  <2>1. writing[a].msg \in Sayable
    BY <1>6, SendingFields DEF C!Deliver
  <2> QED
    BY <1>4, <1>6, <2>1 DEF C!Deliver, C!Lose
<1>7. C!ToSet(wire) \subseteq Sayable
  BY DEF C!ToSet, Readable
<1>8. C!Cut => UNCHANGED <<clock, writing>> /\ excused' \subseteq Sayable
  BY <1>7 DEF C!Cut, C!Lose
<1>9. C!Restart => UNCHANGED clock /\ writing' \in [Writer -> Sending] /\ excused' \subseteq Sayable
  <2>1. {writing[a].msg : a \in {b \in Writer : writing[b].stage = "stored"}} \subseteq Sayable
    BY SendingFields
  <2> QED
    BY <1>4, <1>7, <2>1 DEF C!Restart, C!Lose
<1>10. CASE UNCHANGED <<clock, writing, excused>>
  BY <1>10
<1> QED
  BY <1>1, <1>2, <1>3, <1>5, <1>6, <1>8, <1>9, <1>10
     DEF C!Next, C!vars, C!Subscribe, C!ReadGroup, C!ReadDms, C!FetchFails, C!LoadHistory, C!Ingest

\* The table keeps its rows' types.
LEMMA TableTyped ==
  ASSUME Typed, [C!Next]_C!vars
  PROVE  table' \subseteq Sayable /\ IsFiniteSet(table')
<1>1. ASSUME NEW a \in Writer, C!Commit(a) PROVE table' \subseteq Sayable /\ IsFiniteSet(table')
  <2>1. writing[a].msg \in Sayable
    BY <1>1, SendingFields DEF C!Commit, Typed
  <2>2. IsFiniteSet(table \cup {writing[a].msg}) /\ table \cup {writing[a].msg} \subseteq Sayable
    BY <2>1, FS_AddElement DEF Typed
  <2>3. table' \subseteq table \cup {writing[a].msg}
    BY <1>1 DEF C!Commit
  <2> QED
    BY <2>2, <2>3, FS_Subset
<1>2. CASE UNCHANGED table
  BY <1>2 DEF Typed
<1> QED
  BY <1>1, <1>2
     DEF C!Next, C!vars, C!Insert, C!Prune, C!Abort, C!Deliver, C!Restart, C!Subscribe, C!Cut,
         C!ReadGroup, C!ReadDms, C!FetchFails, C!LoadHistory, C!Ingest

\* The next live message.
LEMMA HeadOfWire ==
  ASSUME Typed, C!Ingest
  PROVE  /\ Head(wire) \in Readable /\ wire' \in Seq(Readable)
         /\ C!ToSet(wire) = {Head(wire)} \cup C!ToSet(wire')
<1>1. wire \in Seq(Readable) /\ wire # <<>> /\ wire' = Tail(wire)
  BY DEF Typed, C!Ingest
<1> DEFINE n == Len(wire)
<1>2. n \in Nat \ {0} /\ DOMAIN wire = 1 .. n /\ DOMAIN wire' = 1 .. n - 1
  BY <1>1
<1>3. Head(wire) = wire[1] /\ \A i \in 1 .. n - 1 : wire'[i] = wire[i + 1]
  BY <1>1
<1>4. Head(wire) \in Readable /\ wire' \in Seq(Readable)
  BY <1>1
<1>5. \A i \in 1 .. n : i = 1 \/ (i - 1 \in 1 .. n - 1 /\ (i - 1) + 1 = i)
  BY <1>2
<1>6. \A i \in 1 .. n - 1 : i + 1 \in 1 .. n
  BY <1>2
<1>7. C!ToSet(wire) \subseteq {Head(wire)} \cup C!ToSet(wire')
  <2> SUFFICES ASSUME NEW i \in 1 .. n PROVE wire[i] \in {Head(wire)} \cup C!ToSet(wire')
    BY <1>2 DEF C!ToSet
  <2>1. CASE i = 1
    BY <1>3, <2>1
  <2>2. CASE i # 1
    <3>1. i - 1 \in 1 .. n - 1 /\ wire[i] = wire'[i - 1]
      BY <1>3, <1>5, <2>2
    <3> HIDE DEF n
    <3> QED
      BY <1>2, <3>1 DEF C!ToSet
  <2> QED
    BY <2>1, <2>2
<1>8. {Head(wire)} \cup C!ToSet(wire') \subseteq C!ToSet(wire)
  <2> HIDE DEF n
  <2> QED
    BY <1>2, <1>3, <1>6 DEF C!ToSet
<1> QED
  BY <1>4, <1>7, <1>8

\* The reader's side keeps its types, and the store its order.
LEMMA ReaderTyped ==
  ASSUME Typed, [C!Next]_C!vars
  PROVE  /\ online' \in BOOLEAN /\ wire' \in Seq(Readable) /\ fetch' \in Fetching
         /\ Orderly(log') /\ troubles' \in 0 .. MaxTroubles
<1> USE DEF Typed
<1>1. <<>> \in Seq(Readable)
  OBVIOUS
<1>2. {C!Asked, C!Failed, C!Loaded} \subseteq Fetching
  BY DEF C!Asked, C!Failed, C!Loaded, Fetching
<1>3. ASSUME C!CountTrouble PROVE troubles' \in 0 .. MaxTroubles
  BY <1>3, ChatAssumption DEF C!CountTrouble, C!BoundsAssumption
<1>4. ASSUME NEW a \in Writer, C!Deliver(a)
      PROVE  wire' \in Seq(Readable) /\ UNCHANGED <<online, fetch, log, troubles>>
  <2> DEFINE m == writing[a].msg
  <2>1. m \in Sayable
    BY <1>4, SendingFields DEF C!Deliver
  <2>2. C!ForMe(m) => m \in Readable
    BY <2>1 DEF Readable
  <2>3. /\ wire' = wire \/ (C!ForMe(m) /\ wire' = Append(wire, m))
        /\ UNCHANGED <<online, fetch, log, troubles>>
    BY <1>4 DEF C!Deliver
  <2> HIDE DEF m
  <2> QED
    BY <2>2, <2>3
<1>5. ASSUME C!Cut PROVE online' \in BOOLEAN /\ wire' \in Seq(Readable) /\ troubles' \in 0 .. MaxTroubles
                        /\ UNCHANGED <<fetch, log>>
  BY <1>1, <1>3, <1>5 DEF C!Cut
<1>6. ASSUME C!Restart PROVE online' \in BOOLEAN /\ wire' \in Seq(Readable) /\ troubles' \in 0 .. MaxTroubles
                            /\ fetch' \in Fetching /\ UNCHANGED log
  BY <1>1, <1>2, <1>3, <1>6 DEF C!Restart
<1>7. ASSUME C!ReadGroup PROVE fetch' \in Fetching /\ UNCHANGED <<online, wire, log, troubles>>
  <2> DEFINE rows == C!Newest(table, {C!Group})
  <2>1. rows \subseteq Readable /\ rows \subseteq table
    BY GroupReadable
  <2>2. fetch' = [stage |-> "group", rows |-> rows] /\ UNCHANGED <<online, wire, log, troubles>>
    BY <1>7 DEF C!ReadGroup
  <2> HIDE DEF rows
  <2>3. IsFiniteSet(rows)
    BY <2>1, FS_Subset
  <2> QED
    BY <2>1, <2>2, <2>3 DEF Fetching
<1>8. ASSUME C!ReadDms PROVE fetch' \in Fetching /\ UNCHANGED <<online, wire, log, troubles>>
  <2> DEFINE all == fetch.rows \cup UNION {C!Newest(table, {Me, p}) : p \in C!Peer}
             answer == C!ByAt(C!SetToSeq(all))
  <2>1. answer \in Seq(Readable)
    BY <1>8, AnswerHasAll DEF C!ReadDms
  <2>2. fetch' = [stage |-> "answered", rows |-> answer] /\ UNCHANGED <<online, wire, log, troubles>>
    BY <1>8 DEF C!ReadDms
  <2> HIDE DEF answer
  <2> QED
    BY <2>1, <2>2 DEF Fetching
<1>9. ASSUME C!FetchFails PROVE fetch' \in Fetching /\ UNCHANGED <<online, wire, log, troubles>>
  BY <1>2, <1>9 DEF C!FetchFails
<1>10. ASSUME C!LoadHistory PROVE fetch' \in Fetching /\ Orderly(log') /\ UNCHANGED <<online, wire, troubles>>
  <2>1. fetch.rows \in Seq(Readable)
    BY <1>10, FetchingFields DEF C!LoadHistory
  <2>2. Orderly(C!Merged(log, fetch.rows))
    BY <2>1, MergedShows
  <2>3. Orderly(log')
    BY <1>10, <2>2, SortedShows DEF C!LoadHistory
  <2> QED
    BY <1>2, <1>10, <2>3 DEF C!LoadHistory
<1>11. ASSUME C!Ingest PROVE wire' \in Seq(Readable) /\ Orderly(log') /\ UNCHANGED <<online, fetch, troubles>>
  <2>1. Head(wire) \in Readable /\ wire' \in Seq(Readable)
    BY <1>11, HeadOfWire
  <2>2. Orderly(C!Put(log, Head(wire)))
    BY <2>1, PutOne
  <2> QED
    BY <1>11, <2>1, <2>2 DEF C!Ingest
<1>12. CASE UNCHANGED <<online, wire, fetch, log, troubles>>
  BY <1>12
<1>13. C!Subscribe => online' \in BOOLEAN /\ UNCHANGED <<wire, fetch, log, troubles>>
  BY DEF C!Subscribe
<1> QED
  BY <1>4, <1>5, <1>6, <1>7, <1>8, <1>9, <1>10, <1>11, <1>12, <1>13
     DEF C!Next, C!vars, C!Insert, C!Prune, C!Commit, C!Abort

\* Where messages are, and in which shape.
LEMMA TypedHolds == C!Spec => []Typed
<1>1. C!Init => Typed
  <2> SUFFICES ASSUME C!Init PROVE Typed
    OBVIOUS
  <2>1. Orderly(log)
    <3>1. log = [t \in C!Thread |-> <<>>] /\ C!ToSet(<<>>) = {} /\ Tidy(<<>>)
      BY ChatMaxIsCounted DEF C!Init, C!ToSet, Tidy
    <3> QED
      BY <3>1 DEF Orderly
  <2>2. writing \in [Writer -> Sending] /\ fetch \in Fetching
    BY DEF C!Init, C!Idle, C!Asked, Sending, Fetching
  <2>3. clock \in 0 .. MaxMessages /\ troubles \in 0 .. MaxTroubles
    BY ChatAssumption DEF C!Init, C!BoundsAssumption
  <2>4. IsFiniteSet(table) /\ table \subseteq Sayable /\ excused \subseteq Sayable
    BY FS_EmptySet DEF C!Init
  <2>5. wire \in Seq(Readable) /\ online \in BOOLEAN
    <3>1. <<>> \in Seq(Readable)
      OBVIOUS
    <3> QED
      BY <3>1 DEF C!Init
  <2> QED
    BY <2>1, <2>2, <2>3, <2>4, <2>5 DEF Typed
<1>2. Typed /\ [C!Next]_C!vars => Typed'
  BY WritersTyped, TableTyped, ReaderTyped DEF Typed
<1> QED
  BY <1>1, <1>2, PTL DEF C!Spec

\* Every variable of the chat keeps its type, the logs their bound.
THEOREM ChatTypeOK == C!Spec => []C!TypeOK
<1>1. Typed => C!TypeOK
  <2> SUFFICES ASSUME Typed PROVE C!TypeOK
    OBVIOUS
  <2>1. Sayable \subseteq C!Message /\ Readable \subseteq C!Message
    BY DEF Sayable, Readable
  <2>2. \A w \in Sending :
            w \in {C!Idle} \cup [stage : {"inserted", "pruned"}, msg : C!Message, doomed : SUBSET C!Message]
                  \cup [stage : {"stored"}, msg : C!Message]
    BY <2>1 DEF Sending, C!Idle
  <2>3. wire \in Seq(C!Message)
    BY <2>1 DEF Typed
  <2>4. \A t \in C!Thread : log[t] \in Seq(C!Message) /\ Len(log[t]) <= ChatMax
    BY <2>1 DEF Typed, Orderly, Tidy
  <2>5. log \in [C!Thread -> Seq(C!Message)]
    BY <2>4 DEF Typed, Orderly
  <2>6. fetch.stage \in {"asked", "group", "answered", "loaded", "failed"}
    BY FetchingFields DEF Typed
  <2>7. writing \in [Writer ->
          {C!Idle} \cup [stage : {"inserted", "pruned"}, msg : C!Message, doomed : SUBSET C!Message]
                 \cup [stage : {"stored"}, msg : C!Message]]
    BY <2>2 DEF Typed
  <2>8. table \subseteq C!Message /\ excused \subseteq C!Message
    BY <2>1 DEF Typed
  <2>9. clock \in 0 .. MaxMessages /\ online \in BOOLEAN /\ troubles \in 0 .. MaxTroubles
    BY DEF Typed
  <2> QED
    BY <2>3, <2>4, <2>5, <2>6, <2>7, <2>8, <2>9 DEF C!TypeOK
<1> QED
  BY <1>1, TypedHolds, PTL

\* A tidy thread has as many messages as it is long.
LEMMA TidyCount ==
  ASSUME NEW s \in Seq(Readable), Tidy(s)
  PROVE  Cardinality(C!ToSet(s)) = Len(s)
<1>1. s \in Bijection(1 .. Len(s), C!ToSet(s))
  BY DEF Tidy, Bijection, Injection, Surjection, IsInjective, C!ToSet
<1>2. IsFiniteSet(1 .. Len(s)) /\ Cardinality(1 .. Len(s)) = Len(s)
  <2>1. Len(s) \in Nat
    OBVIOUS
  <2> QED
    BY <2>1, FS_Interval
<1>3. ExistsBijection(1 .. Len(s), C!ToSet(s))
  BY <1>1 DEF ExistsBijection
<1> QED
  BY <1>2, <1>3, FS_Bijection

\* However live messages and the history come together, no thread has a message
\* twice, and each has only its own (ChatStore.Ingest, ChatStore.LoadHistory).
THEOREM ChatShownOnce == C!Spec => []ShownOnce
<1>1. Typed => ShownOnce
  <2> SUFFICES ASSUME Typed, NEW t \in C!Thread
               PROVE  /\ C!Cardinality(C!ToSet(log[t])) = Len(log[t])
                      /\ \A m \in C!ToSet(log[t]) :
                            IF t = C!Group THEN m.to = C!Group ELSE {m.from, m.to} = {Me, t}
    BY DEF ShownOnce, C!ShownOnce
  <2>1. log[t] \in Seq(Readable) /\ Tidy(log[t]) /\ \A m \in C!ToSet(log[t]) : C!Route(m) = t
    BY DEF Typed, Orderly
  <2>2. C!Cardinality(C!ToSet(log[t])) = Len(log[t])
    BY <2>1, TidyCount, ChatCardinality
  <2>3. ASSUME NEW m \in C!ToSet(log[t])
        PROVE  IF t = C!Group THEN m.to = C!Group ELSE {m.from, m.to} = {Me, t}
    <3>1. m \in Readable /\ C!Route(m) = t
      BY <2>1 DEF C!ToSet
    <3>2. /\ m.from \in Member /\ (m.to = C!Group \/ m.from = Me \/ m.to = Me)
          /\ m.from # C!Group
      BY <3>1, ChatAssumption DEF Readable, Sayable, C!Message, C!ForMe, C!AccountsAssumption, C!Group
    <3> QED
      BY <3>1, <3>2 DEF C!Route
  <2> QED
    BY <2>2, <2>3
<1> QED
  BY <1>1, TypedHolds, PTL

-----------------------------------------------------------------------------
(* No gap: a message is in the table before it is delivered.  Once all that  *)
(* could bring it is over (Settled), and the SELECT that would find it is    *)
(* done, it has been found, or is shown, or is outdated; each of the three   *)
(* stays or turns into the next one.                                         *)

\* A message is in the table once its transaction has committed, and not before.
Written ==
    /\ \A m \in table : m.at <= clock
    /\ \A a \in Writer : writing[a].stage # "idle" =>
          writing[a].msg.from = a /\ writing[a].msg.at <= clock
    /\ \A a \in Writer : writing[a].stage \in {"inserted", "pruned"} => writing[a].msg \notin table

\* Nothing is on its way any more that could bring m.
Settled(m) ==
    /\ m \notin excused
    /\ m \notin C!ToSet(wire)
    /\ \A a \in Writer : writing[a].stage = "idle" \/ writing[a].msg # m

\* A SELECT has found m, and the answer is not merged yet.
Found(m) ==
    \/ fetch.stage = "group" /\ m \in fetch.rows
    \/ fetch.stage = "answered" /\ m \in C!ToSet(fetch.rows)

NoGap ==
    \A m \in table : C!ForMe(m) /\ Settled(m) /\ C!SelectDone(m) =>
        Found(m) \/ Shows(log, m) \/ Outdated(table, m)

\* Who is sending after a step was sending the same before it, or has just begun.
LEMMA StillSending ==
  ASSUME Typed, [C!Next]_C!vars, NEW a \in Writer, writing'[a].stage # "idle"
  PROVE  \/ /\ writing[a].stage # "idle" /\ writing'[a].msg = writing[a].msg
            /\ writing'[a].stage \in {"inserted", "pruned"} => writing[a].stage \in {"inserted", "pruned"}
         \/ /\ writing[a].stage = "idle" /\ writing'[a].msg.from = a
            /\ writing'[a].msg.at = clock + 1 /\ clock' = clock + 1 /\ table' = table
<1>1. writing \in [Writer -> Sending]
  BY DEF Typed
<1>2. ASSUME NEW b \in Writer, NEW to, C!Insert(b, to)
      PROVE  \/ writing'[a] = writing[a]
             \/ /\ writing[a].stage = "idle" /\ writing'[a].msg.from = a
                /\ writing'[a].msg.at = clock + 1 /\ clock' = clock + 1 /\ table' = table
  <2>1. CASE a = b
    BY <1>1, <1>2, <2>1 DEF C!Insert, C!Idle
  <2>2. CASE a # b
    BY <1>1, <1>2, <2>2 DEF C!Insert
  <2> QED
    BY <2>1, <2>2
<1>3. ASSUME NEW b \in Writer, C!Prune(b)
      PROVE  \/ writing'[a] = writing[a]
             \/ writing[a].stage = "inserted" /\ writing'[a].msg = writing[a].msg
  <2> DEFINE doomed == C!Doomed(table \cup {writing[b].msg}, C!Conversation(writing[b].msg))
  <2>1. /\ writing[b].stage = "inserted"
        /\ writing' = [writing EXCEPT ![b].stage = "pruned", ![b].doomed = doomed]
    BY <1>3 DEF C!Prune
  <2>2. writing[b] = [stage |-> "inserted", msg |-> writing[b].msg, doomed |-> writing[b].doomed]
    BY <1>1, <2>1, SendingFields
  <2> HIDE DEF doomed
  <2>3. CASE a = b
    BY <1>1, <2>1, <2>2, <2>3
  <2>4. CASE a # b
    BY <1>1, <2>1, <2>4
  <2> QED
    BY <2>3, <2>4
<1>4. ASSUME NEW b \in Writer, C!Commit(b)
      PROVE  \/ writing'[a] = writing[a]
             \/ /\ writing[a].stage = "pruned" /\ writing'[a].msg = writing[a].msg
                /\ writing'[a].stage = "stored"
  <2>1. CASE a = b
    BY <1>1, <1>4, <2>1 DEF C!Commit
  <2>2. CASE a # b
    BY <1>1, <1>4, <2>2 DEF C!Commit
  <2> QED
    BY <2>1, <2>2
<1>5. ASSUME NEW b \in Writer, C!Abort(b) \/ C!Deliver(b) PROVE writing'[a] = writing[a]
  BY <1>1, <1>5 DEF C!Abort, C!Deliver, C!Idle
<1>6. ~ C!Restart
  BY DEF C!Restart, C!Idle
<1>7. CASE writing'[a] = writing[a]
  BY <1>7
<1> QED
  BY <1>2, <1>3, <1>4, <1>5, <1>6, <1>7
     DEF C!Next, C!vars, C!Subscribe, C!Cut, C!ReadGroup, C!ReadDms, C!FetchFails, C!LoadHistory, C!Ingest

\* What is in the table after a step was there before it, or is committed by it.
LEMMA NewRows ==
  ASSUME Typed, [C!Next]_C!vars, NEW m \in table'
  PROVE  \/ m \in table
         \/ \E b \in Writer : /\ writing[b].stage = "pruned" /\ m = writing[b].msg
                              /\ writing'[b].stage = "stored" /\ writing'[b].msg = m
<1>1. ASSUME NEW b \in Writer, C!Commit(b)
      PROVE  m \in table \/ (writing[b].stage = "pruned" /\ m = writing[b].msg
                             /\ writing'[b].stage = "stored" /\ writing'[b].msg = m)
  BY <1>1 DEF C!Commit, Typed
<1>2. CASE UNCHANGED table
  BY <1>2
<1> QED
  BY <1>1, <1>2
     DEF C!Next, C!vars, C!Insert, C!Prune, C!Abort, C!Deliver, C!Restart, C!Subscribe, C!Cut,
         C!ReadGroup, C!ReadDms, C!FetchFails, C!LoadHistory, C!Ingest

LEMMA ClockGoesOn ==
  ASSUME Typed, [C!Next]_C!vars
  PROVE  clock \in Int /\ clock' \in Int /\ clock <= clock'
<1>1. clock \in Int
  BY ChatAssumption DEF Typed, C!BoundsAssumption
<1>2. ASSUME NEW a \in Writer, NEW to, C!Insert(a, to) PROVE clock' = clock + 1
  BY <1>2 DEF C!Insert
<1>3. clock' = clock \/ clock' = clock + 1
  BY <1>2
     DEF C!Next, C!vars, C!Prune, C!Commit, C!Abort, C!Deliver, C!Restart, C!Subscribe,
         C!Cut, C!ReadGroup, C!ReadDms, C!FetchFails, C!LoadHistory, C!Ingest
<1> QED
  BY <1>1, <1>3

LEMMA WrittenInductive ==
  ASSUME Typed, Written, [C!Next]_C!vars
  PROVE  Written'
<1>1. clock \in Int /\ clock' \in Int /\ clock <= clock'
  BY ClockGoesOn
<1>2. \A m \in Sayable : m.at \in Int
  BY DEF Sayable, C!Message
<1>3. table \subseteq Sayable /\ \A b \in Writer : writing[b].stage # "idle" => writing[b].msg \in Sayable
  BY SendingFields DEF Typed
<1>4. ASSUME NEW m \in table' PROVE m.at <= clock /\ m.at <= clock'
  <2>1. m.at <= clock /\ m \in Sayable
    BY <1>3, NewRows DEF Written
  <2> QED
    BY <1>1, <1>2, <2>1
<1>5. ASSUME NEW a \in Writer, writing'[a].stage # "idle"
      PROVE  writing'[a].msg.from = a /\ writing'[a].msg.at <= clock'
  <2>1. CASE writing[a].stage # "idle" /\ writing'[a].msg = writing[a].msg
    BY <1>1, <1>2, <1>3, <2>1 DEF Written
  <2>2. CASE writing'[a].msg.from = a /\ writing'[a].msg.at = clock + 1 /\ clock' = clock + 1
    BY <1>1, <2>2
  <2> QED
    BY <1>5, <2>1, <2>2, StillSending
<1>6. ASSUME NEW a \in Writer, writing'[a].stage \in {"inserted", "pruned"}
      PROVE  writing'[a].msg \notin table'
  <2> DEFINE m == writing'[a].msg
  <2>1. SUFFICES ASSUME m \in table' PROVE FALSE
    OBVIOUS
  <2>2. CASE writing[a].stage = "idle" /\ m.at = clock + 1
    <3>1. m.at <= clock
      BY <1>4, <2>1
    <3> QED
      BY <1>1, <2>2, <3>1
  <2>3. CASE m = writing[a].msg /\ writing[a].stage \in {"inserted", "pruned"}
    <3>1. m \notin table
      BY <2>3 DEF Written
    <3>2. PICK b \in Writer : writing'[b].stage = "stored" /\ writing[b].stage = "pruned" /\ m = writing[b].msg
      BY <2>1, <3>1, NewRows
    <3>3. m.from = a /\ m.from = b
      BY <2>3, <3>2 DEF Written
    <3> QED
      BY <1>6, <3>2, <3>3
  <2> QED
    BY <1>6, <2>2, <2>3, StillSending
<1> QED
  BY <1>4, <1>5, <1>6 DEF Written

\* What is outdated stays so as long as it is there.
LEMMA OutdatedStays ==
  ASSUME ChatInv, [C!Next]_C!vars, NEW m, Outdated(table, m)
  PROVE  Outdated(table', m)
<1>1. ASSUME NEW b \in Writer, C!Commit(b) PROVE Outdated(table', m)
  <2> DEFINE rows == table \cup {writing[b].msg}
             gone == writing[b].doomed
  <2>1. writing[b].stage = "pruned" /\ table' = rows \ gone
    BY <1>1 DEF C!Commit
  <2>2. IsFiniteSet(rows) /\ (\A o \in rows : Stamped(o)) /\ \A x \in gone : Outdated(rows, x)
    BY <2>1, FS_AddElement DEF ChatInv
  <2>3. Outdated(rows, m)
    BY <2>2, MoreRows
  <2> HIDE DEF rows, gone
  <2> QED
    BY <2>1, <2>2, <2>3, StayOutdated
<1>2. CASE UNCHANGED table
  BY <1>2
<1> QED
  BY <1>1, <1>2
     DEF C!Next, C!vars, C!Insert, C!Prune, C!Abort, C!Deliver, C!Restart, C!Subscribe, C!Cut,
         C!ReadGroup, C!ReadDms, C!FetchFails, C!LoadHistory, C!Ingest

\* What the store shows, it shows after the step, or the thread is full.
LEMMA ShowsStays ==
  ASSUME Typed, [C!Next]_C!vars, NEW m \in Readable, Shows(log, m)
  PROVE  Shows(log', m)
<1>1. Orderly(log)
  BY DEF Typed
<1>2. ASSUME C!LoadHistory PROVE Shows(log', m)
  <2>1. fetch.rows \in Seq(Readable)
    BY <1>2, FetchingFields DEF C!LoadHistory, Typed
  <2>2. Orderly(C!Merged(log, fetch.rows)) /\ Shows(C!Merged(log, fetch.rows), m)
    BY <1>1, <2>1, MergedShows
  <2> QED
    BY <1>2, <2>2, SortedShows DEF C!LoadHistory
<1>3. ASSUME C!Ingest PROVE Shows(log', m)
  <2>1. Head(wire) \in Readable /\ log' = C!Put(log, Head(wire))
    BY <1>3, HeadOfWire DEF C!Ingest
  <2> QED
    BY <1>1, <2>1, PutOne
<1>4. CASE UNCHANGED log
  BY <1>4
<1> QED
  BY <1>2, <1>3, <1>4
     DEF C!Next, C!vars, C!Insert, C!Prune, C!Commit, C!Abort, C!Deliver, C!Restart, C!Subscribe,
         C!Cut, C!ReadGroup, C!ReadDms, C!FetchFails

\* LoadHistory and Ingest show what they take in.
LEMMA TakenIn ==
  ASSUME Typed, NEW m \in Readable,
         \/ C!LoadHistory /\ m \in C!ToSet(fetch.rows)
         \/ C!Ingest /\ m = Head(wire)
  PROVE  Shows(log', m)
<1>1. Orderly(log)
  BY DEF Typed
<1>2. ASSUME C!LoadHistory, m \in C!ToSet(fetch.rows) PROVE Shows(log', m)
  <2>1. fetch.rows \in Seq(Readable)
    BY <1>2, FetchingFields DEF C!LoadHistory, Typed
  <2>2. Orderly(C!Merged(log, fetch.rows)) /\ Shows(C!Merged(log, fetch.rows), m)
    BY <1>1, <1>2, <2>1, MergedShows
  <2> QED
    BY <1>2, <2>2, SortedShows DEF C!LoadHistory
<1>3. ASSUME C!Ingest, m = Head(wire) PROVE Shows(log', m)
  BY <1>1, <1>3, PutOne DEF C!Ingest
<1> QED
  BY <1>2, <1>3

\* A message of the table that is settled after a step and was not before has
\* been shown by it: every other way to settle makes an excuse for the reader.
LEMMA WasSettled ==
  ASSUME Typed, Written, [C!Next]_C!vars,
         NEW m \in table, m \in Readable, Settled(m)', C!SelectDone(m),
         ~ (C!Ingest /\ m = Head(wire))
  PROVE  Settled(m)
<1>1. ASSUME NEW a \in Writer, writing[a].stage \in {"inserted", "pruned"} PROVE writing[a].msg # m
  BY <1>1 DEF Written
<1>3. m \notin excused' /\ m \notin C!ToSet(wire')
      /\ \A a \in Writer : writing'[a].stage = "idle" \/ writing'[a].msg # m
  BY DEF Settled
<1>4. writing \in [Writer -> Sending] /\ wire \in Seq(Readable)
  BY DEF Typed
<1>5. m \notin excused
  BY <1>3
     DEF C!Next, C!vars, C!Insert, C!Prune, C!Commit, C!Abort, C!Deliver, C!Restart, C!Subscribe,
         C!Cut, C!ReadGroup, C!ReadDms, C!FetchFails, C!LoadHistory, C!Ingest, C!Lose
<1>6. m \notin C!ToSet(wire)
  <2>1. ASSUME NEW a \in Writer, C!Deliver(a) PROVE C!ToSet(wire) \subseteq C!ToSet(wire')
    <3> DEFINE o == writing[a].msg
    <3>1. wire' = Append(wire, o) \/ wire' = wire
      BY <2>1 DEF C!Deliver
    <3>2. C!ToSet(wire) \subseteq C!ToSet(Append(wire, o))
      <4> HIDE DEF o
      <4>1. \A i \in 1 .. Len(wire) : Append(wire, o)[i] = wire[i] /\ i \in 1 .. Len(wire) + 1
        BY <1>4
      <4>2. DOMAIN wire = 1 .. Len(wire) /\ DOMAIN Append(wire, o) = 1 .. Len(wire) + 1
        BY <1>4
      <4> QED
        BY <4>1, <4>2 DEF C!ToSet
    <3> QED
      BY <3>1, <3>2
  <2>2. C!Cut \/ C!Restart => \A o \in C!ToSet(wire) : C!SelectDone(o) => o \in excused'
    BY DEF C!Cut, C!Restart, C!Lose
  <2>3. C!Ingest => m \notin C!ToSet(wire)
    BY <1>3, HeadOfWire
  <2>4. CASE UNCHANGED wire
    BY <1>3, <2>4
  <2> QED
    BY <1>3, <2>1, <2>2, <2>3, <2>4
       DEF C!Next, C!vars, C!Insert, C!Prune, C!Commit, C!Abort, C!Subscribe,
           C!ReadGroup, C!ReadDms, C!FetchFails, C!LoadHistory
<1>7. ASSUME NEW a \in Writer, writing[a].stage # "idle", writing[a].msg = m PROVE FALSE
  <2>1. writing[a].stage = "stored"
    BY <1>1, <1>4, <1>7, SendingFields
  <2>2. ASSUME NEW b \in Writer, C!Deliver(b) PROVE b # a
    <3> SUFFICES ASSUME b = a PROVE FALSE
      OBVIOUS
    <3>1. wire' = Append(wire, m) \/ m \in excused'
      BY <1>7, <2>2 DEF C!Deliver, C!Lose
    <3>2. CASE wire' = Append(wire, m)
      <4>1. wire' = Append(wire, m) /\ m \in Readable
        BY <3>2
      <4>2. m \in C!ToSet(Append(wire, m))
        <5>1. Len(wire) + 1 \in DOMAIN Append(wire, m) /\ Append(wire, m)[Len(wire) + 1] = m
          BY <1>4
        <5> QED
          BY <5>1 DEF C!ToSet
      <4> QED
        BY <1>3, <4>1, <4>2
    <3> QED
      BY <1>3, <3>1, <3>2
  <2>3. ~ C!Restart
    BY <1>3, <1>7, <2>1 DEF C!Restart, C!Lose
  <2>4. writing'[a] = writing[a]
    <3>1. ASSUME NEW b \in Writer, NEW to, C!Insert(b, to) PROVE writing'[a] = writing[a]
      <4>1. b # a
        BY <2>1, <3>1 DEF C!Insert, C!Idle
      <4> QED
        BY <1>4, <3>1, <4>1 DEF C!Insert
    <3>2. ASSUME NEW b \in Writer, C!Prune(b) PROVE writing'[a] = writing[a]
      <4>1. b # a
        BY <2>1, <3>2 DEF C!Prune
      <4> QED
        BY <1>4, <3>2, <4>1 DEF C!Prune
    <3>3. ASSUME NEW b \in Writer, C!Commit(b) PROVE writing'[a] = writing[a]
      <4>1. b # a
        BY <2>1, <3>3 DEF C!Commit
      <4> QED
        BY <1>4, <3>3, <4>1 DEF C!Commit
    <3>4. ASSUME NEW b \in Writer, C!Abort(b) PROVE writing'[a] = writing[a]
      <4>1. b # a
        BY <2>1, <3>4 DEF C!Abort
      <4> QED
        BY <1>4, <3>4, <4>1 DEF C!Abort
    <3>5. ASSUME NEW b \in Writer, C!Deliver(b) PROVE writing'[a] = writing[a]
      BY <1>4, <2>2, <3>5 DEF C!Deliver
    <3>6. CASE UNCHANGED writing
      BY <3>6
    <3> QED
      BY <2>3, <3>1, <3>2, <3>3, <3>4, <3>5, <3>6
         DEF C!Next, C!vars, C!Subscribe, C!Cut, C!ReadGroup, C!ReadDms, C!FetchFails,
             C!LoadHistory, C!Ingest
  <2> QED
    BY <1>3, <1>7, <2>4
<1> QED
  BY <1>5, <1>6, <1>7 DEF Settled

\* The SELECTs find every message of the table that is not outdated.
LEMMA SelectsFind ==
  ASSUME ChatInv, NEW c, NEW m \in table, C!Conversation(m) = c, m \notin C!Newest(table, c)
  PROVE  Outdated(table, m)
<1>1. m \in C!Doomed(table, c)
  BY DEF C!Doomed
<1> QED
  BY <1>1, DoomedAreOutdated DEF ChatInv

LEMMA NoGapInductive ==
  ASSUME ChatInv, Typed, Written, NoGap, [C!Next]_C!vars
  PROVE  NoGap'
<1> SUFFICES ASSUME NEW m \in table', C!ForMe(m), Settled(m)', C!SelectDone(m)'
             PROVE  Found(m)' \/ Shows(log', m) \/ Outdated(table', m)
  BY DEF NoGap, C!ForMe, Shows, Outdated, Newer
<1>1. m \in table
  <2>1. \A b \in Writer : writing'[b].stage = "idle" \/ writing'[b].msg # m
    BY DEF Settled
  <2> QED
    BY <2>1, NewRows
<1>2. m \in Readable
  BY <1>1 DEF Typed, Readable
<1> SUFFICES ASSUME ~ Shows(log, m), ~ Outdated(table, m), ~ (C!Ingest /\ m = Head(wire))
             PROVE  Found(m)' \/ Shows(log', m)
  BY <1>2, ShowsStays, OutdatedStays, TakenIn
<1>3. C!SelectDone(m) => Found(m)
  BY <1>1, <1>2, WasSettled DEF NoGap
<1>4. CASE C!ReadGroup
  <2>1. fetch' = [stage |-> "group", rows |-> C!Newest(table, {C!Group})]
    BY <1>4 DEF C!ReadGroup
  <2>2. m.to = C!Group
    BY <2>1 DEF C!SelectDone
  <2>3. m \in C!Newest(table, {C!Group})
    BY <1>1, <2>2, SelectsFind DEF C!Conversation
  <2> QED
    BY <2>1, <2>3 DEF Found
<1>5. CASE C!ReadDms
  <2> DEFINE dms == UNION {C!Newest(table, {Me, p}) : p \in C!Peer}
             all == fetch.rows \cup dms
             answer == C!ByAt(C!SetToSeq(all))
  <2>1. /\ fetch.stage = "group" /\ fetch' = [stage |-> "answered", rows |-> answer]
        /\ C!ToSet(answer) = all
    BY <1>5, AnswerHasAll DEF C!ReadDms
  <2>2. m \in all
    <3>1. CASE m.to = C!Group
      <4>1. C!SelectDone(m)
        BY <2>1, <3>1 DEF C!SelectDone
      <4> QED
        BY <1>3, <2>1, <4>1 DEF Found
    <3>2. CASE m.to # C!Group
      <4>1. PICK p \in C!Peer : C!Conversation(m) = {Me, p}
        <5>1. m.from \in Member /\ m.to \in Member /\ m.to # m.from /\ Me \in {m.from, m.to}
          BY <1>2, <3>2 DEF Readable, Sayable, C!Message, C!ForMe
        <5> QED
          BY <3>2, <5>1 DEF C!Conversation, C!Peer
      <4>2. m \in C!Newest(table, {Me, p})
        BY <1>1, <4>1, SelectsFind
      <4> QED
        BY <4>2
    <3> QED
      BY <3>1, <3>2
  <2> HIDE DEF answer, all
  <2> QED
    BY <2>1, <2>2 DEF Found
<1>6. CASE C!FetchFails
  BY <1>6 DEF C!FetchFails, C!Failed, C!SelectDone
<1>7. CASE C!LoadHistory
  <2>1. fetch.stage = "answered" /\ C!SelectDone(m)
    BY <1>7 DEF C!LoadHistory, C!SelectDone
  <2>2. m \in C!ToSet(fetch.rows)
    BY <1>3, <2>1 DEF Found
  <2> QED
    BY <1>2, <1>7, <2>2, TakenIn
<1>8. CASE C!Restart
  <2>1. fetch' = fetch
    BY <1>8 DEF C!Restart, C!Failed, C!SelectDone
  <2>2. C!SelectDone(m)
    BY <2>1 DEF C!SelectDone
  <2> QED
    BY <1>3, <2>1, <2>2 DEF Found
<1>9. CASE UNCHANGED fetch
  <2>1. C!SelectDone(m)
    BY <1>9 DEF C!SelectDone
  <2> QED
    BY <1>3, <1>9, <2>1 DEF Found
<1> QED
  BY <1>4, <1>5, <1>6, <1>7, <1>8, <1>9
     DEF C!Next, C!vars, C!Insert, C!Prune, C!Commit, C!Abort, C!Deliver, C!Subscribe, C!Cut, C!Ingest

\* The inductive invariant of the chat.
ChatIInv == ChatInv /\ Typed /\ Written /\ NoGap

LEMMA ChatIInvHolds == C!Spec => []ChatIInv
<1>1. C!Init => Written /\ NoGap
  BY DEF C!Init, C!Idle, Written, NoGap
<1>2. ChatInv /\ Typed /\ Written /\ NoGap /\ [C!Next]_C!vars => Written' /\ NoGap'
  BY WrittenInductive, NoGapInductive
<1> QED
  BY <1>1, <1>2, ChatInvHolds, TypedHolds, PTL DEF C!Spec, ChatIInv

\* The reader has what was due, if its thread is not full: of a message that is
\* stored before it is delivered one of the SELECTs or the hub brings a copy, and
\* whoever brings it, the store keeps it (MessageReader.history, RealtimeHub.deliver,
\* ChatStore).  Not due is what is lost once the SELECT has passed it: on a
\* connection that breaks, with nobody subscribed, or to a full queue of the hub.
THEOREM ChatNothingMissed == C!Spec => []NothingMissed
<1>1. ChatIInv => NothingMissed
  <2> SUFFICES ASSUME ChatInv, Typed, NoGap, fetch = C!Loaded, NEW m \in C!Due
               PROVE  m \in C!ToSet(log[C!Route(m)]) \/ Len(log[C!Route(m)]) = ChatMax
    BY DEF ChatIInv, NothingMissed, C!NothingMissed
  <2>1. m \in table /\ C!ForMe(m) /\ Settled(m) /\ m \in C!Newest(table, C!Conversation(m))
    BY DEF C!Due, Settled
  <2>2. C!SelectDone(m) /\ ~ Found(m)
    BY DEF C!Loaded, C!SelectDone, Found
  <2>3. ~ Outdated(table, m)
    <3> DEFINE c == C!Conversation(m)
               newer == {o \in table : C!Conversation(o) = c /\ o.at > m.at}
    <3>1. C!Cardinality(newer) < C!Limit(c)
      BY <2>1 DEF C!Newest
    <3>2. newer = Newer(table, m)
      BY DEF Newer
    <3>3. IsFiniteSet(newer)
      <4>1. newer \subseteq table
        OBVIOUS
      <4> HIDE DEF newer
      <4> QED
        BY <4>1, FS_Subset DEF Typed
    <3> HIDE DEF newer, c
    <3>4. Cardinality(newer) \in Nat /\ C!Limit(c) \in Nat /\ Cardinality(newer) < C!Limit(c)
      BY <3>1, <3>3, FS_CardinalityType, LimitsAreCounted, ChatCardinality
    <3> QED
      BY <3>2, <3>4 DEF Outdated, c
  <2> QED
    BY <2>1, <2>2, <2>3 DEF NoGap, Shows
<1> QED
  BY <1>1, ChatIInvHolds, PTL
=============================================================================
