--------------------------- MODULE RoomsProperties ---------------------------
(***************************************************************************)
(* What must hold of Rooms, whatever requests run at the same time.        *)
(***************************************************************************)
EXTENDS Rooms

M == INSTANCE Membership

\* A room with anybody in it has exactly one owner: no interleaving of kicks,
\* leaves and role changes, each checked before its transaction, removes or
\* demotes the owner or makes a second one (policy.py never lets the owner be
\* the target; the check is stale by the time of the write).
OneOwner ==
    \A r \in Room :
        /\ MembersOf(r) # {} => Founded(r)
        /\ \A a, b \in Account : role[r][a] = "owner" /\ role[r][b] = "owner" => a = b

\* What a request in flight was allowed to do is still harmless when it does
\* it: its room exists, and the account its DELETE or UPDATE is about is not the
\* owner, although the checks were made some steps ago and roles have moved
\* since (kick_member.py, set_member_role.py and leave_room.py check outside the
\* transaction that writes).  A code can only be for a room that exists.
RequestsStayJustified ==
    /\ \A code \in invite : Founded(code.room)
    /\ \A p \in Request :
          LET q == req[p] IN
          /\ q.step \in {"sign", "join"} => Founded(q.room)
          /\ q.step \in {"kick", "appoint"} /\ q.actorRole \in ManagerRoles => Founded(q.room)
          /\ q.step \in {"remove", "update"} =>
                Founded(q.room) /\ role[q.room][q.target] # "owner"

\* The table changes only the ways Membership allows: founded once, entered as
\* a plain member and only by invitation to a founded room, appointed only
\* while in the room (an UPDATE that finds no row does nothing), left by
\* anybody but the owner.
ImplementsMembership == M!Spec

\* The doors close: an invite dies with its TTL and a request cannot wait for
\* ever, so once no invite is signed any more nobody new gets into a room.
\* Until then a kicked account can come back with any invite still good.
DoorsClose ==
    <>[][invite' = invite]_vars
      => <>[][\A r \in Room, a \in Account :
                 role[r][a] = NoRole => role'[r][a] \in {NoRole, "owner"}]_vars
=============================================================================
