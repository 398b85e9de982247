----------------------------- MODULE Membership -----------------------------
(***************************************************************************)
(* What the rooms module of the server promises about the table            *)
(* room_members, whatever the interleaving of the requests that read it    *)
(* and write it: a room is founded once, by the account that owns it for   *)
(* ever; other accounts enter as plain members, are appointed and          *)
(* dismissed as admins, and exit.  Nobody enters a room that has not been  *)
(* founded, and nobody is appointed who is not in the room.                *)
(*                                                                         *)
(* Rooms.tla implements this specification.                                *)
(***************************************************************************)
CONSTANTS Account,  \* the accounts
          Room      \* the room ids the server may draw

VARIABLE role       \* role[r][a]: what account a is in room r

NoRole == "none"
Roles == {"owner", "admin", "member"}

MembershipType == role \in [Room -> [Account -> Roles \cup {NoRole}]]

Founded(r) == \E a \in Account : role[r][a] = "owner"
MembersOf(r) == {a \in Account : role[r][a] # NoRole}

Init == role = [r \in Room |-> [a \in Account |-> NoRole]]

Found(r, a) ==
    /\ MembersOf(r) = {}
    /\ role' = [role EXCEPT ![r][a] = "owner"]

Enter(r, a) ==
    /\ Founded(r)
    /\ role[r][a] = NoRole
    /\ role' = [role EXCEPT ![r][a] = "member"]

Exit(r, a) ==
    /\ role[r][a] \in {"admin", "member"}
    /\ role' = [role EXCEPT ![r][a] = NoRole]

Appoint(r, a, as) ==
    /\ role[r][a] \in {"admin", "member"}
    /\ role' = [role EXCEPT ![r][a] = as]

Next ==
    \E r \in Room, a \in Account :
        \/ Found(r, a)
        \/ Enter(r, a)
        \/ Exit(r, a)
        \/ \E as \in {"admin", "member"} : Appoint(r, a, as)

Spec == Init /\ [][Next]_role
=============================================================================
