------------------------------ MODULE Accounts ------------------------------
(***************************************************************************)
(* Accounts and their devices (server/src/app/modules/accounts): register, *)
(* recover, link by code, revoke, with every request a sequence of         *)
(* statements that interleave with those of the others.                    *)
(*                                                                         *)
(* A request acts on somebody's authority: the device whose token it       *)
(* bears, or the device that issued the code it presents.  Signatures and  *)
(* secrets are taken to be what they claim.                                *)
(***************************************************************************)
EXTENDS Integers

CONSTANTS Account, Device, \* the ids that are drawn
          Request,         \* slots for the requests in flight
          LinkTTL,         \* LINK_TTL, in ticks
          NoOne            \* no account, no device

ASSUME LinkTTLAssumption == LinkTTL \in Nat
ASSUME NoOneAssumption == NoOne \notin Account \cup Device

VARIABLES owner,   \* devices.account_id, NoOne for an id without a row
          revoked, \* devices.revoked
          accounts,\* the accounts that have a row
          housed,  \* the accounts that own a room
          session, \* the devices whose session has been answered, with or without a room
          codes,   \* the link codes that are out: the issuer and the ticks left
          req      \* the requests in flight

vars == <<owner, revoked, accounts, housed, session, codes, req>>

\* A request.  by: whose authority it acts on; account: whom it is about;
\* device: the one it creates or revokes; late: history, whether the authority
\* was revoked before the request came.
Idle == [step |-> "idle"]
Busy == [op : {"register", "recover", "link", "code", "revoke"},
         step : {"actor", "issuer", "verifier", "account", "room", "device", "find", "sign", "update"},
         by : Device \cup {NoOne}, account : Account, device : Device \cup {NoOne},
         late : BOOLEAN]

TypeOK ==
    /\ owner \in [Device -> Account \cup {NoOne}]
    /\ revoked \in SUBSET Device
    /\ accounts \in SUBSET Account
    /\ housed \in SUBSET accounts
    /\ session \in [Device -> {"none", "room", "roomless"}]
    /\ codes \in SUBSET [issuer : Device, left : 0 .. LinkTTL]
    /\ req \in [Request -> Busy \cup {Idle}]
    /\ \A d \in Device : owner[d] \in accounts \cup {NoOne}

Init ==
    /\ owner = [d \in Device |-> NoOne]
    /\ revoked = {} /\ accounts = {} /\ housed = {}
    /\ session = [d \in Device |-> "none"]
    /\ codes = {}
    /\ req = [p \in Request |-> Idle]

Active(d) == owner[d] # NoOne /\ d \notin revoked
At(p, step) == req[p].step = step
Step(p, step) == req' = [req EXCEPT ![p].step = step]
Finish(p) == req' = [req EXCEPT ![p] = Idle]

\* The ids generate_account_id and generate_device_id may draw.
FreshAccounts == Account \ (accounts \cup {req[p].account : p \in {q \in Request : req[q] # Idle}})
FreshDevices ==
    {d \in Device : owner[d] = NoOne /\ \A p \in Request : req[p] # Idle => req[p].device # d}

Begin(p, op, step, by, a, d) ==
    /\ req[p] = Idle
    /\ req' = [req EXCEPT ![p] = [op |-> op, step |-> step, by |-> by, account |-> a, device |-> d,
                                  late |-> by \in revoked]]
    /\ UNCHANGED <<owner, revoked, accounts, housed, session, codes>>

-----------------------------------------------------------------------------
\* The requests that arrive.

Register(p) == \E a \in FreshAccounts, d \in FreshDevices : Begin(p, "register", "account", NoOne, a, d)

\* The id of an account is known to those who have had a session of it.
Recover(p) ==
    \E e \in Device, d \in FreshDevices :
        session[e] # "none" /\ Begin(p, "recover", "verifier", NoOne, owner[e], d)

\* The account is in the code too, and is the issuer's.
Link(p) == \E c \in codes, d \in FreshDevices : Begin(p, "link", "issuer", c.issuer, owner[c.issuer], d)

AskCode(p) == \E e \in Device : session[e] # "none" /\ Begin(p, "code", "actor", e, owner[e], NoOne)

Revoke(p) ==
    \E e, d \in Device : session[e] # "none" /\ Begin(p, "revoke", "actor", e, owner[e], d)

-----------------------------------------------------------------------------
\* Their steps.

\* require_actor: the token's device is looked up.
RequireActor(p) ==
    /\ At(p, "actor")
    /\ IF Active(req[p].by) THEN Step(p, IF req[p].op = "code" THEN "sign" ELSE "update") ELSE Finish(p)
    /\ UNCHANGED <<owner, revoked, accounts, housed, session, codes>>

\* Mutant: a code is as good as its signature.
CodeIsEnough(p) ==
    /\ At(p, "issuer")
    /\ Step(p, "device")
    /\ UNCHANGED <<owner, revoked, accounts, housed, session, codes>>

\* LinkDevice: the account is there, and its issuer is still active.  Accounts
\* are never deleted, so the first of the two SELECTs is not a step of its own.
CheckIssuer(p) ==
    /\ At(p, "issuer")
    /\ IF req[p].account \in accounts /\ Active(req[p].by) THEN Step(p, "device") ELSE Finish(p)
    /\ UNCHANGED <<owner, revoked, accounts, housed, session, codes>>

\* RecoverAccount: the verifier is there and is the secret's.
CheckVerifier(p) ==
    /\ At(p, "verifier")
    /\ IF req[p].account \in accounts THEN Step(p, "device") ELSE Finish(p)
    /\ UNCHANGED <<owner, revoked, accounts, housed, session, codes>>

\* Mutant: the session is answered before there is a room.
AccountWithoutRoom(p) ==
    /\ At(p, "account")
    /\ accounts' = accounts \cup {req[p].account}
    /\ owner' = [owner EXCEPT ![req[p].device] = req[p].account]
    /\ Step(p, "find")
    /\ UNCHANGED <<revoked, housed, session, codes>>

\* RegisterAccount: the account and its first device, in one transaction.
CreateAccount(p) ==
    /\ At(p, "account")
    /\ accounts' = accounts \cup {req[p].account}
    /\ owner' = [owner EXCEPT ![req[p].device] = req[p].account]
    /\ Step(p, "room")
    /\ UNCHANGED <<revoked, housed, session, codes>>

\* Then its room, in another.
CreateRoom(p) ==
    /\ At(p, "room")
    /\ housed' = housed \cup {req[p].account}
    /\ Step(p, "find")
    /\ UNCHANGED <<owner, revoked, accounts, session, codes>>

CreateDevice(p) ==
    /\ At(p, "device")
    /\ owner' = [owner EXCEPT ![req[p].device] = req[p].account]
    /\ Step(p, "find")
    /\ UNCHANGED <<revoked, accounts, housed, session, codes>>

\* managed_room (which register knows already), and the answer.  An owner keeps
\* his room: the rooms module never takes it away.
Answer(p) ==
    /\ At(p, "find")
    /\ session' = [session EXCEPT ![req[p].device] =
                      IF req[p].account \in housed THEN "room" ELSE "roomless"]
    /\ Finish(p)
    /\ UNCHANGED <<owner, revoked, accounts, housed, codes>>

SignCode(p) ==
    /\ At(p, "sign")
    /\ codes' = codes \cup {[issuer |-> req[p].by, left |-> LinkTTL]}
    /\ Finish(p)
    /\ UNCHANGED <<owner, revoked, accounts, housed, session>>

\* UPDATE devices SET revoked, where the account is the actor's.
UpdateRevoked(p) ==
    /\ At(p, "update")
    /\ revoked' = IF owner[req[p].device] = req[p].account THEN revoked \cup {req[p].device} ELSE revoked
    /\ Finish(p)
    /\ UNCHANGED <<owner, accounts, housed, session, codes>>

\* A statement fails, the process dies or the answer is lost: what has been
\* committed stays.
Abort(p) ==
    /\ req[p] # Idle
    /\ Finish(p)
    /\ UNCHANGED <<owner, revoked, accounts, housed, session, codes>>

\* verify_code takes a code as long as exp >= now; after that it is gone.
Tick ==
    /\ codes' = {[c EXCEPT !.left = @ - 1] : c \in {k \in codes : k.left > 0}}
    /\ UNCHANGED <<owner, revoked, accounts, housed, session, req>>

Arrive(p) == Register(p) \/ Recover(p) \/ Link(p) \/ AskCode(p) \/ Revoke(p)

Proceed(p) ==
    \/ RequireActor(p) \/ CheckIssuer(p) \/ CheckVerifier(p)
    \/ CreateAccount(p) \/ CreateRoom(p) \/ CreateDevice(p) \/ Answer(p)
    \/ SignCode(p) \/ UpdateRevoked(p)
    \/ Abort(p)

Next == (\E p \in Request : Arrive(p) \/ Proceed(p)) \/ Tick

Spec == Init /\ [][Next]_vars
=============================================================================
