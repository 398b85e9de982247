--------------------------- MODULE AccountsProofs ---------------------------
(***************************************************************************)
(* Revocation and sessions, for any number of accounts, devices and        *)
(* requests.  What is needed beyond the properties is what a request knows *)
(* at each of its steps, and that no two requests draw the same id.        *)
(***************************************************************************)
EXTENDS AccountsProperties, TLAPS

Steps ==
    {<<"register", "account">>, <<"register", "room">>, <<"register", "find">>,
     <<"recover", "verifier">>, <<"recover", "device">>, <<"recover", "find">>,
     <<"link", "issuer">>, <<"link", "device">>, <<"link", "find">>,
     <<"code", "actor">>, <<"code", "sign">>,
     <<"revoke", "actor">>, <<"revoke", "update">>}

Creates(r) == r.op \in {"register", "recover", "link"}

\* Whoever has a session, or a code out, is of an account with a room.
Housed ==
    /\ \A d \in Device : session[d] # "none" => owner[d] \in housed
    /\ \A c \in codes : session[c.issuer] # "none"

\* What the request in slot p can rely on while it is under way.
KnowsOf(p) ==
    /\ <<req[p].op, req[p].step>> \in Steps
    /\ req[p].op \in {"link", "code", "revoke"} =>
          /\ req[p].by \in Device /\ session[req[p].by] # "none"
          /\ owner[req[p].by] = req[p].account
    /\ req[p].op = "recover" => req[p].account \in housed
    /\ req[p].step = "find" => req[p].account \in housed
    /\ req[p].step = "room" => req[p].account \in accounts
    /\ req[p].late => req[p].by \in revoked
    /\ req[p].op \in {"register", "recover"} => ~req[p].late
    /\ req[p].op # "code" => req[p].device \in Device
    /\ req[p].step \in {"account", "verifier", "issuer", "device"} => owner[req[p].device] = NoOne
    /\ req[p].step \in {"room", "find"} => owner[req[p].device] = req[p].account

Knows == \A p \in Request : req[p] # Idle => KnowsOf(p)

\* No two requests create the same device.
Distinct ==
    \A p, q \in Request :
        p # q /\ req[p] # Idle /\ req[q] # Idle /\ Creates(req[p]) /\ Creates(req[q])
          => req[p].device # req[q].device

IInv == TypeOK /\ RevokedHasNoSay /\ SessionHasRoom /\ Housed /\ Knows /\ Distinct

USE NoOneAssumption, LinkTTLAssumption

LEMMA InitInv == Init => IInv
  BY DEF Init, IInv, TypeOK, RevokedHasNoSay, SessionHasRoom, Housed, Knows, Distinct, Idle, Busy

\* A request that arrives knows what its kind knows, and draws a fresh id.
LEMMA BeginInv ==
    ASSUME IInv, NEW p \in Request,
           NEW op \in {"register", "recover", "link", "code", "revoke"},
           NEW step \in {"account", "verifier", "issuer", "actor"}, <<op, step>> \in Steps,
           NEW by \in Device \cup {NoOne}, NEW a \in Account, NEW d \in Device \cup {NoOne},
           op \in {"link", "code", "revoke"} =>
              by \in Device /\ session[by] # "none" /\ owner[by] = a,
           op \in {"register", "recover"} => by = NoOne,
           op = "recover" => a \in housed,
           op = "revoke" => d \in Device,
           op \in {"register", "recover", "link"} => d \in FreshDevices,
           Begin(p, op, step, by, a, d)
    PROVE  IInv'
  <1> DEFINE r == [op |-> op, step |-> step, by |-> by, account |-> a, device |-> d, late |-> by \in revoked]
  <1>1. /\ req[p] = Idle /\ req' = [req EXCEPT ![p] = r]
        /\ UNCHANGED <<owner, revoked, accounts, housed, session, codes>>
    BY DEF Begin
  <1>2. r \in Busy /\ r # Idle
    BY DEF Busy, Idle
  <1>3. req'[p] = r /\ \A q \in Request : q # p => req'[q] = req[q]
    BY <1>1 DEF IInv, TypeOK
  <1>4. TypeOK'
    BY <1>1, <1>2 DEF IInv, TypeOK
  <1>5. RevokedHasNoSay'
    BY <1>3 DEF IInv, RevokedHasNoSay
  <1>6. SessionHasRoom' /\ Housed'
    BY <1>1 DEF IInv, SessionHasRoom, Housed
  <1>7. Knows'
    <2> SUFFICES ASSUME NEW q \in Request, req'[q] # Idle PROVE KnowsOf(q)'
      BY DEF Knows
    <2> USE DEF KnowsOf
    <2>1. CASE q = p
      <3>1. /\ req'[q].op = op /\ req'[q].step = step /\ req'[q].by = by
            /\ req'[q].account = a /\ req'[q].device = d
        BY <2>1, <1>3
      <3>2. req'[q].late => by \in revoked
        <4> DEFINE revokedBefore == by \in revoked
        <4>1. r = [op |-> op, step |-> step, by |-> by, account |-> a, device |-> d, late |-> revokedBefore]
          OBVIOUS
        <4> HIDE DEF revokedBefore
        <4>2. r.late = revokedBefore
          BY <4>1
        <4>3. req'[q].late => revokedBefore
          BY <2>1, <1>3, <4>2
        <4> QED BY <4>3 DEF revokedBefore
      <3>3. op \in {"register", "recover", "link"} => d \in Device /\ owner[d] = NoOne
        BY DEF FreshDevices
      <3>4. step # "actor" => op \in {"register", "recover", "link"}
        BY DEF Steps
      <3>5. op \in {"register", "recover"} => by \notin revoked
        BY DEF IInv, TypeOK
      <3> QED BY <3>1, <3>2, <3>3, <3>4, <3>5, <1>1
    <2>2. CASE q # p
      BY <2>2, <1>1, <1>3 DEF IInv, Knows, Creates
    <2> QED BY <2>1, <2>2
  <1>8. Distinct'
    BY <1>1, <1>3 DEF IInv, Distinct, Creates, FreshDevices
  <1> QED BY <1>4, <1>5, <1>6, <1>7, <1>8 DEF IInv

LEMMA ArriveInv == ASSUME IInv, NEW p \in Request, Arrive(p) PROVE IInv'
  <1>1. CASE Register(p)
    <2>1. PICK a \in FreshAccounts, d \in FreshDevices : Begin(p, "register", "account", NoOne, a, d)
      BY <1>1 DEF Register
    <2>2. a \in Account /\ d \in Device
      BY DEF FreshAccounts, FreshDevices
    <2> QED BY <2>1, <2>2, BeginInv DEF Steps
  <1>2. CASE Recover(p)
    <2>1. PICK e \in Device, d \in FreshDevices :
             session[e] # "none" /\ Begin(p, "recover", "verifier", NoOne, owner[e], d)
      BY <1>2 DEF Recover
    <2>2. owner[e] \in housed /\ owner[e] \in Account /\ d \in Device
      BY <2>1 DEF IInv, Housed, TypeOK, FreshDevices
    <2> QED BY <2>1, <2>2, BeginInv DEF Steps
  <1>3. CASE Link(p)
    <2>1. PICK c \in codes, d \in FreshDevices :
             Begin(p, "link", "issuer", c.issuer, owner[c.issuer], d)
      BY <1>3 DEF Link
    <2>2. c.issuer \in Device /\ session[c.issuer] # "none" /\ d \in Device
      BY DEF IInv, Housed, TypeOK, FreshDevices
    <2>3. owner[c.issuer] \in Account
      BY <2>2 DEF IInv, Housed, TypeOK
    <2> QED BY <2>1, <2>2, <2>3, BeginInv DEF Steps
  <1>4. CASE AskCode(p)
    <2>1. PICK e \in Device : session[e] # "none" /\ Begin(p, "code", "actor", e, owner[e], NoOne)
      BY <1>4 DEF AskCode
    <2>2. owner[e] \in Account
      BY <2>1 DEF IInv, Housed, TypeOK
    <2> QED BY <2>1, <2>2, BeginInv DEF Steps
  <1>5. CASE Revoke(p)
    <2>1. PICK e, d \in Device : session[e] # "none" /\ Begin(p, "revoke", "actor", e, owner[e], d)
      BY <1>5 DEF Revoke
    <2>2. owner[e] \in Account
      BY <2>1 DEF IInv, Housed, TypeOK
    <2> QED BY <2>1, <2>2, BeginInv DEF Steps
  <1> QED BY <1>1, <1>2, <1>3, <1>4, <1>5 DEF Arrive

LEMMA ProceedInv == ASSUME IInv, NEW p \in Request, Proceed(p) PROVE IInv'
  <1> USE DEF IInv, TypeOK, RevokedHasNoSay, SessionHasRoom, Housed, Knows, Distinct, Idle, Busy,
              Steps, KnowsOf, Creates, At, Step, Finish, Active
  <1>1. CASE RequireActor(p)
    BY <1>1, SMTT(60) DEF RequireActor
  <1>2. CASE CheckIssuer(p)
    BY <1>2, SMTT(60) DEF CheckIssuer
  <1>3. CASE CheckVerifier(p)
    <2>1. TypeOK' /\ SessionHasRoom' /\ Housed'
      BY <1>3, SMTT(30) DEF CheckVerifier
    <2>2. RevokedHasNoSay'
      BY <1>3, SMTT(30) DEF CheckVerifier
    <2>3. Knows'
      <3> SUFFICES ASSUME NEW q \in Request, req'[q] # Idle PROVE KnowsOf(q)'
        BY Zenon DEF Knows
      <3>1. CASE q = p
        BY <3>1, <1>3, SMTT(30) DEF CheckVerifier
      <3>2. CASE q # p
        BY <3>2, <1>3, SMTT(30) DEF CheckVerifier
      <3> QED BY <3>1, <3>2
    <2>4. Distinct'
      BY <1>3, SMTT(30) DEF CheckVerifier
    <2> QED BY <2>1, <2>2, <2>3, <2>4
  <1>4. CASE CreateAccount(p)
    BY <1>4, SMTT(60) DEF CreateAccount
  <1>5. CASE CreateRoom(p)
    <2>1. TypeOK' /\ SessionHasRoom' /\ Housed'
      BY <1>5, SMTT(30) DEF CreateRoom
    <2>2. RevokedHasNoSay'
      BY <1>5, SMTT(30) DEF CreateRoom
    <2>3. Knows'
      <3> SUFFICES ASSUME NEW q \in Request, req'[q] # Idle PROVE KnowsOf(q)'
        BY Zenon DEF Knows
      <3>1. CASE q = p
        BY <3>1, <1>5, SMTT(30) DEF CreateRoom
      <3>2. CASE q # p
        BY <3>2, <1>5, SMTT(30) DEF CreateRoom
      <3> QED BY <3>1, <3>2
    <2>4. Distinct'
      BY <1>5, SMTT(30) DEF CreateRoom
    <2> QED BY <2>1, <2>2, <2>3, <2>4
  <1>6. CASE CreateDevice(p)
    BY <1>6, SMTT(60) DEF CreateDevice
  <1>7. CASE Answer(p)
    BY <1>7, SMTT(60) DEF Answer
  <1>8. CASE SignCode(p)
    BY <1>8, SMTT(60) DEF SignCode
  <1>9. CASE UpdateRevoked(p)
    <2>1. TypeOK' /\ SessionHasRoom' /\ Housed'
      BY <1>9, SMTT(30) DEF UpdateRevoked
    <2>2. RevokedHasNoSay'
      BY <1>9, SMTT(30) DEF UpdateRevoked
    <2>3. Knows'
      <3> SUFFICES ASSUME NEW q \in Request, req'[q] # Idle PROVE KnowsOf(q)'
        BY Zenon DEF Knows
      <3>1. CASE q = p
        BY <3>1, <1>9, SMTT(30) DEF UpdateRevoked
      <3>2. CASE q # p
        BY <3>2, <1>9, SMTT(30) DEF UpdateRevoked
      <3> QED BY <3>1, <3>2
    <2>4. Distinct'
      BY <1>9, SMTT(30) DEF UpdateRevoked
    <2> QED BY <2>1, <2>2, <2>3, <2>4
  <1>10. CASE Abort(p)
    BY <1>10, SMTT(60) DEF Abort
  <1> QED BY <1>1, <1>2, <1>3, <1>4, <1>5, <1>6, <1>7, <1>8, <1>9, <1>10 DEF Proceed

LEMMA TickInv == ASSUME IInv, Tick PROVE IInv'
  BY SMTT(30) DEF Tick, IInv, TypeOK, RevokedHasNoSay, SessionHasRoom, Housed, Knows, Distinct, Idle, Busy,
     Steps, KnowsOf, Creates

LEMMA StepInv == IInv /\ [Next]_vars => IInv'
  <1> SUFFICES ASSUME IInv, [Next]_vars PROVE IInv'
    OBVIOUS
  <1>1. CASE Next
    BY <1>1, ArriveInv, ProceedInv, TickInv DEF Next
  <1>2. CASE UNCHANGED vars
    BY <1>2 DEF vars, IInv, TypeOK, RevokedHasNoSay, SessionHasRoom, Housed, Knows, KnowsOf, Distinct, Creates
  <1> QED BY <1>1, <1>2

LEMMA Invariance == Spec => []IInv
  BY InitInv, StepInv, PTL DEF Spec

\* Types of the tables, the codes and the requests in flight.
THEOREM AccountsTypeOK == Spec => []TypeOK
  <1>1. IInv => TypeOK BY DEF IInv
  <1> QED BY <1>1, Invariance, PTL

\* A revoked device, or a code it has handed out, changes nothing any more.
THEOREM AccountsRevokedHasNoSay == Spec => []RevokedHasNoSay
  <1>1. IInv => RevokedHasNoSay BY DEF IInv
  <1> QED BY <1>1, Invariance, PTL

\* No session is answered for an account without a room.
THEOREM AccountsSessionHasRoom == Spec => []SessionHasRoom
  <1>1. IInv => SessionHasRoom BY DEF IInv
  <1> QED BY <1>1, Invariance, PTL

\* A device is revoked by a device of its own account.
THEOREM AccountsRevokeStaysHome == Spec => RevokeStaysHome
  <1> DEFINE Home == \A d \in revoked' \ revoked :
                        \E p \in Request :
                           /\ req[p] # Idle /\ req'[p] = Idle
                           /\ req[p].op = "revoke"
                           /\ owner[req[p].by] = owner[d]
  <1>1. IInv /\ [Next]_vars => [Home]_vars
    <2> SUFFICES ASSUME IInv, Next, NEW d \in revoked' \ revoked
                 PROVE  \E p \in Request :
                           /\ req[p] # Idle /\ req'[p] = Idle
                           /\ req[p].op = "revoke"
                           /\ owner[req[p].by] = owner[d]
      OBVIOUS
    <2>1. PICK p \in Request : UpdateRevoked(p)
      BY DEF Next, Tick, Arrive, Register, Recover, Link, AskCode, Revoke, Begin, Proceed, RequireActor,
             CheckIssuer, CheckVerifier, CreateAccount, CreateRoom, CreateDevice, Answer, SignCode, Abort
    <2>2. d = req[p].device /\ owner[d] = req[p].account
      BY <2>1 DEF UpdateRevoked
    <2>3. req[p] # Idle /\ req[p].step = "update"
      BY <2>1 DEF UpdateRevoked, At, Idle
    <2>4. req[p].op = "revoke" /\ owner[req[p].by] = req[p].account
      BY <2>3, SMTT(30) DEF IInv, Knows, KnowsOf, Steps, TypeOK, Busy, Idle
    <2>5. req'[p] = Idle
      BY <2>1 DEF UpdateRevoked, Finish, IInv, TypeOK
    <2> QED BY <2>2, <2>3, <2>4, <2>5
  <1> QED BY <1>1, Invariance, PTL DEF Spec, RevokeStaysHome
=============================================================================
