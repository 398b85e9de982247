------------------------------ MODULE Commands ------------------------------
(***************************************************************************)
(* The commands that change the account file, config.json: each is a       *)
(* process that may load it, calls a server, and writes all of it anew.    *)
(* Processes run beside each other, die at any point, and their calls fail *)
(* or are answered; nothing is locked.                                     *)
(*                                                                         *)
(* An account is its number, and so is the room it was registered with,    *)
(* which it owns; a secret is the number of its account.                   *)
(***************************************************************************)
EXTENDS Integers, Sequences, FiniteSets, Functions

CONSTANTS
    Process,
    Server,
    NoServer,     \* an invite that is a bare code
    None,         \* no file, no room, no secret
    Torn,         \* a file that is not whole
    MaxCommands   \* bound on the commands

VARIABLES
    config,    \* the file
    command,   \* by process, what it is at
    registry,  \* the server of each account
    issued,    \* the account of each device
    member,    \* who is in which room: pairs of a room and an account
    joined,    \* history: who ever was
    started    \* how many commands there have been

servers == <<registry, issued, member, joined>>
vars == <<config, command, registry, issued, member, joined, started>>

Account == DOMAIN registry
Idle == [at |-> "idle"]
Kinds == <<"desktop", "server">>

TypeOK ==
    LET Config == [server : Server, account : Account, secret : Account \cup {None},
                   device : DOMAIN issued, room : Account \cup {None},
                   kind : Range(Kinds)]
    IN  /\ config \in Config \cup {None, Torn}
        /\ \A p \in Process : command[p].at \in {"idle", "load", "call", "truncate", "write"}
        /\ registry \in Seq(Server) /\ issued \in Seq(Account)
        /\ member \subseteq Account \X Account /\ member \subseteq joined
        /\ started \in 0..MaxCommands

\* Another device has made an account on each server.
Init ==
    /\ config = None
    /\ command = [p \in Process |-> Idle]
    /\ registry = CHOOSE s \in [1..Cardinality(Server) -> Server] :
                    \A i, j \in DOMAIN s : s[i] = s[j] => i = j
    /\ issued = [i \in DOMAIN registry |-> i]
    /\ member = {<<a, a>> : a \in Account} /\ joined = member
    /\ started = 0

Becomes(p, c) == command' = [command EXCEPT ![p] = c]

-----------------------------------------------------------------------------
(* A process. *)

\* These need no file; the others load it first.
FileLess == {"register", "link", "recover"}

Start(p, name, server, of) ==
    /\ started < MaxCommands /\ started' = started + 1
    /\ command[p] = Idle
    /\ Becomes(p, [at |-> IF name \in FileLess THEN "call" ELSE "load",
                   name |-> name, server |-> server, of |-> of, then |-> "end"])
    /\ UNCHANGED <<config, servers>>

\* What is to be written; the write is "alone" until another one comes between.
ToWrite(next, of, then) ==
    [at |-> "truncate", next |-> next, of |-> of, then |-> then, alone |-> TRUE]

\* Without a whole file most commands end.  An invite that names a server registers
\* there, and so it does if the file names another server.
Load(p) ==
    LET c == command[p]
        whole == config \notin {None, Torn}
        anew == c.name = "join" /\ c.server # NoServer
                /\ (~whole \/ config.server # c.server)
    IN  /\ c.at = "load"
        /\ CASE anew -> Becomes(p, [at |-> "call", name |-> "register",
                                    server |-> c.server, of |-> c.of, then |-> "join"])
             [] ~anew /\ ~whole -> Becomes(p, Idle)
             [] ~anew /\ whole /\ c.name = "kind" ->
                  Becomes(p, ToWrite([config EXCEPT !.kind = Kinds[c.of]], c.of, "end"))
             [] OTHER -> Becomes(p, [at |-> "call", name |-> c.name, of |-> c.of,
                                     cfg |-> config, then |-> "end"])
        /\ UNCHANGED <<config, servers, started>>

\* The call fails, is refused, or its answer is lost; or the process is stopped.
Stop(p) ==
    /\ command[p] # Idle
    /\ Becomes(p, Idle)
    /\ UNCHANGED <<config, servers, started>>

-----------------------------------------------------------------------------
(* The answers of the server, and what is to be written of them. *)

Identity(server, account, secret, room) ==
    [server |-> server, account |-> account, secret |-> secret,
     device |-> Len(issued) + 1, room |-> room, kind |-> "desktop"]

Save(p, next) == Becomes(p, ToWrite(next, command[p].of, command[p].then))

Asks(p, name) == command[p].at = "call" /\ command[p].name = name

Register(p) ==
    /\ Asks(p, "register")
    /\ LET account == Len(registry) + 1
       IN  /\ registry' = Append(registry, command[p].server)
           /\ issued' = Append(issued, account)
           /\ member' = member \cup {<<account, account>>}
           /\ joined' = joined \cup {<<account, account>>}
           /\ Save(p, Identity(command[p].server, account, account, account))
    /\ UNCHANGED <<config, started>>

\* Mutant: the secret of the file that was there is kept.
LinkDeviceKeeping(p) ==
    /\ Asks(p, "link")
    /\ \E pair \in {m \in member : m[2] = command[p].of} :
          Save(p, Identity(registry[pair[2]], pair[2],
                           IF config \in {None, Torn} THEN None ELSE config.secret, pair[1]))
    /\ issued' = Append(issued, command[p].of)
    /\ UNCHANGED <<config, registry, member, joined, started>>

\* The code names an account and the room its device is in; no secret comes with it.
LinkDevice(p) ==
    /\ Asks(p, "link")
    /\ \E pair \in {m \in member : m[2] = command[p].of} :
          Save(p, Identity(registry[pair[2]], pair[2], None, pair[1]))
    /\ issued' = Append(issued, command[p].of)
    /\ UNCHANGED <<config, registry, member, joined, started>>

Recover(p) ==
    /\ Asks(p, "recover")
    /\ \E pair \in {m \in member : m[2] = command[p].of} :
          Save(p, Identity(registry[pair[2]], pair[2], pair[2], pair[1]))
    /\ issued' = Append(issued, command[p].of)
    /\ UNCHANGED <<config, registry, member, joined, started>>

\* The room's code, at the server of the file that was loaded.
Join(p) ==
    /\ Asks(p, "join")
    /\ LET cfg == command[p].cfg
           room == command[p].of
       IN  /\ registry[room] = cfg.server
           /\ member' = member \cup {<<room, cfg.account>>}
           /\ joined' = joined \cup {<<room, cfg.account>>}
           /\ Save(p, [cfg EXCEPT !.room = room])
    /\ UNCHANGED <<config, registry, issued, started>>

\* The account and the device stay in the file.  An owner may not leave.
Leave(p) ==
    /\ Asks(p, "leave")
    /\ LET cfg == command[p].cfg
       IN  /\ cfg.room \notin {None, cfg.account} /\ <<cfg.room, cfg.account>> \in member
           /\ member' = member \ {<<cfg.room, cfg.account>>}
           /\ Save(p, [cfg EXCEPT !.room = None])
    /\ UNCHANGED <<config, registry, issued, joined, started>>

-----------------------------------------------------------------------------
(* Writing the file, as Packs has it. *)

Truncate(p) ==
    /\ command[p].at = "truncate"
    /\ config' = Torn
    /\ command' = [q \in Process |->
          IF q = p THEN [command[p] EXCEPT !.at = "write"]
          ELSE IF command[q].at = "write" THEN [command[q] EXCEPT !.alone = FALSE]
          ELSE command[q]]
    /\ UNCHANGED <<servers, started>>

\* An invite goes on with the account it has just registered.
Write(p) ==
    LET c == command[p]
        done == IF c.then = "end" THEN Idle
                ELSE [at |-> "call", name |-> c.then, of |-> c.of, cfg |-> c.next,
                      then |-> "end"]
    IN  /\ c.at = "write"
        /\ config' \in {c.next} \cup (IF c.alone THEN {} ELSE {Torn})
        /\ command' = [q \in Process |->
              IF q = p THEN done
              ELSE IF command[q].at = "write" THEN [command[q] EXCEPT !.alone = FALSE]
              ELSE command[q]]
        /\ UNCHANGED <<servers, started>>

-----------------------------------------------------------------------------
Next ==
    \E p \in Process :
        \/ \E s \in Server : Start(p, "register", s, None)
        \/ \E a \in Account : Start(p, "link", NoServer, a) \/ Start(p, "recover", NoServer, a)
        \/ \E room \in Account : \/ Start(p, "join", NoServer, room)
                                 \/ Start(p, "join", registry[room], room)
        \/ Start(p, "leave", NoServer, None)
        \/ \E kind \in DOMAIN Kinds : Start(p, "kind", NoServer, kind)
        \/ Load(p) \/ Stop(p)
        \/ Register(p) \/ LinkDevice(p) \/ Recover(p) \/ Join(p) \/ Leave(p)
        \/ Truncate(p) \/ Write(p)

Spec == Init /\ [][Next]_vars

-----------------------------------------------------------------------------
(* Properties. *)

\* Commands load, wait for a server and write beside each other, and any of them
\* may write back what it loaded long ago.  A file that is whole still names one
\* identity: the device is that account's, at that account's server, the secret,
\* if there is one, opens that account, and the room is one it was let into.
NoBlend ==
    config \notin {None, Torn} =>
        /\ issued[config.device] = config.account
        /\ registry[config.account] = config.server
        /\ config.secret \in {None, config.account}
        /\ config.room # None => <<config.room, config.account>> \in joined

\* A file that was whole stays whole, and the secret in it is not lost.  This does
\* not hold: a process that is stopped in the middle of a write leaves a torn file,
\* and an invite read beside such a write, or one from another server, registers
\* anew and writes over the account that was there.
SecretKept ==
    [][\A a \in Account : config \notin {None, Torn} /\ config.secret = a
          => config' # None /\ config' # Torn /\ config'.secret = a]_config
=============================================================================
