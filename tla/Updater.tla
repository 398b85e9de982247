------------------------------ MODULE Updater ------------------------------
(***************************************************************************)
(* The self-update of the desktop client: the stages of its window, the    *)
(* checks and installs that run beside it, and the program file, which all *)
(* clients of the machine replace.  Clients are closed, killed and started *)
(* again, downloads are cut, and the machine may lose power.               *)
(*                                                                         *)
(* What a file holds survives a loss of power once it has been synced.     *)
(***************************************************************************)
EXTENDS Integers, FiniteSets

CONSTANTS
    Client,
    NoRelease,
    MaxRelease,  \* bound on the releases
    MaxEnds      \* bound on clients that end and losses of power

VARIABLES
    release,   \* the latest release
    program,   \* the program file: its version, whether it is whole and synced
    running,   \* the version each client runs
    stage,     \* the stage of its update window
    rel,       \* the release that window names
    checks,    \* how many checks are on their way
    installs,  \* the installs: whose, of what, and how far
    left,      \* whether a staged file of a client that ended lies there
    ends       \* how many ends there were

vars == <<release, program, running, stage, rel, checks, installs, left, ends>>

Version == 1..MaxRelease
Stages == {"idle", "checking", "current", "available", "installing", "done", "failed"}

TypeOK ==
    /\ release \in Version
    /\ program \in [version : Version, whole : BOOLEAN, synced : BOOLEAN]
    /\ running \in [Client -> Version] /\ stage \in [Client -> Stages]
    /\ rel \in [Client -> Version \cup {NoRelease}] /\ checks \in [Client -> 0..2]
    /\ installs \subseteq [by : Client, version : Version, at : {"stage", "sync", "rename"}]
    /\ left \in BOOLEAN /\ ends \in 0..MaxEnds

\* A client checks as it starts.
Init ==
    /\ release = 1 /\ program = [version |-> 1, whole |-> TRUE, synced |-> TRUE]
    /\ running = [c \in Client |-> 1] /\ stage = [c \in Client |-> "idle"]
    /\ rel = [c \in Client |-> NoRelease] /\ checks = [c \in Client |-> 1]
    /\ installs = {} /\ left = FALSE /\ ends = 0

window == <<stage, rel>>
disk == <<program, left>>

Publish ==
    /\ release < MaxRelease
    /\ release' = release + 1
    /\ UNCHANGED <<running, window, disk, checks, installs, ends>>

-----------------------------------------------------------------------------
(* The window. *)

Becomes(c, s) == stage' = [stage EXCEPT ![c] = s]

\* Staged files older than an hour are swept first, which no install takes.
Install(c) ==
    /\ stage[c] = "available"
    /\ Becomes(c, "installing")
    /\ installs' = installs \cup {[by |-> c, version |-> rel[c], at |-> "stage"]}
    /\ left' \in {left, FALSE}
    /\ UNCHANGED <<release, program, running, rel, checks, ends>>

\* The entry of the menu, and "enter" in the window, ask again after a check that
\* failed or found nothing; the menu also before the first answer.  (Two checks at
\* a time are enough: a bound.)
Check(c) ==
    /\ stage[c] \in {"idle", "current", "failed"}
    /\ checks[c] < 2
    /\ Becomes(c, "checking")
    /\ checks' = [checks EXCEPT ![c] = @ + 1]
    /\ UNCHANGED <<release, running, rel, disk, installs, ends>>

IsNewer(version, current) == version > current

Answered(c) ==
    /\ checks[c] > 0
    /\ checks' = [checks EXCEPT ![c] = @ - 1]
    /\ UNCHANGED <<release, running, disk, installs, ends>>

\* Mutant: an answer that comes late is taken whatever the window has gone on to.
CheckedLate(c) ==
    /\ Answered(c)
    /\ \/ Becomes(c, "failed") /\ UNCHANGED rel
       \/ /\ rel' = [rel EXCEPT ![c] = release]
          /\ Becomes(c, IF IsNewer(release, running[c]) THEN "available" ELSE "current")

\* The check fails, or names the latest release.  While an install runs, and after
\* it, answers are dropped.
Checked(c) ==
    /\ Answered(c)
    /\ \/ stage[c] \in {"installing", "done"} /\ UNCHANGED window
       \/ stage[c] \notin {"installing", "done"} /\ Becomes(c, "failed") /\ UNCHANGED rel
       \/ /\ stage[c] \notin {"installing", "done"}
          /\ rel' = [rel EXCEPT ![c] = release]
          /\ Becomes(c, IF IsNewer(release, running[c]) THEN "available" ELSE "current")

-----------------------------------------------------------------------------
(* An install. *)

Goes(i, at) == installs' = (installs \ {i}) \cup {[i EXCEPT !.at = at]}

\* The whole asset has been written beside the program.  (One that is cut fails: its
\* length is compared with the one announced, which GitHub always sends.)
Stage(i) ==
    /\ i.at = "stage" /\ Goes(i, "sync")
    /\ UNCHANGED <<release, running, window, disk, checks, ends>>

Sync(i) ==
    /\ i.at = "sync" /\ Goes(i, "rename")
    /\ UNCHANGED <<release, running, window, disk, checks, ends>>

\* The staged file takes the program's place in one step.
Rename(i) ==
    /\ i.at = "rename"
    /\ program' = [version |-> i.version, whole |-> TRUE, synced |-> TRUE]
    /\ installs' = installs \ {i}
    /\ Becomes(i.by, "done")
    /\ UNCHANGED <<release, running, rel, checks, left, ends>>

\* Any step fails; the staged file is removed.
Fail(i) ==
    /\ installs' = installs \ {i}
    /\ Becomes(i.by, "failed")
    /\ UNCHANGED <<release, running, rel, disk, checks, ends>>

-----------------------------------------------------------------------------
(* Clients end, and are started from the program there is. *)

Afresh(clients) ==
    /\ ends < MaxEnds /\ ends' = ends + 1
    /\ running' = [c \in Client |-> IF c \in clients THEN program'.version ELSE running[c]]
    /\ stage' = [c \in Client |-> IF c \in clients THEN "idle" ELSE stage[c]]
    /\ rel' = [c \in Client |-> IF c \in clients THEN NoRelease ELSE rel[c]]
    /\ checks' = [c \in Client |-> IF c \in clients THEN 1 ELSE checks[c]]
    /\ installs' = {i \in installs : i.by \notin clients}
    /\ left' = (left \/ installs' # installs)
    /\ UNCHANGED release

End(c) == UNCHANGED program /\ Afresh({c})

\* What was not synced may be lost.
LosePower ==
    /\ program' = [program EXCEPT !.whole = program.synced]
    /\ Afresh(Client)

Next ==
    \/ Publish \/ LosePower
    \/ \E c \in Client : Install(c) \/ Check(c) \/ Checked(c) \/ End(c)
    \/ \E i \in installs : Stage(i) \/ Sync(i) \/ Rename(i) \/ Fail(i)

Spec == Init /\ [][Next]_vars

-----------------------------------------------------------------------------
(* Properties. *)

\* Whatever the order of the checks' answers, the keys and the ends of clients, a
\* client runs one install at most, and its window says so; and whichever of them
\* is killed, or loses power, the program file is a whole release.
OneInstall ==
    /\ program.whole
    /\ \A c \in Client : Cardinality({i \in installs : i.by = c}) =
                            IF stage[c] = "installing" THEN 1 ELSE 0

\* The program is never replaced by an older release.  This does not hold: of two
\* clients one may install the release that it was told of before the other
\* installed a later one.
NeverBack == [][program'.version >= program.version]_program
=============================================================================
