------------------------------ MODULE MCClient ------------------------------
(***************************************************************************)
(* Parts of the clients that keep state of their own, on small instances:  *)
(* the screen, the cards, the phone's layout file, the account file, the   *)
(* self-update, the caches of statistics, the custom fields and what is    *)
(* known of a Steam title.                                                 *)
(*                                                                         *)
(* They share nothing in this model, so one run checks each of them on its *)
(* own: a behaviour is one of the part it has chosen, and the other parts  *)
(* stay where they started.                                                *)
(***************************************************************************)
EXTENDS Integers, Sequences, FiniteSetsExt

CONSTANTS Person, Self, RoleOf, Playing, Writers, NoOne, Pieces, Group, Accounts, NoLayout,
          TileLists, PackOf, Callers, Editor, Unset, Torn, Nothing, MaxEdits, MaxTroubles,
          Process, Server, NoServer, None, MaxCommands,
          Client, NoRelease, MaxRelease, MaxEnds,
          Key, Zeroed, NoEntry, MaxTruth, MaxErrors, Fields, Contents, NoFile, Broken, MaxWrites,
          Program, Title, Half, MaxQuits, MaxWaits

VARIABLES part,
          screen, mode, selected, index, section, focus, panel, confirm, dm, draft,
          unread, outbox,
          devices, card,
          layout, editor, pending, save, stale, current, gate, taken, recent, excused, edits,
          troubles,
          config, command, registry, issued, member, joined, started,
          release, program, running, stage, rel, checks, installs, left, ends,
          truth, items, flights, newest, errors,
          disk, watched, fields, caches, results, tick, shown, names, writes,
          known, task, art, tmp, quits, waits, asked

deskVars == <<screen, mode, selected, index, section, focus, panel, confirm, dm, draft,
              unread, outbox>>
cardsVars == <<devices, card>>
packsVars == <<layout, editor, pending, save, stale, current, gate, taken, recent, excused,
               edits, troubles>>
commandsVars == <<config, command, registry, issued, member, joined, started>>
updaterVars == <<release, program, running, stage, rel, checks, installs, left, ends>>
cachesVars == <<truth, items, flights, newest, errors>>
customVars == <<disk, watched, fields, caches, results, tick, shown, names, writes>>
artVars == <<known, task, art, tmp, quits, waits, asked>>

-----------------------------------------------------------------------------
(* The screen: this account, an admin, between an owner and a member. *)

ThreeRoles == <<"owner", "admin", "member">>

-----------------------------------------------------------------------------
(* The cards: one device with many layouts, and two that differ in what decides. *)

ATile(kind, field, size, missing) ==
    [kind |-> kind, field |-> field, device |-> 0, size |-> size,
     missing |-> missing, url |-> TRUE]

Tiles == {ATile("scalar", "cpu", "2x2", "dim"), ATile("scalar", "*", "1x1", "hide"),
          [ATile("scalar", "disk", "2x1", "hide") EXCEPT !.device = 2],
          ATile("music", "", "4x1", "hide"), ATile("photo", "", "2x2", ""),
          ATile("poem", "", "1x1", "")}

Device(id, rank, seen, hides, offline, shape, custom, has, laid) ==
    [id |-> id, rank |-> rank, seen |-> seen, hides |-> hides, offline |-> offline,
     shape |-> shape, custom |-> custom, has |-> has, layout |-> laid]

Laid(updated, row, detail) == [updated |-> updated, row |-> row, detail |-> detail]

Named(keys, shapes) == [key \in {keys[i] : i \in DOMAIN shapes} |->
                           shapes[CHOOSE i \in DOMAIN shapes : keys[i] = key]]

Alone ==
    {{Device(1, 3, 0, FALSE, FALSE,
             Named(<<"cpu", "mem", "mood">>, <<"ring", "ring", "text">>), <<"mood", "mem">>,
             {"music"}, Laid(1, SubSeq(tiles, 1, Min({2, Len(tiles)})), tiles))} :
        tiles \in UNION {[1..n -> Tiles] : n \in 0..4}}

Keys == <<"cpu", "active_app", "workspace", "mood", "song">>

Standard ==
    {{Device(1, 3, 0, FALSE, FALSE, Named(Keys, shapes), <<"mood", "song">>, {}, NoLayout)} :
        shapes \in UNION {[1..n -> {"ring", "number", "text"}] : n \in {0, 3, 5}}}

Variants(id) ==
    {Device(id, rank, seen, hides, offline, Named(Keys, <<"ring">>), <<>>, {}, laid) :
        rank \in {1, 3}, seen \in {0, 46}, hides \in BOOLEAN, offline \in BOOLEAN,
        laid \in {NoLayout, Laid(id, <<>>, <<ATile("photo", "", "2x1", "")>>),
                  Laid(3, <<ATile("scalar", "cpu", "2x1", "dim")>>, <<>>)}}

ManyAccounts == Alone \cup Standard \cup {{a, b} : a \in Variants(1), b \in Variants(2)}

-----------------------------------------------------------------------------
(* The layout file, and the custom fields. *)

TwoLists == {<<>>, <<2>>}
TwoPacks == [row |-> {[tiles |-> <<1>>, shape |-> TRUE]},
           detail |-> {[tiles |-> <<1, 2>>, shape |-> FALSE]}]

Field(kind, of, repeats) == [kind |-> kind, of |-> of, repeats |-> repeats]
FiveFields == {Field("text", "hello", FALSE), Field("none", "", FALSE),
           Field("cmd", "rainy", FALSE), Field("cmd", "sunny", FALSE), Field("cmd", "sunny", TRUE)}
OneKey == UNION {[key -> FiveFields] : key \in SUBSET {"weather"}}

-----------------------------------------------------------------------------
D == INSTANCE Desk WITH shown <- screen, Account <- Person, Me <- Self, Roles <- RoleOf
K == INSTANCE Cards
L == INSTANCE Packs
A == INSTANCE Commands
U == INSTANCE Updater
S == INSTANCE Caches
F == INSTANCE Custom
T == INSTANCE Art

ASSUME ScreenAssumption == D!DeskAssumption

ASSUME DevicesAssumption == K!AccountsAssumption

ASSUME ServerAssumption == IsFiniteSet(Server)

\* What stands for no file and for no entry is none.
ASSUME FileAssumption == NoFile \notin T!Entry

ASSUME EntryAssumption ==
    NoEntry \notin [data : Nat \cup {Zeroed}, fresh : BOOLEAN, fetching : BOOLEAN]

\* What an error is read as is no statistics.
ASSUME ZeroedAssumption == Zeroed \notin Nat

Init ==
    /\ part \in {"desk", "cards", "packs", "commands", "updater", "caches", "custom", "art"}
    /\ L!Init /\ A!Init /\ U!Init /\ S!Init
    /\ D!Init /\ (part # "desk" => panel = "chat")
    /\ IF part = "cards" THEN K!Init ELSE devices = <<>> /\ card = K!Blank
    /\ F!Init /\ (part # "custom" => disk = NoFile)
    /\ T!Init

Next ==
    /\ UNCHANGED part
    /\ IF part = "desk" THEN D!Next ELSE UNCHANGED deskVars
    /\ IF part = "cards" THEN K!Walk ELSE UNCHANGED cardsVars
    /\ IF part = "packs" THEN L!Next ELSE UNCHANGED packsVars
    /\ IF part = "commands" THEN A!Next ELSE UNCHANGED commandsVars
    /\ IF part = "updater" THEN U!Next ELSE UNCHANGED updaterVars
    /\ IF part = "caches" THEN S!Next ELSE UNCHANGED cachesVars
    /\ IF part = "custom" THEN F!Next ELSE UNCHANGED customVars
    /\ IF part = "art" THEN T!Next ELSE UNCHANGED artVars

vars == <<part, deskVars, cardsVars, packsVars, commandsVars, updaterVars,
          cachesVars, customVars, artVars>>

\* Time passes, and heartbeats come with it (Packs).
Spec == Init /\ [][Next]_vars
             /\ WF_packsVars(part = "packs" /\ L!Beat) /\ WF_packsVars(part = "packs" /\ L!Pause)

-----------------------------------------------------------------------------
\* Whatever lists arrive in between, a key does what the screen says it does
\* (Desk).
KeysActAsShown == D!KeysActAsShown

\* A card has no more than its grid holds, and nothing in two places (Cards).
CardHolds == K!CardHolds

\* The card does not depend on the order the devices are walked in (Cards).
SameCard == K!SameCard

\* The layout in the last frame the server took is the one on the phone's disk, but
\* for frames that were lost and saves that failed or are under way (Packs).
TakenIsSaved == L!TakenIsSaved

\* In the end it is, whatever was lost (Packs).
SavedArrives == L!SavedArrives

\* A whole account file names one identity (Commands).
NoBlend == A!NoBlend

\* A client installs one update at a time (Updater).
OneInstall == U!OneInstall

\* The caches implement what a cache that asks once at a time promises (SingleFlight).
ImplementsSingleFlight == S!ImplementsSingleFlight

\* What is shown for a command of a custom field is that command's own output
\* (Custom).
OwnOutput == F!OwnOutput

\* The store is asked about a title once per wait (Art).
AsksSparingly == T!AsksSparingly
=============================================================================
