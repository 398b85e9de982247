------------------------- MODULE PublishProperties -------------------------
(***************************************************************************)
(* What must hold of what a desktop client publishes.                      *)
(***************************************************************************)
EXTENDS Publish

TypeOK ==
    /\ \A n \in Names : file[n].mtime \in Nat /\ watch[n] \in 0..file[n].mtime
    /\ \A e \in Editors : edit[e].pc \in {"idle", "read", "truncated", "done"}
    /\ remaining \in [Editors -> 0..Lasts]
    /\ policy.mode \in {"normal", "incognito"}
    /\ layout \in {NoLayout, Tiles}
    /\ scene \in DOMAIN Scenes
    /\ pc \in {"idle", "read layout", "filter", "read policy", "gate"}
    /\ snap = Nothing <=> pc = "idle"
    /\ gate.age \in 0..Heartbeat /\ wait \in 0..Interval /\ lost \in 0..MaxLost
    /\ dark \in [{"read", "meant"} -> 0..Enough]

\* The owner's own profile for incognito, where there is one, hides what the
\* built-in one does.
ASSUME ProfilesAssumption ==
    \A p \in Policies : "incognito" \in DOMAIN p.profiles =>
        /\ p.profiles["incognito"].apps \in {"", "off"}
        /\ p.profiles["incognito"].games \in {"", "off"}

\* Nothing of what incognito hides is in a snapshot: no app, no game, nothing
\* the filter cannot classify (by its keys, or as a custom field).
Covered(s) ==
    DOMAIN s \subseteq (KnownKeys \cup CustomNames(s))
                      \ (AppKeys \cup GameKeys \cup VideoKeys \cup AlarmKeys \cup MeetingKeys)

\* Incognito is felt within a recheck: when the file has said so for a unit of
\* time, nothing it hides is written to the server, whatever other processes do
\* to the files and however the menu's look at the policy falls in between.
HidesAtOnce == [][wire' # wire /\ dark.read > 0 => Covered(wire')]_vars

\* "hidden stuff never reaches friends or the server" (.github/README.md): the
\* policy last written in full hides, so what is written to the server is covered.
StaysDark == [][wire' # wire /\ dark.meant > 0 => Covered(wire')]_vars

\* What the room should see now: the scene, with the layout on disk and the
\* verdict, through the policy on disk.
Target ==
    Apply(At(Load(file.privacy.data)), 0,
          AddHealth(AddLayout(Scenes[scene], file.layout.data)))

\* The room catches up: in the end it sees what the machine shows, filtered by
\* the policy on disk, although writes are lost unnoticed, the gate takes them
\* for sent, files are read half written and a deadline passes without an event.
RoomCatchesUp == <>[](wire = Target)
=============================================================================
