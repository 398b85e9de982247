------------------------------ MODULE Publish ------------------------------
(***************************************************************************)
(* How a desktop client decides what the room sees: the watcher collects a *)
(* snapshot every Interval, adds the layout and the verdict on the         *)
(* machine's health, sends it through the privacy filter and then through  *)
(* the gate, and writes it to the server.  The privacy policy and the      *)
(* layout are files that other processes rewrite in place at any time; the *)
(* client notices by their modification time.                              *)
(*                                                                         *)
(* Time is counted in units of the policy store's recheck interval.  A     *)
(* deadline of a policy is the number of the edit that set it: "remaining" *)
(* says how long each has to go.                                           *)
(***************************************************************************)
EXTENDS Privacy, TLC

CONSTANTS
    Edits,        \* a sequence of sets: what the n-th edit of a file may be
    Scenes,       \* a sequence: the snapshots the collectors return, one after the other
    Interval,     \* the watcher's period
    Heartbeat,    \* the longest an unchanged snapshot goes unsent
    Lasts,        \* how long a timed incognito lasts
    Policies,     \* the policies the file may hold at the start
    MaxLost,      \* how many writes fail
    Torn,         \* contents that do not parse: truncated, or half overwritten
    Absent,       \* no file
    Tiles,        \* a layout that parses
    Nothing       \* no snapshot yet

Editors == DOMAIN Edits

\* The policies a file may come to hold.  The profiles and the patterns are the
\* owner's; what the commands change is the mode, the deadline and the note.
Policy ==
    [mode : {"normal", "incognito"}, until : Editors \cup {NoUntil, Unreadable},
     note : {NoNote, "lunch"}, announce : BOOLEAN,
     profiles : {p.profiles : p \in Policies \cup {Default}},
     hideApps : {p.hideApps : p \in Policies \cup {Default}}]

ASSUME PublishAssumption ==
    /\ Interval \in Nat \ {0} /\ Heartbeat \in Nat \ {0} /\ Lasts \in Nat \ {0}
    /\ MaxLost \in Nat
    /\ Editors \subseteq Nat \ {0}
    /\ \A e \in Editors :
          Edits[e] \subseteq {"on", "on for a while", "off", "toggle", "note",
                             "arrange", "garble", "remove"}

\* No edit has set the deadline of a policy the file holds at the start.
ASSUME PoliciesAssumption ==
    /\ Policies \subseteq {p \in Policy : p.until \notin Editors}
    /\ Torn # Absent /\ {Torn, Absent} \cap Policy = {}

VARIABLES
    file,       \* [privacy, layout]: the contents and the modification count
    edit,       \* the processes that rewrite a file, one for each edit
    remaining,  \* how long the deadline an edit set has to go
    watch,      \* [privacy, layout]: the modification seen last, 0 if none
    checked,    \* whether the policy was checked in this unit of time
    policy,     \* the policy the filter uses
    layout,     \* the layout passed along, NoLayout if there is none
    scene,      \* the number of the snapshot the collectors would return
    pc,         \* where the watcher is
    snap,       \* what it has collected
    gate,       \* what it believes was sent last, and how long ago
    wire,       \* what the room has got from this device last
    lost,       \* writes that failed so far
    wait,       \* the time until the watcher's next tick
    dark        \* history: for how many units of time what is on disk has been
                \* hiding ("read"), and the policy last written in full ("meant")

vars == <<file, edit, remaining, watch, checked, policy, layout, scene, pc, snap,
          gate, wire, lost, wait, dark>>

NoLayout == Absent

Names == {"privacy", "layout"}

-----------------------------------------------------------------------------
(* Reading the files. *)

\* A policy holds the number of the edit that set its deadline: its instant,
\* with now as 0.
Deadline(p) == IF p.until > 0 THEN remaining[p.until] ELSE p.until

At(p) == [p EXCEPT !.until = Deadline(p)]

\* A policy that cannot be read is the default one.
Load(data) == IF data \in {Torn, Absent} THEN Default ELSE data

\* The policy on disk hides.
HidingOnDisk == Hidden(At(Load(file.privacy.data)), 0)

Seen(name) == IF file[name].data = Absent THEN 0 ELSE file[name].mtime

Changed(name) == watch[name] # Seen(name)

-----------------------------------------------------------------------------
(* Other processes rewrite a file: they read it, truncate it and write it. *)

NewPolicy(e, op, p) ==
    CASE op = "on" -> [p EXCEPT !.mode = "incognito", !.until = NoUntil]
      [] op = "on for a while" -> [p EXCEPT !.mode = "incognito", !.until = e]
      [] op = "off" -> [p EXCEPT !.mode = "normal", !.until = NoUntil]
      [] op = "toggle" -> [p EXCEPT !.mode = IF Hidden(At(p), 0) THEN "normal" ELSE "incognito",
                                    !.until = NoUntil]
      [] op = "note" -> [p EXCEPT !.note = "lunch"]

NewContents(e, op) ==
    IF op \in {"arrange", "garble"}
    THEN IF op = "garble" THEN Torn ELSE Tiles
    ELSE NewPolicy(e, op, Load(file.privacy.data))

FileOf(op) == IF op \in {"arrange", "garble", "remove"} THEN "layout" ELSE "privacy"

Put(name, data) ==
    file' = [file EXCEPT ![name] = [data |-> data, mtime |-> @.mtime + 1]]

StartEdit(e) ==
    /\ edit[e].pc = "idle"
    /\ \E op \in Edits[e] \ {"remove"} :
          edit' = [edit EXCEPT ![e] = [pc |-> "read", op |-> op, data |-> NewContents(e, op)]]
    /\ remaining' = [remaining EXCEPT ![e] = IF edit'[e].op = "on for a while" THEN Lasts ELSE 0]
    /\ UNCHANGED <<file, watch, checked, policy, layout, scene, pc, snap, gate, wire, lost, wait>>

Truncate(e) ==
    /\ edit[e].pc = "read"
    /\ Put(FileOf(edit[e].op), Torn)
    /\ edit' = [edit EXCEPT ![e].pc = "truncated"]
    /\ UNCHANGED <<remaining, watch, checked, policy, layout, scene, pc, snap, gate, wire, lost, wait>>

\* Two processes that write the same file leave the tail of the longer one.
WriteOut(e) ==
    /\ edit[e].pc = "truncated"
    /\ \E data \in {edit[e].data} \cup (IF file[FileOf(edit[e].op)].data = Torn THEN {} ELSE {Torn}) :
          Put(FileOf(edit[e].op), data)
    /\ edit' = [edit EXCEPT ![e] = [pc |-> "done", op |-> "none", data |-> Torn]]
    /\ UNCHANGED <<remaining, watch, checked, policy, layout, scene, pc, snap, gate, wire, lost, wait>>

Remove(e) ==
    /\ edit[e].pc = "idle" /\ "remove" \in Edits[e]
    /\ Put("layout", Absent)
    /\ edit' = [edit EXCEPT ![e].pc = "done"]
    /\ UNCHANGED <<remaining, watch, checked, policy, layout, scene, pc, snap, gate, wire, lost, wait>>

-----------------------------------------------------------------------------
(* The watcher. *)

NewScene ==
    /\ scene < Len(Scenes)
    /\ scene' = scene + 1
    /\ UNCHANGED <<file, edit, remaining, watch, checked, policy, layout, pc, snap, gate, wire, lost, wait>>

\* layout.Store.resolve: a file that has changed is read, one that is gone leaves
\* nothing.
StatLayout ==
    /\ watch' = [watch EXCEPT !.layout = Seen("layout")]
    /\ layout' = IF file.layout.data = Absent THEN NoLayout ELSE layout
    /\ pc' = IF Changed("layout") /\ file.layout.data # Absent THEN "read layout" ELSE "filter"

Collect ==
    /\ pc = "idle" /\ wait = 0
    /\ snap' = Scenes[scene]
    /\ StatLayout
    /\ UNCHANGED <<file, edit, remaining, checked, policy, scene, gate, wire, lost, wait>>

ReadLayout ==
    /\ pc = "read layout"
    /\ layout' = IF file.layout.data \in {Torn, Absent} THEN NoLayout ELSE file.layout.data
    /\ pc' = "filter"
    /\ UNCHANGED <<file, edit, remaining, watch, checked, policy, scene, snap, gate, wire, lost, wait>>

Verdict(s) == IF "cpu_percent" \in DOMAIN s /\ s["cpu_percent"] = "high" THEN "crit" ELSE "ok"

AddLayout(s, obj) == IF obj \in {NoLayout, Torn} THEN s ELSE "_layout" :> obj @@ s

AddHealth(s) == IF Verdict(s) = "ok" THEN s ELSE "_health" :> Verdict(s) @@ s

\* annotate: the layout and the verdict are added, then privacy.Store.Filter: the file is looked at once in a unit of time, and read
\* when it has changed since.
Filter ==
    /\ pc = "filter"
    /\ snap' = AddHealth(AddLayout(snap, layout))
    /\ checked' = TRUE
    /\ watch' = IF checked THEN watch ELSE [watch EXCEPT !.privacy = Seen("privacy")]
    /\ pc' = IF ~checked /\ Changed("privacy") THEN "read policy" ELSE "gate"
    /\ UNCHANGED <<file, edit, remaining, policy, layout, scene, gate, wire, lost, wait>>

ReadPolicy ==
    /\ pc = "read policy"
    /\ policy' = Load(file.privacy.data)
    /\ pc' = "gate"
    /\ UNCHANGED <<file, edit, remaining, watch, checked, layout, scene, snap, gate, wire, lost, wait>>

Volatile == {"cpu_percent", "load_avg_1m"}

Steady(s) == Restrict(s, DOMAIN s \ Volatile)

\* Mutant: only a change gets through the gate.
GateNoHeartbeat(ok) ==
    LET out == Apply(At(policy), 0, snap)
        pass == ~(gate.last # Nothing /\ Steady(gate.last) = Steady(out))
    IN  /\ pc = "gate"
        /\ ok \/ (pass /\ lost < MaxLost)
        /\ pc' = "idle" /\ wait' = Interval /\ snap' = Nothing
        /\ gate' = IF pass THEN [last |-> out, age |-> 0] ELSE gate
        /\ wire' = IF pass /\ ok THEN out ELSE wire
        /\ lost' = IF ok THEN lost ELSE lost + 1
        /\ UNCHANGED <<file, edit, remaining, watch, checked, policy, layout, scene>>

\* Gate.Pass, then Send: the gate takes what it lets through for sent.
Gate(ok) ==
    LET out == Apply(At(policy), 0, snap)
        pass == ~(gate.last # Nothing /\ Steady(gate.last) = Steady(out) /\ gate.age < Heartbeat)
    IN  /\ pc = "gate"
        /\ ok \/ (pass /\ lost < MaxLost)
        /\ pc' = "idle" /\ wait' = Interval /\ snap' = Nothing
        /\ gate' = IF pass THEN [last |-> out, age |-> 0] ELSE gate
        /\ wire' = IF pass /\ ok THEN out ELSE wire
        /\ lost' = IF ok THEN lost ELSE lost + 1
        /\ UNCHANGED <<file, edit, remaining, watch, checked, policy, layout, scene>>

\* The menu shows the policy: it goes through the same store.
ShowPolicy ==
    /\ pc \notin {"read policy", "gate"} /\ ~checked
    /\ checked' = TRUE
    /\ watch' = [watch EXCEPT !.privacy = Seen("privacy")]
    /\ policy' = IF Changed("privacy") THEN Load(file.privacy.data) ELSE policy
    /\ UNCHANGED <<file, edit, remaining, layout, scene, pc, snap, gate, wire, lost, wait>>

-----------------------------------------------------------------------------
(* Time.  A tick of the watcher is short against the recheck interval. *)

Less(n) == IF n > 0 THEN n - 1 ELSE 0

\* Mutant: the policy is looked at only once.
ClockKeepsChecked ==
    /\ pc = "idle" /\ wait > 0
    /\ wait' = wait - 1
    /\ remaining' = [e \in Editors |-> Less(remaining[e])]
    /\ gate' = [gate EXCEPT !.age = IF @ < Heartbeat THEN @ + 1 ELSE @]
    /\ UNCHANGED <<file, edit, checked, watch, policy, layout, scene, pc, snap, wire, lost>>

Clock ==
    /\ pc = "idle" /\ wait > 0
    /\ wait' = wait - 1
    /\ checked' = FALSE
    /\ remaining' = [e \in Editors |-> Less(remaining[e])]
    /\ gate' = [gate EXCEPT !.age = IF @ < Heartbeat THEN @ + 1 ELSE @]
    /\ UNCHANGED <<file, edit, watch, policy, layout, scene, pc, snap, wire, lost>>

Init ==
    /\ \E p \in Policies : 
          /\ file = [privacy |-> [data |-> p, mtime |-> 1], layout |-> [data |-> Absent, mtime |-> 1]]
          /\ policy = p
    /\ edit = [e \in Editors |-> [pc |-> "idle", op |-> "none", data |-> Torn]]
    /\ remaining = [e \in Editors |-> 0]
    /\ watch = [privacy |-> 1, layout |-> 0]
    /\ checked = TRUE
    /\ layout = NoLayout
    /\ scene = 1
    /\ pc = "idle" /\ snap = Nothing
    /\ gate = [last |-> Nothing, age |-> 0]
    /\ wire = Nothing
    /\ lost = 0 /\ wait = 0
    /\ dark = [read |-> 0, meant |-> 0]

Watcher == Collect \/ ReadLayout \/ Filter \/ ReadPolicy \/ \E ok \in BOOLEAN : Gate(ok)

Rewrite == \E e \in Editors : StartEdit(e) \/ Truncate(e) \/ WriteOut(e) \/ Remove(e)

Enough == 1   \* the history variable counts no further

DarkAfter(n) ==
    LET add(m) == IF m + n < Enough THEN m + n ELSE Enough
    IN  dark' = [read |-> IF HidingOnDisk' THEN add(dark.read) ELSE 0,
                 meant |-> IF HidingOnDisk' THEN add(dark.meant)
                           ELSE IF file'.privacy.data = Torn THEN add(dark.meant) ELSE 0]

Next ==
    \/ (Watcher \/ Rewrite \/ ShowPolicy \/ NewScene) /\ DarkAfter(0)
    \/ Clock /\ DarkAfter(1)

Spec == Init /\ [][Next]_vars

\* The watcher's goroutine is scheduled and time passes.  Nothing makes an
\* edit happen or end.
FairSpec == Spec /\ WF_vars(Watcher /\ DarkAfter(0)) /\ WF_vars(Clock /\ DarkAfter(1))
=============================================================================
