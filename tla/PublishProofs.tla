---------------------------- MODULE PublishProofs ----------------------------
(***************************************************************************)
(* Incognito is felt within a recheck, for any number of edits, scenes,    *)
(* lost writes and processes that rewrite the file.                        *)
(*                                                                         *)
(* What the filter uses may be any policy that was ever read.  What is     *)
(* known of it: as long as the file is the one that was seen last, the     *)
(* policy is what it says (InStep); and once a look of this unit of time   *)
(* is over, and the file has been hiding since the unit began, the policy  *)
(* hides, whatever has been written since (Hides), because deadlines only  *)
(* come nearer between two units.                                          *)
(***************************************************************************)
EXTENDS PublishProperties, TLAPS

\* A policy whose deadline, if an edit has set it, is of one that has begun.
Begun(p, edits) == p.until \in Editors => edits[p.until].pc # "idle"

\* A policy hides when the deadlines of the edits have this long to go.
Hiding(p, left) ==
    p.mode = "incognito" /\ (p.until \in {NoUntil, Unreadable} \/ left[p.until] > 0)

\* The contents of the file of policies, and of what is to be written to it.
Contents == Policy \cup {Torn}

Files ==
    /\ file = [privacy |-> [data |-> file.privacy.data, mtime |-> file.privacy.mtime],
               layout |-> [data |-> file.layout.data, mtime |-> file.layout.mtime]]
    /\ file.privacy.data \in Contents /\ file.privacy.mtime \in Nat
    /\ Begun(Load(file.privacy.data), edit)
    /\ watch = [privacy |-> watch.privacy, layout |-> watch.layout]
    /\ watch.privacy \in Nat /\ watch.privacy <= file.privacy.mtime

Edited ==
    /\ edit = [e \in Editors |-> [pc |-> edit[e].pc, op |-> edit[e].op, data |-> edit[e].data]]
    /\ \A e \in Editors :
          /\ edit[e].pc \in {"read", "truncated"} /\ FileOf(edit[e].op) = "privacy" =>
                /\ edit[e].data \in Policy
                /\ Begun(edit[e].data, edit)
    /\ remaining \in [Editors -> Nat]

InStep ==
    /\ policy \in Policy /\ Begun(policy, edit)
    /\ watch.privacy = file.privacy.mtime /\ pc # "read policy" =>
          policy = Load(file.privacy.data)

Hides ==
    /\ pc \in {"read policy", "gate"} => checked
    /\ dark = [read |-> dark.read, meant |-> dark.meant] /\ dark.read \in Nat
    /\ dark.read > 0 => Hiding(Load(file.privacy.data), remaining)
    /\ dark.read > 0 /\ checked /\ pc # "read policy" => Hiding(policy, remaining)

PublishInv == Files /\ Edited /\ InStep /\ Hides

-----------------------------------------------------------------------------
(* Policies. *)

LEMMA DefaultPolicy == Default \in Policy /\ Default.until = NoUntil
  BY DEF Policy, Default

LEMMA EditsAreCounted == \A e \in Editors : e \in Nat /\ e > 0
<1>1. Editors \subseteq Nat \ {0}
  BY PublishAssumption
<1> QED
  BY <1>1

LEMMA LoadPolicy == \A data \in Contents : Load(data) \in Policy
  BY DefaultPolicy DEF Load, Contents

LEMMA PolicyFields ==
  ASSUME NEW p \in Policy
  PROVE  /\ p = [mode |-> p.mode, until |-> p.until, note |-> p.note,
                 announce |-> p.announce, profiles |-> p.profiles, hideApps |-> p.hideApps]
         /\ p.mode \in {"normal", "incognito"}
         /\ p.until \in Editors \cup {NoUntil, Unreadable}
         /\ p.profiles \in {q.profiles : q \in Policies \cup {Default}}
  BY DEF Policy

\* The policy with the time its deadline has to go in the place of its deadline.
LEMMA DeadlineFields ==
  ASSUME NEW p \in Policy
  PROVE  At(p).mode = p.mode /\ At(p).until = Deadline(p) /\ At(p).profiles = p.profiles
<1>1. p = [mode |-> p.mode, until |-> p.until, note |-> p.note,
           announce |-> p.announce, profiles |-> p.profiles, hideApps |-> p.hideApps]
  BY PolicyFields
<1>2. At(p) = [mode |-> p.mode, until |-> Deadline(p), note |-> p.note,
               announce |-> p.announce, profiles |-> p.profiles, hideApps |-> p.hideApps]
  BY ONLY <1>1 DEF At
<1> QED
  BY ONLY <1>2

\* At(p), with what the deadlines have to go as a parameter.
At2(p, left) == [p EXCEPT !.until = IF p.until > 0 THEN left[p.until] ELSE p.until]

LEMMA HiddenIsHiding ==
  ASSUME NEW p \in Policy, NEW left \in [Editors -> Nat]
  PROVE  Hidden(At2(p, left), 0) <=> Hiding(p, left)
<1>1. p = [mode |-> p.mode, until |-> p.until, note |-> p.note,
           announce |-> p.announce, profiles |-> p.profiles, hideApps |-> p.hideApps]
  BY PolicyFields
<1> DEFINE until == IF p.until > 0 THEN left[p.until] ELSE p.until
<1>2. At2(p, left) = [mode |-> p.mode, until |-> until, note |-> p.note,
                      announce |-> p.announce, profiles |-> p.profiles, hideApps |-> p.hideApps]
  BY ONLY <1>1 DEF At2
<1>3. At2(p, left).mode = p.mode /\ At2(p, left).until = until
  BY ONLY <1>2
<1>4. p.mode \in {"normal", "incognito"} /\ p.until \in Editors \cup {NoUntil, Unreadable}
  BY PolicyFields
<1>5. CASE p.until \in Editors
  <2>1. p.until \in Nat /\ p.until > 0
    BY <1>5, EditsAreCounted
  <2>2. left[p.until] \in Nat
    BY <1>5
  <2>3. until = left[p.until]
    BY <2>1
  <2>4. Unexpired(until, 0) <=> left[p.until] > 0
    BY <2>2, <2>3 DEF Unexpired, NoUntil, Unreadable
  <2>5. p.until \notin {NoUntil, Unreadable}
    BY <2>1 DEF NoUntil, Unreadable
  <2> HIDE DEF until
  <2> QED
    BY <1>3, <1>4, <2>4, <2>5 DEF Hidden, Hiding
<1>6. CASE p.until \in {NoUntil, Unreadable}
  <2>1. until \in {NoUntil, Unreadable}
    BY <1>6 DEF NoUntil, Unreadable
  <2> HIDE DEF until
  <2> QED
    BY <1>3, <1>4, <1>6, <2>1 DEF Hidden, Hiding, Unexpired
<1> QED
  BY <1>4, <1>5, <1>6

\* What the client takes for hidden, at this moment and at the next.
LEMMA HidingMeans ==
  ASSUME NEW p \in Policy, remaining \in [Editors -> Nat]
  PROVE  Hidden(At(p), 0) <=> Hiding(p, remaining)
<1>1. At(p) = At2(p, remaining)
  BY DEF At, At2, Deadline
<1> QED
  BY <1>1, HiddenIsHiding

LEMMA HidingOnDiskMeans ==
  ASSUME file'.privacy.data \in Contents, remaining' \in [Editors -> Nat]
  PROVE  HidingOnDisk' <=> Hiding(Load(file'.privacy.data), remaining')
<1>1. HidingOnDisk' <=> Hidden(At2(Load(file'.privacy.data), remaining'), 0)
  BY DEF HidingOnDisk, At, At2, Deadline
<1>2. Load(file'.privacy.data) \in Policy
  BY LoadPolicy
<1> QED
  BY <1>1, <1>2, HiddenIsHiding

\* Incognito hides apps and games by whatever profile there is for it.
LEMMA IncognitoProfile ==
  ASSUME NEW profiles \in {q.profiles : q \in Policies \cup {Default}},
         "incognito" \in DOMAIN profiles
  PROVE  profiles["incognito"].apps \in {"", "off"} /\ profiles["incognito"].games \in {"", "off"}
<1>1. /\ "incognito" \in DOMAIN Default.profiles
      /\ Default.profiles["incognito"].apps = "off"
      /\ Default.profiles["incognito"].games = "off"
  BY DEF Default, DefaultIncognito, DefaultNormal
<1>2. PICK q \in Policies \cup {Default} : profiles = q.profiles
  OBVIOUS
<1> QED
  BY <1>1, <1>2, ProfilesAssumption

\* What leaves the machine through a policy that hides.
LEMMA HiddenIsCovered ==
  ASSUME NEW p \in Policy, NEW s, Hidden(At(p), 0)
  PROVE  Covered(Apply(At(p), 0, s))
<1> DEFINE q == At(p)
           level == Active(q, 0)
           out == Apply(q, 0, s)
<1>1. q.mode = "incognito" /\ q.profiles = p.profiles
  <2>1. q.mode = p.mode /\ q.profiles = p.profiles
    BY DeadlineFields
  <2> QED
    BY <2>1, PolicyFields DEF Hidden
<1>2. level.apps = "off" /\ level.games = "off"
  <2>1. DefaultIncognito.apps = "off" /\ DefaultIncognito.games = "off"
    BY DEF DefaultIncognito, DefaultNormal
  <2>2. CASE "incognito" \in DOMAIN q.profiles
    <3>1. level = Fill(q.profiles["incognito"], DefaultIncognito)
      BY <1>1, <2>2 DEF Active
    <3>2. /\ q.profiles["incognito"].apps \in {"", "off"}
          /\ q.profiles["incognito"].games \in {"", "off"}
      BY <1>1, <2>2, PolicyFields, IncognitoProfile
    <3>3. "apps" \in Groups /\ "games" \in Groups
      BY DEF Groups, Levels
    <3> QED
      BY <2>1, <3>1, <3>2, <3>3 DEF Fill
  <2>3. CASE "incognito" \notin DOMAIN q.profiles
    BY <1>1, <2>1, <2>3 DEF Active
  <2> QED
    BY <2>2, <2>3
<1>3. AppsLevel(q, 0, s) = "off" /\ GamesLevel(q, 0, s) = "off"
  BY <1>2 DEF AppsLevel, GamesLevel
<1>4. AppKeys \cup GameKeys \cup VideoKeys \cup AlarmKeys \cup MeetingKeys \subseteq Dropped(q, 0, s)
  <2>1. DroppedApps("off") = AppKeys /\ DroppedGames("off") = GameKeys
    BY DEF DroppedApps, DroppedGames
  <2>2. VideoKeys \cup AlarmKeys \cup MeetingKeys \subseteq DroppedWithApps("off")
    BY DEF DroppedWithApps
  <2> QED
    BY <1>3, <2>1, <2>2 DEF Dropped
<1> DEFINE kept == DOMAIN s \ (Dropped(q, 0, s) \cup Unclassified(q, 0, s))
           said == Announced(q, 0)
<1>5. DOMAIN out = kept \cup said
  BY DEF Apply
<1>6. said \subseteq {"_incognito", "_incognito_note"}
  BY DEF Announced
<1>7. {"_incognito", "_incognito_note"} \subseteq
         KnownKeys \ (AppKeys \cup GameKeys \cup VideoKeys \cup AlarmKeys \cup MeetingKeys)
  BY DEF KnownKeys, AppKeys, GameKeys, GameDetailKeys, VideoKeys, AlarmKeys, MeetingKeys
<1>8. kept \subseteq KnownKeys \cup CustomNames(out)
  <2> SUFFICES ASSUME NEW k \in kept, k \notin KnownKeys PROVE k \in CustomNames(out)
    OBVIOUS
  <2>1. level.custom # "off" /\ k \in CustomNames(s)
    BY DEF Unclassified
  <2>2. "custom_fields" \in DOMAIN s /\ k \in s["custom_fields"]
    BY <2>1 DEF CustomNames
  <2>3. "custom_fields" \in KnownKeys
    BY DEF KnownKeys
  <2>4. "custom_fields" \notin Dropped(q, 0, s)
    <3>1. "custom_fields" \notin DroppedApps("off") /\ "custom_fields" \notin DroppedGames("off")
      BY DEF DroppedApps, DroppedGames, AppKeys, GameKeys, GameDetailKeys
    <3>2. \A m : "custom_fields" \notin DroppedMusic(m)
      BY DEF DroppedMusic, MusicKeys, MusicDetailKeys
    <3>3. "custom_fields" \notin DroppedWithApps("off")
      BY DEF DroppedWithApps, VideoKeys, AlarmKeys, MeetingKeys
    <3>4. "custom_fields" \notin SystemKeys
      BY DEF SystemKeys
    <3>5. "custom_fields" \notin DroppedCustom(level.custom, s)
      BY <2>1 DEF DroppedCustom
    <3> HIDE DEF level
    <3> QED
      BY <1>3, <3>1, <3>2, <3>3, <3>4, <3>5 DEF Dropped, level
  <2>5. "custom_fields" \in kept
    BY <2>2, <2>3, <2>4 DEF Unclassified
  <2>6. out["custom_fields"] = s["custom_fields"]
    BY <1>5, <2>5 DEF Apply
  <2> QED
    BY <1>5, <2>2, <2>5, <2>6 DEF CustomNames
<1> QED
  BY <1>4, <1>5, <1>6, <1>7, <1>8 DEF Covered

-----------------------------------------------------------------------------
(* What the steps have in common. *)

LEMMA Unread == Torn # Absent /\ \A p \in Policy : Load(p) = p
  BY PoliciesAssumption DEF Load

LEMMA SeenPolicy ==
  ASSUME file.privacy.data \in Contents PROVE Seen("privacy") = file.privacy.mtime
  BY PoliciesAssumption DEF Seen, Contents

LEMMA FilesKept ==
  ASSUME Files, UNCHANGED <<file, edit>>,
         \/ watch' = watch
         \/ watch' = [watch EXCEPT !.layout = Seen("layout")]
         \/ watch' = [watch EXCEPT !.privacy = Seen("privacy")]
  PROVE  /\ Files' /\ file'.privacy = file.privacy
         /\ watch'.privacy \in {watch.privacy, file.privacy.mtime}
<1>1. Seen("privacy") = file.privacy.mtime
  BY SeenPolicy DEF Files
<1>2. /\ watch' = [privacy |-> watch'.privacy, layout |-> watch'.layout]
      /\ watch'.privacy \in {watch.privacy, file.privacy.mtime}
  BY <1>1 DEF Files
<1> QED
  BY <1>2 DEF Files

LEMMA EditedKept ==
  ASSUME Edited, UNCHANGED <<edit, remaining>> PROVE Edited'
  BY DEF Edited, Begun

LEMMA DarkGrows ==
  ASSUME NEW n \in {0, 1}, DarkAfter(n), dark.read \in Nat,
         file'.privacy.data \in Contents, remaining' \in [Editors -> Nat]
  PROVE  /\ dark' = [read |-> dark'.read, meant |-> dark'.meant] /\ dark'.read \in Nat
         /\ dark'.read > 0 => Hiding(Load(file'.privacy.data), remaining')
         /\ n = 0 /\ dark'.read > 0 => dark.read > 0
<1> DEFINE add(m) == IF m + n < Enough THEN m + n ELSE Enough
           meant == IF HidingOnDisk' THEN add(dark.meant)
                    ELSE IF file'.privacy.data = Torn THEN add(dark.meant) ELSE 0
           read == IF HidingOnDisk' THEN add(dark.read) ELSE 0
<1>1. dark' = [read |-> read, meant |-> meant]
  BY DEF DarkAfter
<1>2. read \in Nat /\ (read > 0 => HidingOnDisk') /\ (n = 0 /\ read > 0 => dark.read > 0)
  BY DEF Enough
<1> HIDE DEF read, meant
<1>3. dark'.read = read /\ dark' = [read |-> dark'.read, meant |-> dark'.meant]
  BY <1>1
<1> QED
  BY <1>2, <1>3, HidingOnDiskMeans

\* What an edit writes depends on no other deadline than its own and the one it
\* has read.
LEMMA NewPolicies ==
  ASSUME NEW e \in Editors, NEW p \in Policy,
         NEW op \in {"on", "on for a while", "off", "toggle", "note"}
  PROVE  NewPolicy(e, op, p) \in Policy /\ NewPolicy(e, op, p).until \in {p.until, e, NoUntil}
<1>1. p = [mode |-> p.mode, until |-> p.until, note |-> p.note,
           announce |-> p.announce, profiles |-> p.profiles, hideApps |-> p.hideApps]
  BY PolicyFields
<1>2. \A mode \in {"normal", "incognito"}, until \in Editors \cup {NoUntil, Unreadable} :
         LET q == [p EXCEPT !.mode = mode, !.until = until]
         IN  q \in Policy /\ q.until = until
  BY <1>1 DEF Policy
<1>3. [p EXCEPT !.note = "lunch"] \in Policy /\ [p EXCEPT !.note = "lunch"].until = p.until
  BY <1>1 DEF Policy
<1>4. CASE op = "note"
  BY <1>3, <1>4 DEF NewPolicy
<1>5. CASE op = "toggle"
  <2>1. PICK mode \in {"normal", "incognito"} :
           mode = IF Hidden(At(p), 0) THEN "normal" ELSE "incognito"
    OBVIOUS
  <2>2. NewPolicy(e, op, p) = [p EXCEPT !.mode = mode, !.until = NoUntil]
    BY <1>5, <2>1 DEF NewPolicy
  <2> QED
    BY <1>2, <2>2
<1>6. CASE op \in {"on", "on for a while", "off"}
  <2>1. \/ NewPolicy(e, op, p) = [p EXCEPT !.mode = "incognito", !.until = NoUntil]
        \/ NewPolicy(e, op, p) = [p EXCEPT !.mode = "incognito", !.until = e]
        \/ NewPolicy(e, op, p) = [p EXCEPT !.mode = "normal", !.until = NoUntil]
    BY <1>6 DEF NewPolicy
  <2> QED
    BY <1>2, <2>1
<1> QED
  BY <1>4, <1>5, <1>6

-----------------------------------------------------------------------------
(* The beginning. *)

LEMMA PublishBegins == Init => PublishInv
<1> SUFFICES ASSUME Init PROVE PublishInv
  OBVIOUS
<1>1. PICK p \in Policies :
         /\ file = [privacy |-> [data |-> p, mtime |-> 1], layout |-> [data |-> Absent, mtime |-> 1]]
         /\ policy = p
  BY DEF Init
<1>2. p \in Policy /\ p.until \notin Editors
  BY PoliciesAssumption
<1>3. Load(p) = p /\ Begun(p, edit)
  BY <1>2, Unread DEF Begun
<1>4. Files
  BY <1>1, <1>2, <1>3 DEF Init, Files, Contents
<1>5. Edited
  BY DEF Init, Edited
<1>6. InStep
  BY <1>1, <1>2, <1>3 DEF Init, InStep
<1>7. Hides
  BY DEF Init, Hides
<1> QED
  BY <1>4, <1>5, <1>6, <1>7 DEF PublishInv

-----------------------------------------------------------------------------
(* The steps of the watcher and of the menu: the files stay as they are. *)

\* What a step that rewrites no file has to keep to.
LEMMA LookKeeps ==
  ASSUME PublishInv, UNCHANGED <<file, edit, remaining>>, DarkAfter(0),
         \/ watch' = watch
         \/ watch' = [watch EXCEPT !.layout = Seen("layout")]
         \/ watch' = [watch EXCEPT !.privacy = Seen("privacy")]
  PROVE  /\ Files' /\ Edited' /\ file'.privacy = file.privacy
         /\ watch'.privacy \in {watch.privacy, file.privacy.mtime}
         /\ Load(file.privacy.data) \in Policy /\ Begun(Load(file.privacy.data), edit)
         /\ dark' = [read |-> dark'.read, meant |-> dark'.meant] /\ dark'.read \in Nat
         /\ dark'.read > 0 => dark.read > 0
         /\ dark'.read > 0 => Hiding(Load(file.privacy.data), remaining)
<1>1. Files /\ Edited /\ Hides
  BY DEF PublishInv
<1>2. /\ Files' /\ Edited' /\ file'.privacy = file.privacy
      /\ watch'.privacy \in {watch.privacy, file.privacy.mtime}
  BY <1>1, FilesKept, EditedKept
<1>3. file'.privacy.data \in Contents /\ remaining' \in [Editors -> Nat] /\ dark.read \in Nat
  BY <1>1, <1>2 DEF Files, Edited, Hides
<1>4. /\ dark' = [read |-> dark'.read, meant |-> dark'.meant] /\ dark'.read \in Nat
      /\ dark'.read > 0 => Hiding(Load(file'.privacy.data), remaining')
      /\ dark'.read > 0 => dark.read > 0
  BY <1>3, DarkGrows
<1>5. Load(file.privacy.data) \in Policy /\ Begun(Load(file.privacy.data), edit)
  BY <1>1, LoadPolicy DEF Files
<1> QED
  BY <1>2, <1>4, <1>5

LEMMA CollectKeeps == PublishInv /\ Collect /\ DarkAfter(0) => PublishInv'
<1> SUFFICES ASSUME PublishInv, Collect, DarkAfter(0) PROVE PublishInv'
  OBVIOUS
<1>1. /\ UNCHANGED <<file, edit, remaining, checked, policy>>
      /\ watch' = [watch EXCEPT !.layout = Seen("layout")]
      /\ pc = "idle" /\ pc' \in {"read layout", "filter"}
  BY DEF Collect, StatLayout
<1>2. watch'.privacy = watch.privacy
  BY <1>1 DEF PublishInv, Files
<1> QED
  BY <1>1, <1>2, LookKeeps DEF PublishInv, InStep, Hides

LEMMA ReadLayoutKeeps == PublishInv /\ ReadLayout /\ DarkAfter(0) => PublishInv'
<1> SUFFICES ASSUME PublishInv, ReadLayout, DarkAfter(0) PROVE PublishInv'
  OBVIOUS
<1>1. /\ UNCHANGED <<file, edit, remaining, watch, checked, policy>>
      /\ pc = "read layout" /\ pc' = "filter"
  BY DEF ReadLayout
<1> QED
  BY <1>1, LookKeeps DEF PublishInv, InStep, Hides

LEMMA FilterKeeps == PublishInv /\ Filter /\ DarkAfter(0) => PublishInv'
<1> SUFFICES ASSUME PublishInv, Filter, DarkAfter(0) PROVE PublishInv'
  OBVIOUS
<1>1. /\ UNCHANGED <<file, edit, remaining, policy>> /\ checked' = TRUE /\ pc = "filter"
      /\ watch' = IF checked THEN watch ELSE [watch EXCEPT !.privacy = Seen("privacy")]
      /\ pc' = IF ~checked /\ Changed("privacy") THEN "read policy" ELSE "gate"
  BY DEF Filter
<1>2. Seen("privacy") = file.privacy.mtime
  BY SeenPolicy DEF PublishInv, Files
<1>3. policy \in Policy /\ Begun(policy, edit)
  BY DEF PublishInv, InStep
<1>4. CASE checked
  BY <1>1, <1>4, LookKeeps DEF PublishInv, InStep, Hides
<1>5. CASE ~checked /\ Changed("privacy")
  <2>1. watch' = [watch EXCEPT !.privacy = Seen("privacy")] /\ pc' = "read policy"
    BY <1>1, <1>5
  <2> QED
    BY <1>1, <1>3, <2>1, LookKeeps DEF PublishInv, InStep, Hides
\* The file is the one that was seen last, so the policy is what it says.
<1>6. CASE ~checked /\ ~Changed("privacy")
  <2>1. watch' = [watch EXCEPT !.privacy = Seen("privacy")] /\ pc' = "gate"
    BY <1>1, <1>6
  <2>2. watch.privacy = file.privacy.mtime
    BY <1>2, <1>6 DEF Changed
  <2>3. policy = Load(file.privacy.data)
    BY <1>1, <2>2 DEF PublishInv, InStep
  <2> QED
    BY <1>1, <1>3, <2>1, <2>3, LookKeeps DEF PublishInv, InStep, Hides
<1> QED
  BY <1>4, <1>5, <1>6

LEMMA ReadPolicyKeeps == PublishInv /\ ReadPolicy /\ DarkAfter(0) => PublishInv'
<1> SUFFICES ASSUME PublishInv, ReadPolicy, DarkAfter(0) PROVE PublishInv'
  OBVIOUS
<1>1. /\ UNCHANGED <<file, edit, remaining, watch, checked>> /\ pc = "read policy"
      /\ policy' = Load(file.privacy.data) /\ pc' = "gate"
  BY DEF ReadPolicy
<1> QED
  BY <1>1, LookKeeps DEF PublishInv, InStep, Hides

LEMMA GateKeeps ==
  ASSUME PublishInv, NEW ok \in BOOLEAN, Gate(ok), DarkAfter(0) PROVE PublishInv'
<1>1. /\ UNCHANGED <<file, edit, remaining, watch, checked, policy>>
      /\ pc = "gate" /\ pc' = "idle"
  BY DEF Gate
<1> QED
  BY <1>1, LookKeeps DEF PublishInv, InStep, Hides

LEMMA ShowPolicyKeeps == PublishInv /\ ShowPolicy /\ DarkAfter(0) => PublishInv'
<1> SUFFICES ASSUME PublishInv, ShowPolicy, DarkAfter(0) PROVE PublishInv'
  OBVIOUS
<1>1. /\ UNCHANGED <<file, edit, remaining, pc>> /\ checked' = TRUE
      /\ pc \notin {"read policy", "gate"}
      /\ watch' = [watch EXCEPT !.privacy = Seen("privacy")]
      /\ policy' = IF Changed("privacy") THEN Load(file.privacy.data) ELSE policy
  BY DEF ShowPolicy
<1>2. Seen("privacy") = file.privacy.mtime
  BY SeenPolicy DEF PublishInv, Files
<1>3. policy' = Load(file.privacy.data)
  BY <1>1, <1>2 DEF Changed, PublishInv, InStep
<1> QED
  BY <1>1, <1>3, LookKeeps DEF PublishInv, InStep, Hides

LEMMA NewSceneKeeps == PublishInv /\ NewScene /\ DarkAfter(0) => PublishInv'
<1> SUFFICES ASSUME PublishInv, NewScene, DarkAfter(0) PROVE PublishInv'
  OBVIOUS
<1>1. UNCHANGED <<file, edit, remaining, watch, checked, policy, pc>>
  BY DEF NewScene
<1> QED
  BY <1>1, LookKeeps DEF PublishInv, InStep, Hides

-----------------------------------------------------------------------------
(* The steps of the processes that rewrite a file. *)

\* A policy of which no edit that is yet to begin sets the deadline hides as
\* before, whichever edit begins.
LEMMA SameDeadline ==
  ASSUME NEW p, Begun(p, edit), p.until \in Editors \cup {NoUntil, Unreadable},
         \A f \in Editors : edit[f].pc # "idle" => remaining'[f] = remaining[f]
  PROVE  Hiding(p, remaining) <=> Hiding(p, remaining')
  BY DEF Begun, Hiding

\* What a rewrite has to keep to: the watcher is where it was, and a policy that
\* is written makes the file another than the one seen last.
LEMMA RewriteKeeps ==
  ASSUME PublishInv, DarkAfter(0), UNCHANGED <<watch, checked, policy, pc>>, Edited',
         \A f \in Editors : edit[f].pc # "idle" =>
             edit'[f].pc # "idle" /\ remaining'[f] = remaining[f],
         file' = [privacy |-> [data |-> file'.privacy.data, mtime |-> file'.privacy.mtime],
                  layout |-> [data |-> file'.layout.data, mtime |-> file'.layout.mtime]],
         \/ file'.privacy = file.privacy
         \/ /\ file'.privacy.data \in Contents /\ file'.privacy.mtime = file.privacy.mtime + 1
            /\ Begun(Load(file'.privacy.data), edit')
  PROVE  PublishInv'
<1> DEFINE seen == Load(file.privacy.data)
<1>1. /\ seen \in Policy /\ Begun(seen, edit)
      /\ policy \in Policy /\ Begun(policy, edit)
  BY LoadPolicy DEF PublishInv, Files, InStep
<1>2. \A p \in Policy : p.until \in Editors \cup {NoUntil, Unreadable}
  BY PolicyFields
<1>3. Begun(seen, edit') /\ Begun(policy, edit')
  BY <1>1 DEF Begun
<1>4. Files'
  <2>1. /\ watch = [privacy |-> watch.privacy, layout |-> watch.layout]
        /\ watch.privacy \in Nat /\ watch.privacy <= file.privacy.mtime
        /\ file.privacy.data \in Contents /\ file.privacy.mtime \in Nat
    BY DEF PublishInv, Files
  <2>2. CASE file'.privacy = file.privacy
    BY <1>3, <2>1, <2>2 DEF Files
  <2>3. CASE /\ file'.privacy.data \in Contents /\ file'.privacy.mtime = file.privacy.mtime + 1
             /\ Begun(Load(file'.privacy.data), edit')
    BY <2>1, <2>3 DEF Files
  <2> QED
    BY <2>2, <2>3
<1>5. InStep'
  <2>1. CASE file'.privacy = file.privacy
    BY <1>3, <2>1 DEF PublishInv, InStep
  <2>2. CASE file'.privacy.mtime = file.privacy.mtime + 1
    <3>1. watch'.privacy # file'.privacy.mtime
      BY <2>2 DEF PublishInv, Files
    <3> QED
      BY <1>1, <1>3, <3>1 DEF InStep
  <2> QED
    BY <2>1, <2>2
<1>6. Hides'
  <2>1. /\ dark' = [read |-> dark'.read, meant |-> dark'.meant] /\ dark'.read \in Nat
        /\ dark'.read > 0 => Hiding(Load(file'.privacy.data), remaining')
        /\ dark'.read > 0 => dark.read > 0
    BY <1>4, DarkGrows DEF PublishInv, Files, Edited, Hides
  <2>2. Hiding(policy, remaining) <=> Hiding(policy, remaining')
    BY <1>1, <1>2, SameDeadline
  <2> QED
    BY <2>1, <2>2 DEF PublishInv, Hides
<1> QED
  BY <1>4, <1>5, <1>6 DEF PublishInv

\* Putting something into a file.
LEMMA PutFile ==
  ASSUME Files, NEW name \in Names, NEW data, Put(name, data)
  PROVE  /\ file' = [privacy |-> [data |-> file'.privacy.data, mtime |-> file'.privacy.mtime],
                     layout |-> [data |-> file'.layout.data, mtime |-> file'.layout.mtime]]
         /\ name = "layout" => file'.privacy = file.privacy
         /\ name = "privacy" =>
               file'.privacy.data = data /\ file'.privacy.mtime = file.privacy.mtime + 1
<1>1. PICK old : /\ file = [privacy |-> old.privacy, layout |-> old.layout]
                 /\ old.privacy = [data |-> old.privacy.data, mtime |-> old.privacy.mtime]
                 /\ old.layout = [data |-> old.layout.data, mtime |-> old.layout.mtime]
                 /\ file = old
  BY DEF Files
<1>2. CASE name = "privacy"
  <2>1. file' = [privacy |-> [data |-> data, mtime |-> old.privacy.mtime + 1], layout |-> old.layout]
    BY <1>1, <1>2 DEF Put
  <2> QED
    BY <1>1, <1>2, <2>1
<1>3. CASE name = "layout"
  <2>1. file' = [privacy |-> old.privacy, layout |-> [data |-> data, mtime |-> old.layout.mtime + 1]]
    BY <1>1, <1>3 DEF Put
  <2> QED
    BY <1>1, <1>3, <2>1
<1> QED
  BY <1>2, <1>3 DEF Names

LEMMA StartEditKeeps ==
  ASSUME PublishInv, NEW e \in Editors, StartEdit(e), DarkAfter(0) PROVE PublishInv'
<1> DEFINE seen == Load(file.privacy.data)
<1>1. PICK op \in Edits[e] \ {"remove"} :
         edit' = [edit EXCEPT ![e] = [pc |-> "read", op |-> op, data |-> NewContents(e, op)]]
  BY DEF StartEdit
<1>2. /\ edit[e].pc = "idle" /\ UNCHANGED <<file, watch, checked, policy, pc>>
      /\ remaining' = [remaining EXCEPT ![e] = IF edit'[e].op = "on for a while" THEN Lasts ELSE 0]
  BY DEF StartEdit
<1>3. /\ edit = [f \in Editors |-> [pc |-> edit[f].pc, op |-> edit[f].op, data |-> edit[f].data]]
      /\ remaining \in [Editors -> Nat]
  BY DEF PublishInv, Edited
<1>4. /\ \A f \in Editors \ {e} : edit'[f] = edit[f] /\ remaining'[f] = remaining[f]
      /\ edit'[e] = [pc |-> "read", op |-> op, data |-> NewContents(e, op)]
      /\ edit' = [f \in Editors |-> edit'[f]]
  BY <1>1, <1>2, <1>3
<1>5. remaining' \in [Editors -> Nat]
  BY <1>2, <1>3, PublishAssumption
<1>6. \A p \in Policy : Begun(p, edit) => Begun(p, edit')
  BY <1>4 DEF Begun
<1>7. FileOf(op) = "privacy" => NewContents(e, op) \in Policy /\ Begun(NewContents(e, op), edit')
  <2> SUFFICES ASSUME FileOf(op) = "privacy"
               PROVE  NewContents(e, op) \in Policy /\ Begun(NewContents(e, op), edit')
    OBVIOUS
  <2>1. op \in {"on", "on for a while", "off", "toggle", "note"}
    BY PublishAssumption DEF FileOf
  <2>2. NewContents(e, op) = NewPolicy(e, op, seen)
    BY <2>1 DEF NewContents
  <2>3. seen \in Policy /\ Begun(seen, edit)
    BY LoadPolicy DEF PublishInv, Files
  <2>4. NewPolicy(e, op, seen) \in Policy /\ NewPolicy(e, op, seen).until \in {seen.until, e, NoUntil}
    BY <2>1, <2>3, NewPolicies
  <2>5. NoUntil \notin Editors
    BY EditsAreCounted DEF NoUntil
  <2>6. Begun(seen, edit') /\ edit'[e].pc = "read"
    BY <1>4, <1>6, <2>3
  <2> QED
    BY <2>2, <2>4, <2>5, <2>6 DEF Begun
<1>8. Edited'
  <2>1. edit' = [f \in Editors |-> [pc |-> edit'[f].pc, op |-> edit'[f].op, data |-> edit'[f].data]]
    <3>1. \A f \in Editors : edit'[f] = [pc |-> edit'[f].pc, op |-> edit'[f].op, data |-> edit'[f].data]
      <4>1. edit'[e] = [pc |-> edit'[e].pc, op |-> edit'[e].op, data |-> edit'[e].data]
        BY <1>4
      <4>2. \A f \in Editors \ {e} :
               edit'[f] = [pc |-> edit'[f].pc, op |-> edit'[f].op, data |-> edit'[f].data]
        BY <1>3, <1>4
      <4> QED
        BY <4>1, <4>2
    <3> QED
      BY <1>4, <3>1
  <2>2. ASSUME NEW f \in Editors, edit'[f].pc \in {"read", "truncated"},
               FileOf(edit'[f].op) = "privacy"
        PROVE  edit'[f].data \in Policy /\ Begun(edit'[f].data, edit')
    <3>1. CASE f = e
      BY <1>4, <1>7, <2>2, <3>1
    <3>2. CASE f # e
      BY <1>4, <1>6, <2>2, <3>2 DEF PublishInv, Edited
    <3> QED
      BY <3>1, <3>2
  <2> QED
    BY <1>5, <2>1, <2>2 DEF Edited
<1>9. \A f \in Editors : edit[f].pc # "idle" =>
         edit'[f].pc # "idle" /\ remaining'[f] = remaining[f]
  BY <1>2, <1>4
<1>10. file' = [privacy |-> [data |-> file'.privacy.data, mtime |-> file'.privacy.mtime],
                layout |-> [data |-> file'.layout.data, mtime |-> file'.layout.mtime]]
  BY <1>2 DEF PublishInv, Files
<1> QED
  BY <1>2, <1>8, <1>9, <1>10, RewriteKeeps

\* A rewrite goes on: what it is to write it has, until it is done.
LEMMA RewriteGoesOn ==
  ASSUME Edited, NEW e \in Editors, edit[e].pc # "idle", UNCHANGED remaining,
         \/ edit[e].pc = "read" /\ edit' = [edit EXCEPT ![e].pc = "truncated"]
         \/ edit' = [edit EXCEPT ![e] = [pc |-> "done", op |-> "none", data |-> Torn]]
  PROVE  /\ Edited'
         /\ \A f \in Editors : edit[f].pc # "idle" =>
               edit'[f].pc # "idle" /\ remaining'[f] = remaining[f]
<1>1. edit = [f \in Editors |-> [pc |-> edit[f].pc, op |-> edit[f].op, data |-> edit[f].data]]
  BY DEF Edited
<1>2. edit[e] = [pc |-> edit[e].pc, op |-> edit[e].op, data |-> edit[e].data]
  BY <1>1
<1>3. /\ edit' = [f \in Editors |-> edit'[f]]
      /\ \A f \in Editors \ {e} : edit'[f] = edit[f]
      /\ \/ /\ edit'[e] = [pc |-> "truncated", op |-> edit[e].op, data |-> edit[e].data]
            /\ edit[e].pc = "read"
         \/ edit'[e] = [pc |-> "done", op |-> "none", data |-> Torn]
  BY <1>1, <1>2
<1>4. \A f \in Editors : edit[f].pc # "idle" => edit'[f].pc # "idle"
  BY <1>3
<1>5. \A p : Begun(p, edit) => Begun(p, edit')
  BY <1>4 DEF Begun
<1>6. \A f \in Editors : edit'[f] = [pc |-> edit'[f].pc, op |-> edit'[f].op, data |-> edit'[f].data]
  <2>1. edit'[e] = [pc |-> edit'[e].pc, op |-> edit'[e].op, data |-> edit'[e].data]
    BY <1>3
  <2>2. \A f \in Editors \ {e} :
           edit'[f] = [pc |-> edit'[f].pc, op |-> edit'[f].op, data |-> edit'[f].data]
    BY <1>1, <1>3
  <2> QED
    BY <2>1, <2>2
<1>7. ASSUME NEW f \in Editors, edit'[f].pc \in {"read", "truncated"}, FileOf(edit'[f].op) = "privacy"
      PROVE  edit'[f].data \in Policy /\ Begun(edit'[f].data, edit')
  <2>1. edit[f].pc \in {"read", "truncated"} /\ edit'[f].op = edit[f].op /\ edit'[f].data = edit[f].data
    BY <1>3, <1>7
  <2> QED
    BY <1>5, <1>7, <2>1 DEF Edited
<1>8. edit' = [f \in Editors |-> [pc |-> edit'[f].pc, op |-> edit'[f].op, data |-> edit'[f].data]]
  BY <1>3, <1>6
<1>9. Edited'
  BY <1>7, <1>8 DEF Edited
<1> QED
  BY <1>4, <1>9

LEMMA FilesOfOps == \A op : FileOf(op) \in Names
  BY DEF FileOf, Names

LEMMA TruncateKeeps ==
  ASSUME PublishInv, NEW e \in Editors, Truncate(e), DarkAfter(0) PROVE PublishInv'
<1>1. /\ edit[e].pc = "read" /\ edit' = [edit EXCEPT ![e].pc = "truncated"]
      /\ UNCHANGED <<remaining, watch, checked, policy, pc>>
      /\ Put(FileOf(edit[e].op), Torn) /\ FileOf(edit[e].op) \in Names
  BY FilesOfOps DEF Truncate
<1>2. /\ Edited'
      /\ \A f \in Editors : edit[f].pc # "idle" =>
            edit'[f].pc # "idle" /\ remaining'[f] = remaining[f]
  BY <1>1, RewriteGoesOn DEF PublishInv
<1>3. Torn \in Contents /\ Begun(Load(Torn), edit')
  BY DefaultPolicy, EditsAreCounted DEF Contents, Begun, Load, NoUntil
<1>4. Files
  BY DEF PublishInv
<1>5. /\ file' = [privacy |-> [data |-> file'.privacy.data, mtime |-> file'.privacy.mtime],
                  layout |-> [data |-> file'.layout.data, mtime |-> file'.layout.mtime]]
      /\ \/ file'.privacy = file.privacy
         \/ file'.privacy.data = Torn /\ file'.privacy.mtime = file.privacy.mtime + 1
  BY <1>1, <1>4, PutFile DEF Names
<1> QED
  BY <1>1, <1>2, <1>3, <1>5, RewriteKeeps

LEMMA WriteOutKeeps ==
  ASSUME PublishInv, NEW e \in Editors, WriteOut(e), DarkAfter(0) PROVE PublishInv'
<1>1. PICK data \in {edit[e].data, Torn} : Put(FileOf(edit[e].op), data)
  BY DEF WriteOut
<1>2. /\ edit[e].pc = "truncated" /\ FileOf(edit[e].op) \in Names
      /\ edit' = [edit EXCEPT ![e] = [pc |-> "done", op |-> "none", data |-> Torn]]
      /\ UNCHANGED <<remaining, watch, checked, policy, pc>>
  BY FilesOfOps DEF WriteOut
<1>3. /\ Edited'
      /\ \A f \in Editors : edit[f].pc # "idle" =>
            edit'[f].pc # "idle" /\ remaining'[f] = remaining[f]
  BY <1>2, RewriteGoesOn DEF PublishInv
<1>4. Torn \in Contents /\ Begun(Load(Torn), edit')
  BY DefaultPolicy, EditsAreCounted DEF Contents, Begun, Load, NoUntil
<1>5. FileOf(edit[e].op) = "privacy" =>
         edit[e].data \in Contents /\ Begun(Load(edit[e].data), edit')
  <2> SUFFICES ASSUME FileOf(edit[e].op) = "privacy"
               PROVE  edit[e].data \in Contents /\ Begun(Load(edit[e].data), edit')
    OBVIOUS
  <2>1. edit[e].data \in Policy /\ Begun(edit[e].data, edit)
    BY <1>2 DEF PublishInv, Edited
  <2>2. Begun(edit[e].data, edit')
    BY <1>3, <2>1 DEF Begun
  <2> QED
    BY <2>1, <2>2, Unread DEF Contents
<1>6. Files
  BY DEF PublishInv
<1>7. /\ file' = [privacy |-> [data |-> file'.privacy.data, mtime |-> file'.privacy.mtime],
                  layout |-> [data |-> file'.layout.data, mtime |-> file'.layout.mtime]]
      /\ \/ file'.privacy = file.privacy
         \/ /\ file'.privacy.data = data /\ file'.privacy.mtime = file.privacy.mtime + 1
            /\ FileOf(edit[e].op) = "privacy"
  BY <1>1, <1>2, <1>6, PutFile DEF Names
<1> QED
  BY <1>1, <1>2, <1>3, <1>4, <1>5, <1>7, RewriteKeeps

LEMMA RemoveKeeps ==
  ASSUME PublishInv, NEW e \in Editors, Remove(e), DarkAfter(0) PROVE PublishInv'
<1>1. /\ edit[e].pc = "idle" /\ edit' = [edit EXCEPT ![e].pc = "done"]
      /\ UNCHANGED <<remaining, watch, checked, policy, pc>>
      /\ Put("layout", Absent)
  BY DEF Remove
<1>2. edit = [f \in Editors |-> [pc |-> edit[f].pc, op |-> edit[f].op, data |-> edit[f].data]]
  BY DEF PublishInv, Edited
<1>3. edit[e] = [pc |-> edit[e].pc, op |-> edit[e].op, data |-> edit[e].data]
  BY <1>2
<1>4. /\ edit' = [f \in Editors |-> edit'[f]]
      /\ \A f \in Editors \ {e} : edit'[f] = edit[f]
      /\ edit'[e] = [pc |-> "done", op |-> edit[e].op, data |-> edit[e].data]
  BY <1>1, <1>2, <1>3
<1>5. \A p : Begun(p, edit) => Begun(p, edit')
  BY <1>4 DEF Begun
<1>6. \A f \in Editors : edit'[f] = [pc |-> edit'[f].pc, op |-> edit'[f].op, data |-> edit'[f].data]
  <2>1. edit'[e] = [pc |-> edit'[e].pc, op |-> edit'[e].op, data |-> edit'[e].data]
    BY <1>4
  <2>2. \A f \in Editors \ {e} :
           edit'[f] = [pc |-> edit'[f].pc, op |-> edit'[f].op, data |-> edit'[f].data]
    BY <1>2, <1>4
  <2> QED
    BY <2>1, <2>2
<1>7. edit' = [f \in Editors |-> [pc |-> edit'[f].pc, op |-> edit'[f].op, data |-> edit'[f].data]]
  BY <1>4, <1>6
<1>8. ASSUME NEW f \in Editors, edit'[f].pc \in {"read", "truncated"}, FileOf(edit'[f].op) = "privacy"
      PROVE  edit'[f].data \in Policy /\ Begun(edit'[f].data, edit')
  <2>1. edit'[f] = edit[f]
    BY <1>4, <1>8
  <2> QED
    BY <1>5, <1>8, <2>1 DEF PublishInv, Edited
<1>9. Edited'
  BY <1>1, <1>7, <1>8 DEF PublishInv, Edited
<1>10. /\ file' = [privacy |-> [data |-> file'.privacy.data, mtime |-> file'.privacy.mtime],
                   layout |-> [data |-> file'.layout.data, mtime |-> file'.layout.mtime]]
       /\ file'.privacy = file.privacy
  <2>1. Files /\ "layout" \in Names
    BY DEF PublishInv, Names
  <2> QED
    BY <1>1, <2>1, PutFile
<1>11. \A f \in Editors : edit[f].pc # "idle" =>
         edit'[f].pc # "idle" /\ remaining'[f] = remaining[f]
  BY <1>1, <1>4
<1> QED
  BY <1>1, <1>9, <1>10, <1>11, RewriteKeeps

-----------------------------------------------------------------------------
(* A unit of time: deadlines come nearer, and the policy is to be looked at *)
(* again.                                                                   *)

LEMMA ClockKeeps == PublishInv /\ Clock /\ DarkAfter(1) => PublishInv'
<1> SUFFICES ASSUME PublishInv, Clock, DarkAfter(1) PROVE PublishInv'
  OBVIOUS
<1>1. /\ UNCHANGED <<file, edit, watch, policy, pc>> /\ checked' = FALSE /\ pc = "idle"
      /\ remaining' = [e \in Editors |-> Less(remaining[e])]
  BY DEF Clock
<1>2. remaining' \in [Editors -> Nat]
  <2>1. \A e \in Editors : Less(remaining[e]) \in Nat
    BY DEF PublishInv, Edited, Less
  <2> QED
    BY <1>1, <2>1
<1>3. Files'
  BY <1>1, FilesKept DEF PublishInv
<1>4. Edited'
  BY <1>1, <1>2 DEF PublishInv, Edited, Begun
<1>5. InStep'
  BY <1>1 DEF PublishInv, InStep
<1>6. Hides'
  <2>1. /\ dark' = [read |-> dark'.read, meant |-> dark'.meant] /\ dark'.read \in Nat
        /\ dark'.read > 0 => Hiding(Load(file'.privacy.data), remaining')
    BY <1>2, <1>3, DarkGrows DEF PublishInv, Files, Hides
  <2> QED
    BY <1>1, <2>1 DEF Hides
<1> QED
  BY <1>3, <1>4, <1>5, <1>6 DEF PublishInv

-----------------------------------------------------------------------------
(* Every step, and the theorem. *)

LEMMA PublishSteps == PublishInv /\ [Next]_vars => PublishInv'
<1> SUFFICES ASSUME PublishInv, [Next]_vars PROVE PublishInv'
  OBVIOUS
<1>1. CASE Watcher /\ DarkAfter(0)
  BY <1>1, CollectKeeps, ReadLayoutKeeps, FilterKeeps, ReadPolicyKeeps, GateKeeps DEF Watcher
<1>2. CASE Rewrite /\ DarkAfter(0)
  BY <1>2, StartEditKeeps, TruncateKeeps, WriteOutKeeps, RemoveKeeps DEF Rewrite
<1>3. CASE (ShowPolicy \/ NewScene) /\ DarkAfter(0)
  BY <1>3, ShowPolicyKeeps, NewSceneKeeps
<1>4. CASE Clock /\ DarkAfter(1)
  BY <1>4, ClockKeeps
<1>5. CASE UNCHANGED vars
  BY <1>5 DEF vars, PublishInv, Files, Edited, InStep, Hides, Begun
<1> QED
  BY <1>1, <1>2, <1>3, <1>4, <1>5 DEF Next

\* Only the gate writes to the server, and the policy it has applied hides.
LEMMA OnlyTheGateWrites ==
  ASSUME PublishInv, [Next]_vars, wire' # wire, dark.read > 0 PROVE Covered(wire')
<1>1. PICK ok \in BOOLEAN : Gate(ok)
  BY DEF Next, Watcher, Rewrite, Collect, StatLayout, ReadLayout, Filter, ReadPolicy, StartEdit,
         Truncate, WriteOut, Remove, ShowPolicy, NewScene, Clock, vars
<1>2. pc = "gate" /\ wire' = Apply(At(policy), 0, snap)
  BY <1>1 DEF Gate
<1>3. Hiding(policy, remaining) /\ policy \in Policy /\ remaining \in [Editors -> Nat]
  BY <1>2 DEF PublishInv, Edited, InStep, Hides
<1>4. Hidden(At(policy), 0)
  BY <1>3, HidingMeans
<1> QED
  BY <1>2, <1>3, <1>4, HiddenIsCovered

\* Incognito is felt within a recheck, for any number of edits, scenes and lost
\* writes: while the file has been hiding for a unit of time, nothing that
\* incognito hides is written to the server.
THEOREM PublishHidesAtOnce == Spec => HidesAtOnce
<1>1. Init => PublishInv
  BY PublishBegins
<1>2. PublishInv /\ [Next]_vars => PublishInv'
  BY PublishSteps
<1>3. PublishInv /\ [Next]_vars => (wire' # wire /\ dark.read > 0 => Covered(wire'))
  BY OnlyTheGateWrites
<1> QED
  BY <1>1, <1>2, <1>3, PTL DEF Spec, HidesAtOnce
=============================================================================
