------------------------------ MODULE Privacy ------------------------------
(***************************************************************************)
(* The privacy filter: what of a snapshot leaves the machine.  A snapshot  *)
(* is a function from keys to values; the keys of a group that the filter  *)
(* treats alike are represented by one or two of them.                     *)
(***************************************************************************)
EXTENDS Integers, Sequences, FiniteSets, Functions

AppKeys == {"active_app", "active_window", "active_workspace"}

GameDetailKeys == {"game_name"}
GameKeys == {"game_status"} \cup GameDetailKeys

MusicDetailKeys == {"music", "spotify_track"}
MusicKeys == {"spotify_status"} \cup MusicDetailKeys

VideoKeys == {"video_title"}
AlarmKeys == {"alarm_at"}
MeetingKeys == {"meeting_until"}

SystemKeys == {"cpu_percent", "load_avg_1m", "_health", "_health_note"}

KnownKeys ==
    UNION {AppKeys, GameKeys, MusicKeys, VideoKeys, AlarmKeys, MeetingKeys, SystemKeys,
           {"device_id", "custom_fields", "_kind", "_incognito", "_incognito_note"}}

Levels == [apps   |-> {"full", "app", "busy", "off"},
           games  |-> {"full", "playing", "off"},
           music  |-> {"full", "listening", "off"},
           system |-> {"on", "off"},
           custom |-> {"on", "off"}]

Groups == DOMAIN Levels

DefaultNormal == [apps |-> "full", games |-> "full", music |-> "full", system |-> "on", custom |-> "on"]
DefaultIncognito == [DefaultNormal EXCEPT !.apps = "off", !.games = "off"]

BusyLabel == "Active"
NoNote == ""

NoUntil == -1
Unreadable == -2

\* "until" is in force: there is none, it cannot be read, or it is still to come.
Unexpired(until, now) == until \in {NoUntil, Unreadable} \/ now < until

Hidden(p, now) == p.mode \notin {"", "normal"} /\ Unexpired(p.until, now)

\* A profile that lacks a group takes the group from the built-in one.
Fill(profile, default) == [g \in Groups |-> IF profile[g] = "" THEN default[g] ELSE profile[g]]

Active(p, now) ==
    LET of(mode, default) ==
            IF mode \in DOMAIN p.profiles THEN Fill(p.profiles[mode], default) ELSE default
    IN  IF Hidden(p, now) THEN of(p.mode, DefaultIncognito) ELSE of("normal", DefaultNormal)

\* A pattern of hide_apps matches one of these keys; it never matches nothing.
Matches(p, snap, keys) == \E k \in keys \cap DOMAIN snap : snap[k] \in p.hideApps \ {""}

AppsLevel(p, now, snap) ==
    IF Matches(p, snap, {"active_app", "active_window"}) THEN "off" ELSE Active(p, now).apps

GamesLevel(p, now, snap) ==
    IF Matches(p, snap, {"game_name"}) THEN "off" ELSE Active(p, now).games

CustomNames(snap) == IF "custom_fields" \in DOMAIN snap THEN snap["custom_fields"] ELSE {}

\* The keys each group gives up at each level.
DroppedApps(level) ==
    CASE level = "app" -> {"active_window"}
      [] level = "busy" -> {"active_window", "active_workspace"}
      [] level = "off" -> AppKeys
      [] OTHER -> {}

DroppedGames(level) ==
    CASE level = "playing" -> GameDetailKeys [] level = "off" -> GameKeys [] OTHER -> {}

DroppedMusic(level) ==
    CASE level = "listening" -> MusicDetailKeys [] level = "off" -> MusicKeys [] OTHER -> {}

\* What is on a screen or in a calendar goes with the apps.
DroppedWithApps(level) ==
    IF level # "full" THEN {"music"} \cup VideoKeys \cup AlarmKeys \cup MeetingKeys ELSE {}

DroppedCustom(level, snap) ==
    IF level = "off" THEN CustomNames(snap) \cup {"custom_fields"} ELSE {}

Dropped(p, now, snap) ==
    LET active == Active(p, now)
        apps == AppsLevel(p, now, snap)
    IN  UNION {DroppedApps(apps),
               DroppedGames(GamesLevel(p, now, snap)),
               DroppedMusic(active.music),
               DroppedWithApps(apps),
               IF active.system = "off" THEN SystemKeys ELSE {},
               DroppedCustom(active.custom, snap)}

\* While hidden, a key the filter cannot classify stays at home.  What custom
\* fields are declared is looked up after they may have been dropped.
Unclassified(p, now, snap) ==
    IF Hidden(p, now)
    THEN DOMAIN snap \ (KnownKeys \cup (IF Active(p, now).custom = "off" THEN {} ELSE CustomNames(snap)))
    ELSE {}

Announced(p, now) ==
    IF Hidden(p, now) /\ p.announce
    THEN {"_incognito"} \cup (IF p.note # NoNote THEN {"_incognito_note"} ELSE {})
    ELSE {}

Apply(p, now, snap) ==
    LET kept == DOMAIN snap \ (Dropped(p, now, snap) \cup Unclassified(p, now, snap))
        busy == AppsLevel(p, now, snap) = "busy"
    IN  [k \in kept \cup Announced(p, now) |->
           IF k = "_incognito" /\ k \in Announced(p, now) THEN TRUE
           ELSE IF k = "_incognito_note" /\ k \in Announced(p, now) THEN p.note
           ELSE IF k = "active_app" /\ busy THEN BusyLabel
           ELSE snap[k]]

Default == [mode |-> "normal", until |-> NoUntil, note |-> NoNote, announce |-> TRUE,
            profiles |-> [m \in {"normal", "incognito"} |->
                            IF m = "normal" THEN DefaultNormal ELSE DefaultIncognito],
            hideApps |-> {"keepassxc"}]
=============================================================================
