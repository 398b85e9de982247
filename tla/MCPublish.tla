----------------------------- MODULE MCPublish -----------------------------
(***************************************************************************)
(* Publishing on a small instance: two edits of a file while the scene     *)
(* changes once.                                                           *)
(***************************************************************************)
EXTENDS PublishProperties

Working == "active_app" :> "editor" @@ "cpu_percent" :> "low" @@ "gpu" :> "new"
           @@ "custom_fields" :> {"mood"} @@ "mood" :> "calm"
Banking == "active_app" :> "keepassxc" @@ "game_name" :> "chess" @@ "cpu_percent" :> "high"

TwoScenes == <<Working, Banking>>

NumbersOff == [Default EXCEPT !.profiles["normal"].system = "off"]
OnePolicy == {NumbersOff}

TwoEdits == <<{"on for a while", "toggle", "arrange"}, {"off", "note", "garble", "remove"}>>
=============================================================================
