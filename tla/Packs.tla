------------------------------- MODULE Packs -------------------------------
(***************************************************************************)
(* The layout of the phone's own card: the editor that draws it, the save  *)
(* it puts off until the edits pause, and the session, which reads         *)
(* layout.json, changes one surface of it, writes it back and offers it to *)
(* the room.  Nothing is locked from the read to the write, and the file   *)
(* is cut to nothing before it is written.                                 *)
(*                                                                         *)
(* What is offered is offered with the phone's status, goes through a gate *)
(* that takes it for sent, and need not arrive: the server passes over a   *)
(* frame that comes within half a second of the last it took, and a send   *)
(* that fails is only logged.                                              *)
(*                                                                         *)
(* Tile lists are opaque; what a list looks like on the grid is in Cards.  *)
(***************************************************************************)
EXTENDS Integers, Sequences, FiniteSets

CONSTANTS
    TileLists,  \* the lists of tiles an owner may assemble, with the empty one
    PackOf,     \* the packs of each surface: records of "tiles" and "shape"
    Callers,    \* the threads that call the session
    Editor,     \* the one of the editor's delayed saves
    Unset, Torn, Nothing,
    MaxEdits,   \* bound on what is done in the editor and by other callers
    MaxTroubles \* bound on sends that fail and on ends of the app

VARIABLES
    layout,   \* layout.json: the tiles of each surface and the avatar's shape
    editor,   \* the open editor: its surface, and the tiles it shows
    pending,  \* the save that waits for a pause
    save,     \* by caller, the save it is at
    stale,    \* whether the session's store has not read the file as it is
    current,  \* whether the session has a status to offer the layout with
    gate,     \* the layout that was last let through the gate, or Nothing
    taken,    \* the layout in the last frame that the server took
    recent,   \* whether it took that less than MIN_MESSAGE_INTERVAL ago
    excused,  \* history: since then a frame was lost, or a save failed
    edits,    \* how many edits there were
    troubles  \* how many troubles

netVars == <<taken, recent, excused, troubles>>
sessionVars == <<stale, current, gate, netVars>>
vars == <<layout, editor, pending, save, sessionVars, edits>>

Surface == {"row", "detail"}
Idle == [at |-> "idle"]
Empty == [row |-> Unset, detail |-> Unset, shape |-> Unset]

TypeOK ==
    LET Tiles == TileLists \cup {Unset} \cup {p.tiles : p \in PackOf["row"] \cup PackOf["detail"]}
        Layout == [row : Tiles, detail : Tiles, shape : BOOLEAN \cup {Unset}]
    IN  /\ layout \in Layout \cup {Torn}
        /\ {gate, taken} \subseteq Layout \cup {Nothing}
        /\ editor \in [surface : Surface, tiles : Tiles \cup {Nothing}] \cup {Nothing}
        /\ pending = Nothing \/ pending.surface \in Surface
        /\ \A c \in Callers : save[c].at \in {"idle", "read", "truncate", "write", "offer"}
        /\ {stale, current, recent, excused} \subseteq BOOLEAN
        /\ edits \in 0..MaxEdits /\ troubles \in 0..MaxTroubles

Init ==
    /\ layout = Empty /\ editor = Nothing /\ pending = Nothing
    /\ save = [c \in Callers |-> Idle]
    /\ stale = TRUE /\ current = FALSE /\ gate = Nothing
    /\ taken = Nothing /\ recent = FALSE /\ excused = FALSE
    /\ edits = 0 /\ troubles = 0

-----------------------------------------------------------------------------
(* The layout. *)

\* A file that is absent, cut short or garbled reads as a layout with nothing set.
ReadLayout == IF layout = Torn THEN Empty ELSE layout

DefaultPack == [tiles |-> Unset, shape |-> FALSE]

\* What the owner assembled.  Without a tile the grid is the default one again.
CustomPack(surface, tiles) ==
    IF surface = "detail" /\ tiles = <<>> THEN DefaultPack
    ELSE [tiles |-> tiles, shape |-> FALSE]

\* The other surface stays; the shape of the avatar goes with the row's pack.
WithPack(saved, surface, pack) ==
    IF surface = "detail" THEN [saved EXCEPT !.detail = pack.tiles]
    ELSE [saved EXCEPT !.row = pack.tiles, !.shape = IF pack.shape THEN TRUE ELSE Unset]

\* What the editor shows of a saved surface.
CustomTiles(saved, surface) == IF saved[surface] = Unset THEN <<>> ELSE saved[surface]

-----------------------------------------------------------------------------
(* The editor. *)

\* The sheet opens on a surface, or turns to it, and has not read it yet.
Open(surface) ==
    /\ edits < MaxEdits /\ edits' = edits + 1
    /\ editor' = [surface |-> surface, tiles |-> Nothing]
    /\ UNCHANGED <<layout, pending, save, sessionVars>>

\* It shows what is saved, which a save that still waits is not.
Load ==
    /\ editor # Nothing /\ editor.tiles = Nothing
    /\ editor' = [editor EXCEPT !.tiles = CustomTiles(ReadLayout, editor.surface)]
    /\ UNCHANGED <<layout, pending, save, sessionVars, edits>>

\* Each change starts the wait again.  There is one wait for both surfaces.
Change(tiles) ==
    /\ edits < MaxEdits /\ edits' = edits + 1
    /\ editor # Nothing /\ editor.tiles \notin {Nothing, tiles}
    /\ editor' = [editor EXCEPT !.tiles = tiles]
    /\ pending' = [surface |-> editor.surface, tiles |-> tiles]
    /\ UNCHANGED <<layout, save, sessionVars>>

-----------------------------------------------------------------------------
(* The session: one step for what another caller can come between. *)

Begin(c, surface, pack) ==
    /\ save[c] = Idle
    /\ save' = [save EXCEPT ![c] = [at |-> "read", surface |-> surface, pack |-> pack]]

\* The pause has come.  A call that has begun is not cancelled by a further edit;
\* another one does not begin before it has ended (a bound, they are 0.7 s apart).
SetCustom ==
    /\ pending # Nothing
    /\ Begin(Editor, pending.surface, CustomPack(pending.surface, pending.tiles))
    /\ pending' = Nothing
    /\ UNCHANGED <<layout, editor, sessionVars, edits>>

SetPack(c, surface) ==
    /\ edits < MaxEdits /\ edits' = edits + 1
    /\ c # Editor
    /\ \E pack \in PackOf[surface] \cup {DefaultPack} : Begin(c, surface, pack)
    /\ UNCHANGED <<layout, editor, pending, sessionVars>>

Read(c) ==
    /\ save[c].at = "read"
    /\ save' = [save EXCEPT ![c] =
          [at |-> "truncate", next |-> WithPack(ReadLayout, save[c].surface, save[c].pack)]]
    /\ UNCHANGED <<layout, editor, pending, sessionVars, edits>>

\* The file is opened and cut; "alone" until another save comes between.
Truncate(c) ==
    /\ save[c].at = "truncate"
    /\ layout' = Torn /\ stale' = TRUE
    /\ save' = [b \in Callers |->
          IF b = c THEN [at |-> "write", next |-> save[c].next, alone |-> TRUE]
          ELSE IF save[b].at = "write" THEN [save[b] EXCEPT !.alone = FALSE] ELSE save[b]]
    /\ UNCHANGED <<editor, pending, current, gate, netVars, edits>>

\* The write replaces what another left from the start of the file: if that was
\* longer, its end stays.
Write(c) ==
    /\ save[c].at = "write"
    /\ layout' \in {save[c].next} \cup (IF save[c].alone THEN {} ELSE {Torn})
    /\ stale' = TRUE
    /\ save' = [b \in Callers |->
          IF b = c THEN [at |-> "offer"]
          ELSE IF save[b].at = "write" THEN [save[b] EXCEPT !.alone = FALSE] ELSE save[b]]
    /\ UNCHANGED <<editor, pending, current, gate, netVars, edits>>

\* The disk is full, or the file may not be opened: an error, and no offer.
Fail(c) ==
    /\ save[c].at \in {"truncate", "write"}
    /\ save' = [save EXCEPT ![c] = Idle]
    /\ excused' = TRUE
    /\ UNCHANGED <<layout, editor, pending, stale, current, gate, taken, recent, edits, troubles>>

-----------------------------------------------------------------------------
(* The offer, under publishMu. *)

Trouble == troubles < MaxTroubles /\ troubles' = troubles + 1

\* A frame is sent: taken by the server, passed over as too close behind the last,
\* or lost without a connection or in one that is broken.
Send(frame) ==
    \/ /\ ~recent
       /\ taken' = frame /\ recent' = TRUE /\ excused' = FALSE
       /\ UNCHANGED troubles
    \/ /\ recent
       /\ excused' = TRUE
       /\ UNCHANGED <<taken, recent, troubles>>
    \/ /\ Trouble
       /\ excused' = TRUE
       /\ UNCHANGED <<taken, recent>>

\* Mutant: the layout is not among what makes a snapshot a changed one.
PassesUnseen(out, due) == due \/ gate = Nothing

\* Gate.Pass: due is a heartbeat that is due, or a status that has changed.
Passes(out, due) == due \/ gate = Nothing \/ out # gate

\* offerLocked, with a status: the store reads the file if it has changed since, and
\* what is let through counts as sent, whatever becomes of it.
OfferLocked(unread, due) ==
    LET out == IF unread THEN ReadLayout ELSE gate
    IN  /\ stale' = FALSE
        /\ IF Passes(out, due) THEN gate' = out /\ Send(out) ELSE UNCHANGED <<gate, netVars>>

\* The end of a save: a new store, which has read nothing yet, and an offer, of
\* which nothing comes as long as there is no status.
Offer(c) ==
    /\ save[c].at = "offer"
    /\ save' = [save EXCEPT ![c] = Idle]
    /\ IF current THEN \E due \in BOOLEAN : OfferLocked(TRUE, due)
       ELSE stale' = TRUE /\ UNCHANGED <<gate, netVars>>
    /\ UNCHANGED <<layout, editor, pending, current, edits>>

\* Session.Publish: a status of the phone, changed or not.  SetIncognito, once there
\* is one, offers in the same way.
Publish ==
    /\ current' = TRUE
    /\ \E due \in BOOLEAN : OfferLocked(stale, due)
    /\ UNCHANGED <<layout, editor, pending, save, edits>>

\* Mutant: a heartbeat sends what has changed, and nothing else.
BeatUnchanged ==
    /\ current
    /\ OfferLocked(stale, FALSE)
    /\ UNCHANGED <<layout, editor, pending, save, current, edits>>

\* A heartbeat, or restore after a reconnect: due in any case.
Beat ==
    /\ current
    /\ OfferLocked(stale, TRUE)
    /\ UNCHANGED <<layout, editor, pending, save, current, edits>>

\* The server's interval has passed.
Pause ==
    /\ recent /\ recent' = FALSE
    /\ UNCHANGED <<layout, editor, pending, save, stale, current, gate, taken, excused,
                   edits, troubles>>

\* The app ends, in the middle of a save or not, and starts with what is on disk.
Restart ==
    /\ Trouble
    /\ editor' = Nothing /\ pending' = Nothing
    /\ save' = [c \in Callers |-> Idle]
    /\ stale' = TRUE /\ current' = FALSE /\ gate' = Nothing
    /\ recent' = FALSE
    /\ UNCHANGED <<layout, taken, excused, edits>>

Next ==
    \/ \E surface \in Surface : Open(surface)
    \/ Load \/ SetCustom
    \/ \E tiles \in TileLists : Change(tiles)
    \/ \E c \in Callers :
          \/ \E surface \in Surface : SetPack(c, surface)
          \/ Read(c) \/ Truncate(c) \/ Write(c) \/ Fail(c) \/ Offer(c)
    \/ Publish \/ Beat \/ Pause \/ Restart

Spec == Init /\ [][Next]_vars

\* Time passes, and heartbeats come with it; a status that goes out in the place of
\* one has the layout, too.
FairSpec == Spec /\ WF_vars(Beat) /\ WF_vars(Pause)

-----------------------------------------------------------------------------
(* Properties. *)

\* When the session has a status, no save is under way, none has failed and no
\* frame was lost since the last that was taken, then the server has the layout
\* that is on disk, whatever saves overlapped, cut the file under each other's
\* reads, came before the first status, or met the statuses and heartbeats that
\* read the file in between.
TakenIsSaved ==
    current /\ (\A c \in Callers : save[c] = Idle) /\ ~excused => taken = ReadLayout

\* Where a frame was lost, the heartbeat makes up for it: in the end the server has
\* the layout that is on disk, although the gate takes what it lets through for
\* sent, the server passes over one of two frames that come close together, and
\* saves fail and leave a torn file.
SavedArrives == <>[](current => taken = ReadLayout)

\* "republishes at once, so friends see the new card without waiting for a heartbeat"
\* (packs.go:268): when a save ends and nothing fails, the server has the layout.  This
\* does not hold: a status that was sent less than half a second before makes the
\* server pass over the frame, which comes again with the next heartbeat or change.
RepublishesAtOnce ==
    [][\A c \in Callers :
          save[c].at = "offer" /\ save'[c] = Idle /\ current /\ troubles' = 0
             => taken' = ReadLayout]_vars

\* A change made in the editor is saved in the end.  This does not hold: the wait
\* is one for both surfaces, so a change of the grid within 0.7 s of one of the
\* row cancels the save of the row.
EditsLand ==
    [][pending # Nothing /\ pending' # Nothing => pending'.surface = pending.surface]_pending
=============================================================================
