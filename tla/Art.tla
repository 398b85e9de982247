-------------------------------- MODULE Art --------------------------------
(***************************************************************************)
(* What a desktop client knows of a Steam title (client/internal/          *)
(* collector/linux/steam/art.go): from memory, from a file of the cache,   *)
(* or from the store, which is asked beside the collector and must not be  *)
(* asked too often.  The terminal UI, the widget and --published are       *)
(* clients of their own, with one cache on disk, and end at any time.      *)
(*                                                                         *)
(* The pictures are left out, and so is a disk that refuses to write.      *)
(***************************************************************************)
EXTENDS Naturals

CONSTANTS
    Program,   \* the processes with a resolver
    Title,     \* the titles that are looked up
    NoFile,    \* no file of that name, nothing in memory
    Half,      \* content that is no entry: emptied, or written by two
    MaxQuits,  \* bound on how often a process ends and starts again
    MaxWaits   \* bound on how often a wait passes

VARIABLES
    known,     \* r.known: by process and title
    task,      \* by process and title, the write or the request under way
    art,       \* by title, the content of <id>.json
    tmp,       \* by title, the content of <id>.json.tmp
    quits, waits,
    asked      \* history: by title, the requests since one was last due

vars == <<known, task, art, tmp, quits, waits, asked>>

Entry == [store : {"", "ok", "missing", "error"}, old : BOOLEAN]
Stages == {"open", "write", "rename"}
NoTask == [at |-> "none"]
Task == [at : Stages, entry : Entry, inode : {"none", "tmp", "art", "gone"}, last : BOOLEAN]
            \cup [at : {"turn", "asking"}]

TypeOK ==
    /\ known \in [Program -> [Title -> Entry \cup {NoFile}]]
    /\ task \in [Program -> [Title -> Task \cup {NoTask}]]
    /\ art \in [Title -> Entry \cup {NoFile, Half}]
    /\ tmp \in [Title -> Entry \cup {NoFile, Half}]
    /\ quits \in 0..MaxQuits /\ waits \in 0..MaxWaits
    /\ asked \in [Title -> Nat]

Init ==
    /\ known = [p \in Program |-> [a \in Title |-> NoFile]]
    /\ task = [p \in Program |-> [a \in Title |-> NoTask]]
    /\ art = [a \in Title |-> NoFile] /\ tmp = [a \in Title |-> NoFile]
    /\ quits = 0 /\ waits = 0 /\ asked = [a \in Title |-> 0]

-----------------------------------------------------------------------------
(* lookup. *)

\* Due: not resolved, and the wait since the last attempt is over.
Stale(e) == e.store # "ok" /\ e.old

\* What cannot be read as an entry of this title is as good as no file.
Read(a) == IF art[a] \in Entry THEN art[a] ELSE [store |-> "", old |-> TRUE]

Known(p, a) == IF known[p][a] # NoFile THEN known[p][a] ELSE Read(a)

\* collect holds the lock of the collector, through the write as well.
Collecting(p) == \E a \in Title : task[p][a].at \in Stages /\ ~task[p][a].last

Begin(p, a, e, last) ==
    /\ known' = [known EXCEPT ![p][a] = e]
    /\ task' = [task EXCEPT ![p][a] =
                   [at |-> "open", entry |-> e, inode |-> "none", last |-> last]]

\* Mutant: nothing is recorded before the answer.
LookupUnrecorded(p, a) ==
    /\ ~Collecting(p) /\ task[p][a] = NoTask /\ Stale(Known(p, a))
    /\ known' = [known EXCEPT ![p][a] = Known(p, a)]
    /\ task' = [task EXCEPT ![p][a] = [at |-> "turn"]]
    /\ UNCHANGED <<art, tmp, quits, waits, asked>>

\* The attempt is recorded, in memory and on disk, before it is made.
Lookup(p, a) ==
    /\ ~Collecting(p)
    /\ IF task[p][a] = NoTask /\ Stale(Known(p, a))
       THEN Begin(p, a, [Known(p, a) EXCEPT !.old = FALSE], FALSE)
       ELSE known' = [known EXCEPT ![p][a] = Known(p, a)] /\ UNCHANGED task
    /\ UNCHANGED <<art, tmp, quits, waits, asked>>

-----------------------------------------------------------------------------
(* write: os.WriteFile to a name that all processes share, then a rename. *)

\* O_TRUNC: the same file is emptied under another process that is writing it.
Open(p, a) ==
    /\ task[p][a].at = "open"
    /\ tmp' = [tmp EXCEPT ![a] = Half]
    /\ task' = [task EXCEPT ![p][a].at = "write", ![p][a].inode = "tmp"]
    /\ UNCHANGED <<known, art, quits, waits, asked>>

\* Of two that write the same file, the shorter leaves the end of the other.
Written(old, e) == IF old = Half THEN {e} ELSE {e, Half}

Write(p, a) ==
    /\ task[p][a].at = "write"
    /\ task' = [task EXCEPT ![p][a].at = "rename", ![p][a].inode = "none"]
    /\ LET t == task[p][a] IN
       CASE t.inode = "tmp" -> (\E w \in Written(tmp[a], t.entry) : tmp' = [tmp EXCEPT ![a] = w])
                                   /\ UNCHANGED art
         [] t.inode = "art" -> (\E w \in Written(art[a], t.entry) : art' = [art EXCEPT ![a] = w])
                                   /\ UNCHANGED tmp
         [] OTHER -> UNCHANGED <<art, tmp>>
    /\ UNCHANGED <<known, quits, waits, asked>>

\* A file that is open goes where its name goes; what it replaces has no name.
Moved(t) ==
    CASE t.at = "write" /\ t.inode = "tmp" -> [t EXCEPT !.inode = "art"]
      [] t.at = "write" /\ t.inode = "art" -> [t EXCEPT !.inode = "gone"]
      [] OTHER -> t

Rename(p, a) ==
    /\ task[p][a].at = "rename"
    /\ LET done == IF task[p][a].last THEN NoTask ELSE [at |-> "turn"]
           moves == tmp[a] # NoFile
       IN  /\ art' = IF moves THEN [art EXCEPT ![a] = tmp[a]] ELSE art
           /\ tmp' = [tmp EXCEPT ![a] = NoFile]
           /\ task' = [q \in Program |->
                  [task[q] EXCEPT ![a] = IF q = p THEN done
                                         ELSE IF moves THEN Moved(@) ELSE @]]
    /\ UNCHANGED <<known, quits, waits, asked>>

-----------------------------------------------------------------------------
(* askStore, beside the collector. *)

Ask(p, a) ==
    /\ task[p][a].at = "turn"
    /\ task' = [task EXCEPT ![p][a] = [at |-> "asking"]]
    /\ asked' = [asked EXCEPT ![a] = @ + 1]
    /\ UNCHANGED <<known, art, tmp, quits, waits>>

Answer(p, a) ==
    /\ task[p][a].at = "asking"
    /\ \E s \in {"ok", "missing", "error"} : Begin(p, a, [store |-> s, old |-> FALSE], TRUE)
    /\ UNCHANGED <<art, tmp, quits, waits, asked>>

-----------------------------------------------------------------------------
(* Around it. *)

\* A process ends, --published right after its snapshot, and starts again.
Quit(p) ==
    /\ quits < MaxQuits /\ quits' = quits + 1
    /\ known' = [known EXCEPT ![p] = [a \in Title |-> NoFile]]
    /\ task' = [task EXCEPT ![p] = [a \in Title |-> NoTask]]
    /\ UNCHANGED <<art, tmp, waits, asked>>

\* The wait of a title passes: two minutes at least, longer than any request.
Wait(a) ==
    LET aged(e) == IF e \in Entry THEN [e EXCEPT !.old = TRUE] ELSE e
        due == art[a] \in Entry => art[a].store # "ok"
    IN  /\ waits < MaxWaits /\ waits' = waits + 1
        /\ \A p \in Program : task[p][a] = NoTask
        /\ known' = [p \in Program |-> [known[p] EXCEPT ![a] = aged(@)]]
        /\ art' = [art EXCEPT ![a] = aged(@)] /\ tmp' = [tmp EXCEPT ![a] = aged(@)]
        /\ asked' = IF due THEN [asked EXCEPT ![a] = 0] ELSE asked
        /\ UNCHANGED <<task, quits>>

Next ==
    \/ \E p \in Program, a \in Title :
          \/ Lookup(p, a) \/ Ask(p, a) \/ Answer(p, a)
          \/ Open(p, a) \/ Write(p, a) \/ Rename(p, a)
    \/ \E p \in Program : Quit(p)
    \/ \E a \in Title : Wait(a)

Spec == Init /\ [][Next]_vars

-----------------------------------------------------------------------------
\* The store is asked once per wait for a title, and never again for one whose answer
\* is on disk, however often the process ends, in the middle of what (art.go's
\* comments in lookup and stale).  For one process: two that start together ask twice.
AsksSparingly == \A a \in Title : asked[a] <= 1

\* "A half-written file has to be impossible rather than unlikely" (art.go, write).
WholeArt == \A a \in Title : art[a] # Half
=============================================================================
