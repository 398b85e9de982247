------------------------------- MODULE Custom -------------------------------
(***************************************************************************)
(* The custom fields of the desktop client: custom.json, which its owner   *)
(* edits while the client runs, and the commands that give some of the     *)
(* fields their values.  Each tick of the collector looks at the file,     *)
(* takes what values there are, starts the commands that are due, looks at *)
(* the file again and sends the names.                                     *)
(*                                                                         *)
(* Texts and commands are opaque, and what a command prints is told by its *)
(* name.  MergeKeys, which no key of the screen reaches, is left out.      *)
(***************************************************************************)
EXTENDS Integers, FiniteSets

CONSTANTS
    Fields,    \* fields: records of a "kind" ("text", "cmd", "none"), what it is "of",
               \* and whether it "repeats" after a time only
    Contents,  \* what the file may hold: fields by key
    NoFile,
    Broken,    \* a file that is not an object of fields, or not whole
    MaxWrites  \* bound on the edits

VARIABLES
    disk,     \* custom.json
    watched,  \* whether the manager saw it last: "missing", "current", "outdated"
    fields,   \* the fields of the manager
    caches,   \* by key with a command, after which edit its result was made
    results,  \* by key and edit, the results: kept, or left to who still has them
    tick,     \* what the collector is at
    shown,    \* the values sent last, and the fields they were taken by
    names,    \* the names sent last
    writes    \* how many edits there were

vars == <<disk, watched, fields, caches, results, tick, shown, names, writes>>

manager == <<watched, fields, caches, results>>

FieldKey == UNION {DOMAIN content : content \in Contents}
NoFields == [k \in {} |-> 0]
Idle == [at |-> "idle"]

TypeOK ==
    /\ disk \in Contents \cup {NoFile, Broken}
    /\ watched \in {"missing", "current", "outdated"}
    /\ DOMAIN fields \subseteq FieldKey /\ \A k \in DOMAIN fields : fields[k] \in Fields
    /\ DOMAIN caches \subseteq DOMAIN fields
    /\ \A k \in DOMAIN caches : <<k, caches[k]>> \in DOMAIN results
    /\ \A r \in DOMAIN results :
          results[r] \in [cmd : {f.of : f \in Fields}, repeats : BOOLEAN,
                          known : BOOLEAN, fresh : BOOLEAN, running : BOOLEAN]
    /\ tick.at \in {"idle", "values"}
    /\ names \subseteq FieldKey /\ writes \in 0..MaxWrites

Init ==
    /\ disk \in Contents \cup {NoFile, Broken} /\ watched = "missing"
    /\ fields = NoFields /\ caches = NoFields /\ results = NoFields
    /\ tick = Idle /\ shown = [values |-> NoFields, by |-> NoFields] /\ names = {}
    /\ writes = 0

\* The owner writes the file, removes it, or has written half of it.
Edit(content) ==
    /\ writes < MaxWrites /\ writes' = writes + 1
    /\ disk' = content
    /\ watched' = IF watched = "current" THEN "outdated" ELSE watched
    /\ UNCHANGED <<fields, caches, results, tick, shown, names>>

-----------------------------------------------------------------------------
(* The manager looks at the file. *)

Commands(loaded) == {k \in DOMAIN loaded : loaded[k].kind = "cmd"}

Empty(field) == [cmd |-> field.of, repeats |-> field.repeats,
                 known |-> FALSE, fresh |-> FALSE, running |-> FALSE]

\* Loads the fields, with the results of some keys; other keys with a command get
\* an empty one, and a command that still runs for the old one runs for nobody.
Load(loaded, kept) ==
    /\ fields' = loaded
    /\ caches' = [k \in Commands(loaded) |-> IF k \in kept THEN caches[k] ELSE writes]
    /\ LET old == {r \in DOMAIN results : \/ results[r].running
                                          \/ r[1] \in kept /\ r[2] = caches[r[1]]}
           new == {<<k, writes>> : k \in Commands(loaded) \ kept}
       IN  results' = [r \in old \cup new |->
                          IF r \in new THEN Empty(loaded[r[1]]) ELSE results[r]]

\* Mutant: a key keeps its result whatever its command is now.
SyncCachesByKey(loaded) == Load(loaded, Commands(loaded) \cap DOMAIN caches)

\* A key whose command is the same keeps its result, and its repeat time with it.
SyncCaches(loaded) ==
    Load(loaded, {k \in Commands(loaded) \cap DOMAIN caches :
                     results[<<k, caches[k]>>].cmd = loaded[k].of})

\* A file that has just gone, or cannot be read, leaves the fields as they are; one
\* that is still missing takes them away.  The file may change again between the
\* look at it and its reading.
Refresh ==
    CASE disk = NoFile /\ watched = "missing" -> SyncCaches(NoFields) /\ UNCHANGED watched
      [] disk = NoFile /\ watched # "missing" ->
            watched' \in {"missing", "outdated"} /\ UNCHANGED <<fields, caches, results>>
      [] disk # NoFile /\ watched = "current" -> UNCHANGED manager
      [] OTHER -> /\ watched' \in {"current", "outdated"}
                  /\ IF disk = Broken THEN UNCHANGED <<fields, caches, results>>
                     ELSE SyncCaches(disk)

-----------------------------------------------------------------------------
(* A tick of the collector. *)

\* The fields and the results are copied out under the lock.
Collect ==
    /\ tick = Idle
    /\ Refresh
    /\ tick' = [at |-> "values", by |-> fields', caches |-> caches',
                left |-> DOMAIN fields', values |-> NoFields]
    /\ UNCHANGED <<disk, shown, names, writes>>

\* get: what is kept, if there is anything; a command that is due is started.
Get(k) ==
    /\ tick # Idle /\ k \in tick.left
    /\ LET field == tick.by[k]
           r == <<k, IF field.kind = "cmd" THEN tick.caches[k] ELSE 0>>
           due == field.kind = "cmd" /\ ~(results[r].fresh /\ results[r].known)
           known == field.kind = "text" \/ (field.kind = "cmd" /\ results[r].known)
           value == IF field.kind = "cmd" THEN results[r].cmd ELSE field.of
       IN  /\ tick' = [tick EXCEPT !.left = @ \ {k},
                 !.values = IF ~known THEN @
                            ELSE [j \in DOMAIN @ \cup {k} |-> IF j = k THEN value ELSE @[j]]]
           /\ results' = IF due THEN [results EXCEPT ![r].running = TRUE] ELSE results
    /\ UNCHANGED <<disk, watched, fields, caches, shown, names, writes>>

\* The names follow, after another look at the file, and all is sent.
Send ==
    /\ tick # Idle /\ tick.left = {}
    /\ Refresh
    /\ shown' = [values |-> tick.values, by |-> tick.by] /\ names' = DOMAIN fields'
    /\ tick' = Idle
    /\ UNCHANGED <<disk, writes>>

-----------------------------------------------------------------------------
(* The commands. *)

\* It prints its value; or it prints nothing, fails or is killed at its timeout, and
\* the result stays as it was.
Finish(r) ==
    /\ results[r].running
    /\ results' \in {[results EXCEPT ![r].running = FALSE],
                     [results EXCEPT ![r].running = FALSE, ![r].known = TRUE,
                                     ![r].fresh = results[r].repeats]}
    /\ UNCHANGED <<disk, watched, fields, caches, tick, shown, names, writes>>

\* The repeat time has passed.
Expire(r) ==
    /\ results[r].fresh
    /\ results' = [results EXCEPT ![r].fresh = FALSE]
    /\ UNCHANGED <<disk, watched, fields, caches, tick, shown, names, writes>>

Next ==
    \/ \E content \in Contents \cup {NoFile, Broken} : Edit(content)
    \/ Collect \/ Send
    \/ \E k \in FieldKey : Get(k)
    \/ \E r \in DOMAIN results : Finish(r) \/ Expire(r)

Spec == Init /\ [][Next]_vars

-----------------------------------------------------------------------------
(* Properties. *)

\* Whatever edits of the file meet a running command, a field is sent with its own
\* text, or with what the command it has by then has printed: never with the output
\* of a command it had before.
OwnOutput ==
    \A k \in DOMAIN shown.values :
        shown.by[k].kind \in {"text", "cmd"} /\ shown.values[k] = shown.by[k].of

\* No field has two commands running.  This does not hold: a field whose command
\* is changed while it runs starts the new one beside it, and one that is away from
\* the file for a while may start the same one twice.
OneRun ==
    \A r, s \in DOMAIN results :
        results[r].running /\ results[s].running /\ r[1] = s[1] => r = s

\* Every value that is sent has its name sent with it.  This does not hold: the file
\* is read once for the values and once more for the names.
Named == DOMAIN shown.values \subseteq names

\* A command is repeated as the loaded fields say.  This does not hold: a result is
\* kept when nothing but the repeat time has changed.
RepeatsAsSaid ==
    \A k \in DOMAIN caches : results[<<k, caches[k]>>].repeats = fields[k].repeats
=============================================================================
