---------------------------- MODULE ClientProofs ----------------------------
(***************************************************************************)
(* Theorems about the parts of the clients that MCClient puts side by      *)
(* side.  Each is about the specification of its part alone, so for every  *)
(* behaviour of it and every value of its constants.                       *)
(***************************************************************************)
EXTENDS MCClient, FiniteSetTheorems, TLAPS

-----------------------------------------------------------------------------
(* Packs: what was let through the gate is the file as it was read last, and *)
(* the frame the server took, or else a frame was lost.                      *)

\* Without a status nothing was read or sent since the app started.  A change of the
\* file since it was read is an unfinished save's, or one's that failed.
PacksInv ==
    /\ save = [c \in Callers |-> save[c]]
    /\ ~current => stale /\ gate = Nothing
    /\ current /\ ~stale => gate = L!ReadLayout
    /\ current /\ ~excused => taken = gate
    /\ current /\ stale => excused \/ \E c \in Callers : save[c].at \in {"write", "offer"}

\* After an offer the file is read, and the server has taken what it says, or a frame
\* has just been lost.
LEMMA OfferReads ==
  ASSUME PacksInv, NEW reads, NEW due, L!OfferLocked(reads, due),
         reads \/ (current /\ ~stale), current \/ gate = Nothing, layout' = layout
  PROVE  /\ ~stale' /\ gate' = L!ReadLayout'
         /\ ~excused' => taken' = gate'
<1> DEFINE out == IF reads THEN L!ReadLayout ELSE gate
<1>1. out = L!ReadLayout /\ L!ReadLayout' = L!ReadLayout
  BY DEF PacksInv, L!ReadLayout
<1>2. /\ stale' = FALSE
      /\ IF L!Passes(out, due) THEN gate' = out /\ L!Send(out)
         ELSE UNCHANGED <<gate, L!netVars>>
  BY DEF L!OfferLocked
<1> HIDE DEF out
<1>3. CASE L!Passes(out, due)
  BY <1>1, <1>2, <1>3 DEF L!Send
<1>4. CASE ~L!Passes(out, due)
  <2>1. gate = out /\ current
    BY <1>4 DEF L!Passes
  <2> QED
    BY <1>1, <1>2, <1>4, <2>1 DEF PacksInv, L!netVars
<1> QED
  BY <1>3, <1>4

\* When the phone has a status, no save is under way and none has failed, and the
\* server has taken every frame since the last, the frame it took last has the layout
\* that is on disk, after saves that overlap, cut the file under each other's reads,
\* and meet the statuses and heartbeats that read it in between (Session.SetPack,
\* SetCustom, save, Publish, offerLocked; Store.Annotate; Gate.Pass).  A frame may be
\* lost (ws.py, or a send that fails): then nothing is said until the next is taken.
THEOREM PacksTakenIsSaved == L!Spec => []TakenIsSaved
<1>1. L!Init => PacksInv
  BY DEF L!Init, PacksInv
<1>2. PacksInv /\ [L!Next]_L!vars => PacksInv'
  <2> SUFFICES ASSUME PacksInv, [L!Next]_L!vars PROVE PacksInv'
    OBVIOUS
  <2>1. ASSUME UNCHANGED <<layout, save, L!sessionVars>> PROVE PacksInv'
    BY <2>1 DEF PacksInv, L!ReadLayout, L!sessionVars, L!netVars
  <2>2. ASSUME NEW surface \in L!Surface, L!Open(surface) PROVE PacksInv'
    BY <2>1, <2>2 DEF L!Open
  <2>3. CASE L!Load
    BY <2>1, <2>3 DEF L!Load
  <2>4. ASSUME NEW tiles \in TileLists, L!Change(tiles) PROVE PacksInv'
    BY <2>1, <2>4 DEF L!Change
  <2>5. ASSUME NEW c, NEW surface, NEW pack, L!Begin(c, surface, pack),
               UNCHANGED <<layout, L!sessionVars>>
        PROVE  PacksInv'
    BY <2>5 DEF L!Begin, L!Idle, PacksInv, L!ReadLayout, L!sessionVars, L!netVars
  <2>6. CASE L!SetCustom
    BY <2>5, <2>6 DEF L!SetCustom
  <2>7. ASSUME NEW c \in Callers, NEW surface \in L!Surface, L!SetPack(c, surface) PROVE PacksInv'
    BY <2>5, <2>7 DEF L!SetPack
  <2>8. ASSUME NEW c \in Callers, L!Read(c) PROVE PacksInv'
    BY <2>8 DEF L!Read, PacksInv, L!ReadLayout, L!sessionVars, L!netVars
  <2>9. ASSUME NEW c \in Callers, L!Truncate(c) PROVE PacksInv'
    BY <2>9 DEF L!Truncate, PacksInv, L!netVars
  <2>10. ASSUME NEW c \in Callers, L!Write(c) PROVE PacksInv'
    BY <2>10 DEF L!Write, PacksInv, L!netVars
  <2>11. ASSUME NEW c \in Callers, L!Fail(c) PROVE PacksInv'
    BY <2>11 DEF L!Fail, PacksInv, L!ReadLayout
  <2>12. ASSUME NEW c \in Callers, L!Offer(c) PROVE PacksInv'
    <3>1. save' = [b \in Callers |-> save'[b]] /\ layout' = layout /\ current' = current
      BY <2>12 DEF L!Offer, PacksInv
    <3>2. CASE current
      <4>1. PICK due \in BOOLEAN : L!OfferLocked(TRUE, due)
        BY <2>12, <3>2 DEF L!Offer
      <4> QED
        BY <3>1, <3>2, <4>1, OfferReads DEF PacksInv
    <3>3. CASE ~current
      BY <2>12, <3>1, <3>3 DEF L!Offer, PacksInv
    <3> QED
      BY <3>2, <3>3
  <2>13. CASE L!Publish
    <3>1. PICK due \in BOOLEAN : L!OfferLocked(stale, due)
      BY <2>13 DEF L!Publish
    <3>2. UNCHANGED <<layout, save>> /\ current'
      BY <2>13 DEF L!Publish
    <3>3. stale \/ (current /\ ~stale)
      BY DEF PacksInv
    <3>4. current \/ gate = Nothing
      BY DEF PacksInv
    <3> QED
      BY <3>1, <3>2, <3>3, <3>4, OfferReads DEF PacksInv
  <2>14. CASE L!Beat
    <3>1. L!OfferLocked(stale, TRUE) /\ current /\ current' /\ UNCHANGED <<layout, save>>
      BY <2>14 DEF L!Beat
    <3> QED
      BY <3>1, OfferReads DEF PacksInv
  <2>15. CASE L!Pause
    BY <2>15 DEF L!Pause, PacksInv, L!ReadLayout
  <2>16. CASE L!Restart
    BY <2>16 DEF L!Restart, PacksInv
  <2>17. CASE UNCHANGED L!vars
    BY <2>1, <2>17 DEF L!vars
  <2> QED
    BY <2>2, <2>3, <2>4, <2>6, <2>7, <2>8, <2>9, <2>10, <2>11, <2>12, <2>13, <2>14, <2>15,
       <2>16, <2>17 DEF L!Next
<1>3. PacksInv => TakenIsSaved
  BY DEF PacksInv, TakenIsSaved, L!TakenIsSaved, L!Idle
<1> QED
  BY <1>1, <1>2, <1>3, PTL DEF L!Spec

-----------------------------------------------------------------------------
(* Updater: the installs of a client are counted by its window. *)

\* The installs of a client among some.
Of(c, all) == {i \in all : i.by = c}

\* A window that installs stands for one install and any other for none.
Counts(c, s, all) ==
    /\ s = "installing" => \E i \in all : Of(c, all) = {i}
    /\ s # "installing" => Of(c, all) = {}

\* The file is a whole release that outlives a loss of power, and the windows count
\* the installs.
UpdaterInv ==
    /\ program.whole /\ program.synced
    /\ program = [version |-> program.version, whole |-> program.whole, synced |-> program.synced]
    /\ stage = [c \in Client |-> stage[c]]
    /\ \A i \in installs : i.by \in Client /\ i = [by |-> i.by, version |-> i.version, at |-> i.at]
    /\ \A c \in Client : Counts(c, stage[c], installs)

\* An install that is there is the only one of its client, whose window installs.
LEMMA OnlyInstall ==
  ASSUME UpdaterInv, NEW i \in installs
  PROVE  /\ i.by \in Client /\ stage[i.by] = "installing"
         /\ Of(i.by, installs) = {i}
  BY DEF UpdaterInv, Counts, Of

\* A step that leaves the program file alone, and the windows and the installs of all
\* clients but one, is right if it is right about that one.
LEMMA Recount ==
  ASSUME UpdaterInv, program' = program, NEW c \in Client,
         stage' = [stage EXCEPT ![c] = stage'[c]],
         \A d \in Client : d # c => Of(d, installs') = Of(d, installs),
         Counts(c, stage'[c], installs'),
         \A i \in installs' : i \in installs \/ i.by = c,
         \A i \in installs' : i = [by |-> i.by, version |-> i.version, at |-> i.at]
  PROVE  UpdaterInv'
<1>1. \A d \in Client : d # c => Counts(d, stage'[d], installs')
  BY DEF UpdaterInv, Counts, Of
<1> QED
  BY <1>1 DEF UpdaterInv

\* The instance counts as its module would.
LEMMA UpdaterCardinality == \A set : U!Cardinality(set) = Cardinality(set)
  BY DEF U!Cardinality, Cardinality

\* A client runs one install at most, and its window says so; and whoever is killed,
\* or loses power, the program file is a whole release (selfupdate.Apply; model.Update).
THEOREM UpdaterOneInstall == U!Spec => []OneInstall
<1>1. U!Init => UpdaterInv
  BY DEF U!Init, UpdaterInv, Counts, Of
<1>2. UpdaterInv /\ [U!Next]_U!vars => UpdaterInv'
  <2> SUFFICES ASSUME UpdaterInv, [U!Next]_U!vars PROVE UpdaterInv'
    OBVIOUS
  <2>1. ASSUME UNCHANGED <<program, stage, installs>> PROVE UpdaterInv'
    BY <2>1 DEF UpdaterInv
  <2>2. CASE U!Publish
    BY <2>1, <2>2 DEF U!Publish, U!window, U!disk
  <2>3. ASSUME NEW c \in Client, U!Install(c) PROVE UpdaterInv'
    <3> DEFINE new == [by |-> c, version |-> rel[c], at |-> "stage"]
    <3>1. /\ stage[c] = "available" /\ stage' = [stage EXCEPT ![c] = "installing"]
          /\ installs' = installs \cup {new} /\ program' = program
      BY <2>3 DEF U!Install, U!Becomes
    <3>2. stage'[c] = "installing"
      BY <3>1 DEF UpdaterInv
    <3>3. Of(c, installs) = {}
      BY <3>1 DEF UpdaterInv, Counts
    <3>4. new \in installs' /\ Of(c, installs') = {new}
      BY <3>1, <3>3 DEF Of
    <3>5. Counts(c, stage'[c], installs')
      BY <3>2, <3>4 DEF Counts
    <3>6. \A d \in Client : d # c => Of(d, installs') = Of(d, installs)
      BY <3>1 DEF Of
    <3> QED
      BY <3>1, <3>2, <3>5, <3>6, Recount DEF UpdaterInv
  <2>4. ASSUME NEW c \in Client, NEW s, stage[c] # "installing", s # "installing",
               stage' = [stage EXCEPT ![c] = s], UNCHANGED <<program, installs>>
        PROVE  UpdaterInv'
    <3>1. stage'[c] = s
      BY <2>4 DEF UpdaterInv
    <3>2. Counts(c, stage'[c], installs')
      BY <2>4, <3>1 DEF UpdaterInv, Counts
    <3> QED
      BY <2>4, <3>1, <3>2, Recount DEF UpdaterInv
  <2>5. ASSUME NEW c \in Client, U!Check(c) PROVE UpdaterInv'
    BY <2>4, <2>5 DEF U!Check, U!Becomes, U!disk
  <2>6. ASSUME NEW c \in Client, U!Checked(c) PROVE UpdaterInv'
    <3>1. UNCHANGED <<program, installs>>
      BY <2>6 DEF U!Checked, U!Answered, U!disk
    <3>2. CASE UNCHANGED stage
      BY <2>1, <3>1, <3>2
    <3>3. CASE stage[c] \notin {"installing", "done"}
               /\ \E s \in {"failed", "available", "current"} : stage' = [stage EXCEPT ![c] = s]
      BY <2>4, <3>1, <3>3
    <3> QED
      BY <2>6, <3>2, <3>3 DEF U!Checked, U!Becomes, U!window
  <2>7. ASSUME NEW i \in installs, NEW at, U!Goes(i, at), UNCHANGED <<program, stage>>
        PROVE  UpdaterInv'
    <3> DEFINE new == [i EXCEPT !.at = at]
    <3>1. /\ new = [by |-> i.by, version |-> i.version, at |-> at]
          /\ new.by = i.by /\ new = [by |-> new.by, version |-> new.version, at |-> new.at]
          /\ installs' = (installs \ {i}) \cup {new}
      BY <2>7 DEF U!Goes, UpdaterInv
    <3> HIDE DEF new
    <3>2. i.by \in Client /\ stage'[i.by] = "installing" /\ Of(i.by, installs) = {i}
      BY <2>7, OnlyInstall
    <3>3. new \in installs' /\ Of(i.by, installs') = {new}
      BY <3>1, <3>2 DEF Of
    <3>4. Counts(i.by, stage'[i.by], installs')
      BY <3>2, <3>3 DEF Counts
    <3>5. \A d \in Client : d # i.by => Of(d, installs') = Of(d, installs)
      BY <3>1 DEF Of
    <3>6. stage' = [stage EXCEPT ![i.by] = stage'[i.by]]
      BY <2>7 DEF UpdaterInv
    <3>7. \A j \in installs' : /\ j \in installs \/ j.by = i.by
                               /\ j = [by |-> j.by, version |-> j.version, at |-> j.at]
      BY <3>1 DEF UpdaterInv
    <3> QED
      BY <2>7, <3>2, <3>4, <3>5, <3>6, <3>7, Recount
  <2>8. ASSUME NEW i \in installs, U!Stage(i) \/ U!Sync(i) PROVE UpdaterInv'
    BY <2>7, <2>8 DEF U!Stage, U!Sync, U!window, U!disk
  <2>9. ASSUME NEW i \in installs, NEW s, s # "installing",
               installs' = installs \ {i}, stage' = [stage EXCEPT ![i.by] = s]
        PROVE  /\ \A c \in Client : Counts(c, stage'[c], installs')
               /\ stage' = [c \in Client |-> stage'[c]]
    <3>1. i.by \in Client /\ Of(i.by, installs) = {i}
      BY OnlyInstall
    <3>2. Of(i.by, installs') = {} /\ stage'[i.by] = s
      BY <2>9, <3>1 DEF Of, UpdaterInv
    <3>3. \A d \in Client : d # i.by => Of(d, installs') = Of(d, installs) /\ stage'[d] = stage[d]
      BY <2>9, <3>1 DEF Of, UpdaterInv
    <3>4. \A c \in Client : Counts(c, stage'[c], installs')
      BY <2>9, <3>1, <3>2, <3>3 DEF Counts, UpdaterInv, Of
    <3> QED
      BY <2>9, <3>4 DEF UpdaterInv
  <2>10. ASSUME NEW i \in installs, U!Rename(i) PROVE UpdaterInv'
    <3>1. /\ installs' = installs \ {i} /\ stage' = [stage EXCEPT ![i.by] = "done"]
          /\ program' = [version |-> i.version, whole |-> TRUE, synced |-> TRUE]
      BY <2>10 DEF U!Rename, U!Becomes
    <3> QED
      BY <2>9, <3>1 DEF UpdaterInv
  <2>11. ASSUME NEW i \in installs, U!Fail(i) PROVE UpdaterInv'
    <3>1. /\ installs' = installs \ {i} /\ stage' = [stage EXCEPT ![i.by] = "failed"]
          /\ program' = program
      BY <2>11 DEF U!Fail, U!Becomes, U!disk
    <3> QED
      BY <2>9, <3>1 DEF UpdaterInv
  <2>12. ASSUME NEW clients \in SUBSET Client, U!Afresh(clients)
         PROVE  /\ stage' = [c \in Client |-> stage'[c]]
                /\ installs' \subseteq installs
                /\ \A c \in Client : Counts(c, stage'[c], installs')
    <3>1. /\ stage' = [c \in Client |-> IF c \in clients THEN "idle" ELSE stage[c]]
          /\ installs' = {i \in installs : i.by \notin clients}
      BY <2>12 DEF U!Afresh
    <3>2. \A c \in clients : Of(c, installs') = {}
      BY <3>1 DEF Of
    <3>3. \A c \in Client \ clients : Of(c, installs') = Of(c, installs)
      BY <3>1 DEF Of
    <3>4. \A c \in Client : Counts(c, stage'[c], installs')
      BY <3>1, <3>2, <3>3 DEF Counts, UpdaterInv, Of
    <3> QED
      BY <3>1, <3>4
  <2>13. ASSUME NEW c \in Client, U!End(c) PROVE UpdaterInv'
    BY <2>12, <2>13 DEF U!End, UpdaterInv
  <2>14. CASE U!LosePower
    <3>1. program' = [program EXCEPT !.whole = program.synced]
      BY <2>14 DEF U!LosePower
    <3>2. program'.whole /\ program'.synced /\ program' = [version |-> program'.version,
             whole |-> program'.whole, synced |-> program'.synced]
      BY <3>1 DEF UpdaterInv
    <3> QED
      BY <2>12, <2>14, <3>2 DEF U!LosePower, UpdaterInv
  <2>15. CASE UNCHANGED U!vars
    BY <2>1, <2>15 DEF U!vars
  <2> QED
    BY <2>2, <2>3, <2>5, <2>6, <2>8, <2>10, <2>11, <2>13, <2>14, <2>15 DEF U!Next
<1>3. UpdaterInv => OneInstall
  <2> SUFFICES ASSUME UpdaterInv PROVE OneInstall
    OBVIOUS
  <2>1. ASSUME NEW c \in Client
        PROVE  Cardinality(Of(c, installs)) = IF stage[c] = "installing" THEN 1 ELSE 0
    <3>1. CASE stage[c] = "installing"
      <4>1. PICK i \in installs : Of(c, installs) = {i}
        BY <3>1 DEF UpdaterInv, Counts
      <4> QED
        BY <3>1, <4>1, FS_Singleton
    <3>2. CASE stage[c] # "installing"
      <4>1. Of(c, installs) = {}
        BY <3>2 DEF UpdaterInv, Counts
      <4> QED
        BY <3>2, <4>1, FS_EmptySet
    <3> QED
      BY <3>1, <3>2
  <2> QED
    BY <2>1, UpdaterCardinality DEF OneInstall, U!OneInstall, UpdaterInv, Of
<1> QED
  BY <1>1, <1>2, <1>3, PTL DEF U!Spec

-----------------------------------------------------------------------------
(* Caches: a fetch under way is the only one of its key, whose entry says so. *)

CacheEntry == [data : Nat \cup {Zeroed}, fresh : BOOLEAN, fetching : BOOLEAN]

CacheFlight == [key : Key, answer : Nat \cup {Zeroed}]

CachesTypes ==
    /\ truth \in Nat
    /\ items \in [Key -> CacheEntry \cup {NoEntry}]
    /\ flights \subseteq CacheFlight
    /\ newest \in [Key -> Nat]

\* The entry of a key being fetched is marked, so it is not asked for again; and the
\* statistics a fetch brings are no older than those that were kept of the key.
CachesInv ==
    /\ CachesTypes
    /\ \A f \in flights :
          /\ items[f.key] # NoEntry /\ items[f.key].fetching
          /\ f.answer \notin {0, Zeroed} => f.answer \in newest[f.key]..truth
          /\ \A g \in flights : g.key = f.key => g = f
    /\ \A k \in Key : newest[k] <= truth

LEMMA CachesInvInit == S!Init => CachesInv
  BY DEF S!Init, CachesInv, CachesTypes

\* To ask for a key that is not being fetched changes nothing that is kept.
LEMMA AskKeeps ==
  ASSUME CachesInv, NEW k \in Key, items[k] # NoEntry => ~items[k].fetching, S!Ask(k)
  PROVE  /\ items' \in [Key -> CacheEntry \cup {NoEntry}]
         /\ items'[k] # NoEntry /\ items'[k].fetching
         /\ \A j \in Key : j # k => items'[j] = items[j]
         /\ \A j \in Key : S!Kept(j)' = S!Kept(j)
         /\ \A f \in flights : f.key # k
         /\ \E new \in CacheFlight : /\ new.key = k /\ new.answer = 0
                                     /\ flights' = flights \cup {new}
         /\ UNCHANGED <<truth, newest>>
<1> USE EntryAssumption
<1> DEFINE entry == [data |-> S!Kept(k), fresh |-> items[k] # NoEntry /\ items[k].fresh,
                     fetching |-> TRUE]
           new == [key |-> k, answer |-> 0]
<1>1. items' = [items EXCEPT ![k] = entry] /\ flights' = flights \cup {new}
      /\ UNCHANGED <<truth, newest>>
  BY DEF S!Ask
<1>2. S!Kept(k) \in Nat \cup {Zeroed}
  BY DEF CachesInv, CachesTypes, CacheEntry, S!Kept
<1>3. (items[k] # NoEntry /\ items[k].fresh) \in BOOLEAN
  OBVIOUS
<1>4. entry \in CacheEntry /\ entry.data = S!Kept(k) /\ entry.fetching
  BY <1>2, <1>3 DEF CacheEntry
<1>5. new \in CacheFlight /\ new.key = k /\ new.answer = 0
  BY DEF CacheFlight
<1> HIDE DEF entry, new
<1>6. /\ items' \in [Key -> CacheEntry \cup {NoEntry}]
      /\ items'[k] = entry /\ \A j \in Key : j # k => items'[j] = items[j]
  BY <1>1, <1>4 DEF CachesInv, CachesTypes
<1>7. entry # NoEntry
  BY <1>4 DEF CacheEntry
<1>8. \A j \in Key : S!Kept(j)' = S!Kept(j)
  <2> TAKE j \in Key
  <2>1. CASE j = k
    BY <2>1, <1>4, <1>6, <1>7 DEF S!Kept
  <2>2. CASE j # k
    BY <2>2, <1>6 DEF S!Kept
  <2> QED
    BY <2>1, <2>2
<1>9. \A f \in flights : f.key # k
  BY DEF CachesInv
<1> QED
  BY <1>1, <1>4, <1>5, <1>6, <1>7, <1>8, <1>9

LEMMA CachesInvStep == CachesInv /\ [S!Next]_S!vars => CachesInv'
<1> SUFFICES ASSUME CachesInv, [S!Next]_S!vars PROVE CachesInv'
  OBVIOUS
<1> USE EntryAssumption, ZeroedAssumption
<1>1. CASE S!Advance
  BY <1>1 DEF S!Advance, CachesInv, CachesTypes
<1>2. ASSUME NEW k \in Key, S!Expire(k) PROVE CachesInv'
  <2>1. items' \in [Key -> CacheEntry \cup {NoEntry}]
    BY <1>2 DEF S!Expire, CachesInv, CachesTypes, CacheEntry
  <2>2. \A j \in Key : /\ items'[j] = NoEntry <=> items[j] = NoEntry
                       /\ items[j] # NoEntry => items'[j].fetching = items[j].fetching
    BY <1>2 DEF S!Expire, CachesInv, CachesTypes, CacheEntry
  <2>3. \A f \in flights : f.key \in Key
    BY DEF CachesInv, CachesTypes, CacheFlight
  <2> QED
    BY <1>2, <2>1, <2>2, <2>3 DEF S!Expire, CachesInv, CachesTypes
<1>3. ASSUME NEW k \in Key, S!Get(k) PROVE CachesInv'
  <2>1. items[k] # NoEntry => ~items[k].fetching
    BY <1>3 DEF S!Get
  <2>2. S!Ask(k)
    BY <1>3 DEF S!Get
  <2>3. \A f \in flights : f.key \in Key
    BY DEF CachesInv, CachesTypes, CacheFlight
  <2> QED
    BY <2>1, <2>2, <2>3, AskKeeps DEF CachesInv, CachesTypes
<1>4. ASSUME NEW f \in flights, NEW answer, answer = truth \/ answer = Zeroed,
             flights' = (flights \ {f}) \cup {[f EXCEPT !.answer = answer]},
             UNCHANGED <<truth, items, newest>>
      PROVE  CachesInv'
  <2> DEFINE new == [f EXCEPT !.answer = answer]
  <2>1. f.key \in Key /\ f \in CacheFlight /\ truth \in Nat
    BY DEF CachesInv, CachesTypes, CacheFlight
  <2>2. new.key = f.key /\ new.answer = answer /\ new \in CacheFlight
    BY <1>4, <2>1 DEF CacheFlight
  <2>3. answer \notin {0, Zeroed} => answer \in newest[f.key]..truth
    BY <1>4, <2>1 DEF CachesInv, CachesTypes
  <2>4. flights' = (flights \ {f}) \cup {new}
    BY <1>4
  <2> HIDE DEF new
  <2> QED
    BY <1>4, <2>1, <2>2, <2>3, <2>4 DEF CachesInv, CachesTypes
<1>5. ASSUME NEW f \in flights, S!Answer(f) PROVE CachesInv'
  BY <1>4, <1>5 DEF S!Answer
<1>6. ASSUME NEW f \in flights, S!Refuse(f) PROVE CachesInv'
  BY <1>4, <1>6 DEF S!Refuse
<1>7. ASSUME NEW f \in flights, NEW entry \in CacheEntry,
             items' = [items EXCEPT ![f.key] = entry], flights' = flights \ {f},
             truth' = truth, newest' \in [Key -> Nat], newest'[f.key] <= truth,
             \A j \in Key : j # f.key => newest'[j] = newest[j]
      PROVE  CachesInv'
  <2>1. f.key \in Key /\ \A g \in flights' : g \in flights /\ g.key \in Key /\ g.key # f.key
    BY <1>7 DEF CachesInv, CachesTypes, CacheFlight
  <2>2. /\ items' \in [Key -> CacheEntry \cup {NoEntry}]
        /\ \A j \in Key : j # f.key => items'[j] = items[j]
    BY <1>7, <2>1 DEF CachesInv, CachesTypes
  <2> QED
    BY <1>7, <2>1, <2>2 DEF CachesInv, CachesTypes
<1>8. ASSUME NEW f \in flights, S!Store(f) PROVE CachesInv'
  <2>1. f.key \in Key /\ f.answer \in Nat \cup {Zeroed}
    BY DEF CachesInv, CachesTypes, CacheFlight
  <2>2. [data |-> f.answer, fresh |-> TRUE, fetching |-> FALSE] \in CacheEntry
    BY <2>1 DEF CacheEntry
  <2>3. CASE f.answer = Zeroed
    <3>1. newest' = newest
      BY <1>8, <2>3 DEF S!Store
    <3> QED
      BY <1>7, <1>8, <2>1, <2>2, <3>1 DEF S!Store, CachesInv, CachesTypes
  <2>4. CASE f.answer # Zeroed
    <3>1. newest' = [newest EXCEPT ![f.key] = f.answer] /\ f.answer \in newest[f.key]..truth
      BY <1>8, <2>4 DEF S!Store, CachesInv
    <3> QED
      BY <1>7, <1>8, <2>1, <2>2, <2>4, <3>1 DEF S!Store, CachesInv, CachesTypes
  <2> QED
    BY <2>3, <2>4
<1>9. ASSUME NEW f \in flights, S!Fail(f) PROVE CachesInv'
  <2> DEFINE entry == [items[f.key] EXCEPT !.fetching = FALSE]
  <2>1. entry \in CacheEntry /\ f.key \in Key
    BY DEF CachesInv, CachesTypes, CacheEntry, CacheFlight
  <2>2. items' = [items EXCEPT ![f.key] = entry]
    BY <1>9 DEF S!Fail
  <2> HIDE DEF entry
  <2> QED
    BY <1>7, <1>9, <2>1, <2>2 DEF S!Fail, CachesInv, CachesTypes
<1>10. CASE UNCHANGED S!vars
  BY <1>10 DEF S!vars, CachesInv, CachesTypes
<1> QED
  BY <1>1, <1>2, <1>3, <1>5, <1>6, <1>8, <1>9, <1>10 DEF S!Next

\* The caches of statistics ask for each key once at a time, and never show statistics
\* after newer ones, though the body of an error may be shown in between, which is
\* taken for statistics: they implement the cache that promises so (stats.Cache: Get,
\* fetch, doFetch).
THEOREM CachesImplementSingleFlight == S!Spec => ImplementsSingleFlight
<1>1. S!Init => S!Abstract!Init
  BY DEF S!Init, S!Abstract!Init, S!Kept
<1> DEFINE busy == {f.key : f \in flights}
           value == [k \in Key |-> S!Kept(k)]
<1>2. ASSUME CachesInv, CachesInv', [S!Next]_S!vars
      PROVE  [S!Abstract!Next]_<<truth, busy, value, newest>>
  <2>0. CachesInv
    BY <1>2
  <2> USE <2>0, EntryAssumption, ZeroedAssumption
  <2>1. ASSUME \A k \in Key : S!Kept(k)' = S!Kept(k) PROVE value' = value
    BY <2>1
  <2>2. CASE S!Advance
    <3>1. S!Abstract!Advance
      BY <2>2 DEF S!Advance, S!Abstract!Advance, S!Kept
    <3> QED
      BY <3>1 DEF S!Abstract!Next
  <2>3. ASSUME NEW k \in Key, S!Expire(k) PROVE UNCHANGED <<truth, busy, value, newest>>
    <3>1. \A j \in Key : S!Kept(j)' = S!Kept(j)
      BY <2>3 DEF S!Expire, CachesInv, CachesTypes, S!Kept, CacheEntry
    <3> QED
      BY <2>1, <2>3, <3>1 DEF S!Expire
  <2>4. ASSUME NEW k \in Key, S!Get(k) PROVE S!Abstract!Next
    <3>1. (items[k] # NoEntry => ~items[k].fetching) /\ S!Ask(k)
      BY <2>4 DEF S!Get
    <3>2. /\ \A j \in Key : S!Kept(j)' = S!Kept(j)
          /\ \A f \in flights : f.key # k
          /\ \E new \in CacheFlight : new.key = k /\ flights' = flights \cup {new}
          /\ UNCHANGED <<truth, newest>>
      BY <3>1, AskKeeps
    <3>3. k \notin busy /\ busy' = busy \cup {k}
      BY <3>2
    <3>4. S!Abstract!Ask(k)
      BY <2>1, <3>2, <3>3 DEF S!Abstract!Ask
    <3> QED
      BY <3>4 DEF S!Abstract!Next
  <2>5. ASSUME NEW f \in flights, NEW answer,
               flights' = (flights \ {f}) \cup {[f EXCEPT !.answer = answer]},
               UNCHANGED <<truth, items, newest>>
        PROVE  UNCHANGED <<truth, busy, value, newest>>
    <3>1. [f EXCEPT !.answer = answer].key = f.key
      BY DEF CachesInv, CachesTypes, CacheFlight
    <3>2. busy' = busy
      BY <2>5, <3>1
    <3> QED
      BY <2>1, <2>5, <3>2 DEF S!Kept
  <2>6. ASSUME NEW f \in flights, S!Answer(f) PROVE UNCHANGED <<truth, busy, value, newest>>
    BY <2>5, <2>6 DEF S!Answer
  <2>7. ASSUME NEW f \in flights, S!Refuse(f) PROVE UNCHANGED <<truth, busy, value, newest>>
    BY <2>5, <2>7 DEF S!Refuse
  <2>8. ASSUME NEW f \in flights, NEW entry \in CacheEntry,
               items' = [items EXCEPT ![f.key] = entry], flights' = flights \ {f},
               truth' = truth,
               \/ entry.data = S!Kept(f.key) /\ newest' = newest
               \/ entry.data = Zeroed /\ newest' = newest
               \/ /\ entry.data \in newest[f.key]..truth
                  /\ newest' = [newest EXCEPT ![f.key] = entry.data]
        PROVE  S!Abstract!Next
    <3> DEFINE k == f.key
    <3>1. k \in Key /\ \A g \in flights : g.key = k => g = f
      BY DEF CachesInv, CachesTypes, CacheFlight
    <3>2. k \in busy /\ busy' = busy \ {k}
      BY <2>8, <3>1
    <3>3. items'[k] = entry /\ \A j \in Key : j # k => items'[j] = items[j]
      BY <2>8, <3>1 DEF CachesInv, CachesTypes
    <3>4. S!Kept(k)' = entry.data /\ \A j \in Key : j # k => S!Kept(j)' = S!Kept(j)
      BY <3>3 DEF S!Kept, CacheEntry
    <3>5. value' = [value EXCEPT ![k] = entry.data]
      BY <3>1, <3>4
    <3>6. entry.data = S!Kept(k) => value' = value
      BY <3>1, <3>4
    <3>7. S!Abstract!Land(k)
      BY <2>8, <3>2, <3>5, <3>6 DEF S!Abstract!Land
    <3> QED
      BY <3>1, <3>7 DEF S!Abstract!Next
  <2>9. ASSUME NEW f \in flights, S!Store(f) PROVE S!Abstract!Next
    <3> DEFINE entry == [data |-> f.answer, fresh |-> TRUE, fetching |-> FALSE]
    <3>1. entry \in CacheEntry /\ entry.data = f.answer
      BY DEF CachesInv, CachesTypes, CacheEntry, CacheFlight
    <3>2. /\ items' = [items EXCEPT ![f.key] = entry]
          /\ flights' = flights \ {f} /\ truth' = truth /\ f.answer # 0
          /\ newest' = IF f.answer = Zeroed THEN newest
                       ELSE [newest EXCEPT ![f.key] = f.answer]
      BY <2>9 DEF S!Store
    <3>3. f.answer # Zeroed => f.answer \in newest[f.key]..truth
      BY <3>2 DEF CachesInv
    <3> HIDE DEF entry
    <3> QED
      BY <2>8, <3>1, <3>2, <3>3
  <2>10. ASSUME NEW f \in flights, S!Fail(f) PROVE S!Abstract!Next
    <3> DEFINE entry == [items[f.key] EXCEPT !.fetching = FALSE]
    <3>1. entry \in CacheEntry /\ entry.data = S!Kept(f.key)
      BY DEF CachesInv, CachesTypes, CacheEntry, CacheFlight, S!Kept
    <3>2. items' = [items EXCEPT ![f.key] = entry]
      BY <2>10 DEF S!Fail
    <3> HIDE DEF entry
    <3> QED
      BY <2>8, <2>10, <3>1, <3>2 DEF S!Fail
  <2>11. CASE UNCHANGED S!vars
    BY <2>1, <2>11 DEF S!vars, S!Kept
  <2> HIDE DEF busy, value
  <2> QED
    BY <1>2, <2>2, <2>3, <2>4, <2>6, <2>7, <2>9, <2>10, <2>11 DEF S!Next
<1> QED
  BY <1>1, <1>2, CachesInvInit, CachesInvStep, PTL DEF S!Spec, ImplementsSingleFlight, S!ImplementsSingleFlight, S!Abstract!Spec

-----------------------------------------------------------------------------
(* Custom: a result belongs to a command, not to the key of a field. *)

Results(all) ==
    /\ all = [r \in DOMAIN all |-> all[r]]
    /\ \A r \in DOMAIN all : DOMAIN all[r] = {"cmd", "repeats", "known", "fresh", "running"}

\* Some fields with a command have results, those of their own commands.
Own(of, made, all) ==
    \A k \in F!Commands(of) :
        k \in DOMAIN made /\ <<k, made[k]>> \in DOMAIN all /\ all[<<k, made[k]>>].cmd = of[k].of

\* The values taken are those of the fields they are taken by.
Taken(values, of) ==
    \A k \in DOMAIN values : of[k].kind \in {"text", "cmd"} /\ values[k] = of[k].of

\* The manager's fields have their results, and so have those a tick has copied and
\* not asked yet; what it has taken is their own.
CustomInv ==
    /\ Results(results)
    /\ DOMAIN caches = F!Commands(fields) /\ Own(fields, caches, results)
    /\ tick # F!Idle =>
          /\ DOMAIN tick = {"at", "by", "caches", "left", "values"}
          /\ tick.left \subseteq DOMAIN tick.by
          /\ \A k \in tick.left \cap F!Commands(tick.by) :
                /\ <<k, tick.caches[k]>> \in DOMAIN results
                /\ results[<<k, tick.caches[k]>>].cmd = tick.by[k].of
          /\ Taken(tick.values, tick.by)
    /\ Taken(shown.values, shown.by)

\* Whatever is loaded, the manager's fields have the results of their own commands.
LEMMA LoadOwns ==
  ASSUME CustomInv, NEW loaded, NEW kept \in SUBSET (F!Commands(loaded) \cap DOMAIN caches),
         \A k \in kept : results[<<k, caches[k]>>].cmd = loaded[k].of,
         F!Load(loaded, kept)
  PROVE  Results(results') /\ DOMAIN caches' = F!Commands(fields') /\ Own(fields', caches', results')
<1> DEFINE old == {r \in DOMAIN results : \/ results[r].running
                                          \/ r[1] \in kept /\ r[2] = caches[r[1]]}
           new == {<<k, writes>> : k \in F!Commands(loaded) \ kept}
<1>1. /\ fields' = loaded
      /\ caches' = [k \in F!Commands(loaded) |-> IF k \in kept THEN caches[k] ELSE writes]
      /\ results' = [r \in old \cup new |->
                       IF r \in new THEN F!Empty(loaded[r[1]]) ELSE results[r]]
  BY DEF F!Load
<1>2. \A r \in old : r \in DOMAIN results
  OBVIOUS
<1>3. Results(results')
  BY <1>1, <1>2 DEF CustomInv, Results, F!Empty
<1>4. ASSUME NEW k \in kept
      PROVE  /\ <<k, caches'[k]>> \in DOMAIN results'
             /\ results'[<<k, caches'[k]>>].cmd = loaded[k].of
  <2>1. caches'[k] = caches[k] /\ k \in DOMAIN caches
    BY <1>1
  <2>2. <<k, caches[k]>> \in old
    BY <2>1 DEF CustomInv, Own
  <2>3. <<k, caches[k]>> \notin new
    OBVIOUS
  <2> QED
    BY <1>1, <2>1, <2>2, <2>3
<1>5. ASSUME NEW k \in F!Commands(loaded) \ kept
      PROVE  /\ <<k, caches'[k]>> \in DOMAIN results'
             /\ results'[<<k, caches'[k]>>].cmd = loaded[k].of
  <2>1. caches'[k] = writes /\ <<k, writes>> \in new
    BY <1>1
  <2> QED
    BY <1>1, <2>1 DEF F!Empty
<1> QED
  BY <1>1, <1>3, <1>4, <1>5 DEF Own

LEMMA RefreshOwns ==
  ASSUME CustomInv, F!Refresh
  PROVE  Results(results') /\ DOMAIN caches' = F!Commands(fields') /\ Own(fields', caches', results')
<1>1. ASSUME NEW loaded, F!SyncCaches(loaded)
      PROVE  Results(results') /\ DOMAIN caches' = F!Commands(fields') /\ Own(fields', caches', results')
  BY <1>1, LoadOwns DEF F!SyncCaches
<1>2. CASE UNCHANGED <<fields, caches, results>>
  BY <1>2 DEF CustomInv, Results
<1> QED
  BY <1>1, <1>2 DEF F!Refresh, F!manager

\* What is shown for a field is its own text, or what the command it has by then has
\* printed, whatever edits of the file meet a running command (Manager.refresh,
\* syncCachesLocked, Providers; cachedResult.get).
THEOREM CustomOwnOutput == F!Spec => []OwnOutput
<1>1. F!Init => CustomInv
  BY DEF F!Init, F!NoFields, F!Idle, F!Commands, CustomInv, Results, Own, Taken
<1>2. CustomInv /\ [F!Next]_F!vars => CustomInv'
  <2> SUFFICES ASSUME CustomInv, [F!Next]_F!vars PROVE CustomInv'
    OBVIOUS
  <2>1. ASSUME NEW content, F!Edit(content) PROVE CustomInv'
    BY <2>1 DEF F!Edit, CustomInv, Results
  <2>2. CASE F!Collect
    <3>1. Results(results') /\ DOMAIN caches' = F!Commands(fields') /\ Own(fields', caches', results')
      BY <2>2, RefreshOwns DEF F!Collect
    <3>2. /\ tick' = [at |-> "values", by |-> fields', caches |-> caches',
                      left |-> DOMAIN fields', values |-> F!NoFields]
          /\ shown' = shown
      BY <2>2 DEF F!Collect
    <3>3. /\ DOMAIN tick' = {"at", "by", "caches", "left", "values"}
          /\ tick'.by = fields' /\ tick'.caches = caches' /\ tick'.left = DOMAIN fields'
          /\ tick'.values = F!NoFields
      BY <3>2
    <3>4. Taken(tick'.values, tick'.by)
      BY <3>3 DEF F!NoFields, Taken
    <3> QED
      BY <3>1, <3>2, <3>3, <3>4 DEF CustomInv, Own
  <2>3. ASSUME NEW k, F!Get(k) PROVE CustomInv'
    <3> DEFINE field == tick.by[k]
               r == <<k, IF field.kind = "cmd" THEN tick.caches[k] ELSE 0>>
               value == IF field.kind = "cmd" THEN results[r].cmd ELSE field.of
    <3>1. /\ tick # F!Idle /\ k \in tick.left /\ k \in DOMAIN tick.by
          /\ UNCHANGED <<fields, caches, shown>>
      BY <2>3 DEF F!Get, CustomInv
    <3>2. field.kind = "cmd" => r \in DOMAIN results /\ results[r].cmd = field.of
      BY <3>1 DEF CustomInv, F!Commands
    <3>3. /\ Results(results') /\ DOMAIN results' = DOMAIN results
          /\ \A s \in DOMAIN results : results'[s].cmd = results[s].cmd
      <4>1. CASE results' = results
        BY <4>1 DEF CustomInv, Results
      <4>2. CASE field.kind = "cmd" /\ results' = [results EXCEPT ![r].running = TRUE]
        <5>1. Results(results) /\ r \in DOMAIN results
          BY <3>2, <4>2 DEF CustomInv
        <5> HIDE DEF r
        <5> QED
          BY <4>2, <5>1 DEF Results
      <4> QED
        BY <2>3, <4>1, <4>2 DEF F!Get
    <3>4. /\ DOMAIN tick' = DOMAIN tick
          /\ tick'.by = tick.by /\ tick'.caches = tick.caches /\ tick'.left = tick.left \ {k}
      BY <2>3, <3>1 DEF F!Get, CustomInv
    <3>5. \/ tick'.values = tick.values
          \/ /\ field.kind \in {"text", "cmd"}
             /\ tick'.values = [j \in DOMAIN tick.values \cup {k} |->
                                  IF j = k THEN value ELSE tick.values[j]]
      BY <2>3, <3>1 DEF F!Get, CustomInv
    <3>6. value = field.of
      BY <3>2
    <3> HIDE DEF value
    <3>7. Taken(tick'.values, tick'.by)
      BY <3>1, <3>4, <3>5, <3>6 DEF CustomInv, Taken
    <3> QED
      BY <3>1, <3>3, <3>4, <3>7 DEF CustomInv, Own
  <2>4. CASE F!Send
    <3>1. Results(results') /\ DOMAIN caches' = F!Commands(fields') /\ Own(fields', caches', results')
      BY <2>4, RefreshOwns DEF F!Send
    <3>2. tick' = F!Idle /\ shown' = [values |-> tick.values, by |-> tick.by] /\ tick # F!Idle
      BY <2>4 DEF F!Send
    <3> QED
      BY <3>1, <3>2 DEF CustomInv
  <2>5. ASSUME NEW r \in DOMAIN results, F!Finish(r) PROVE CustomInv'
    <3>1. Results(results)
      BY DEF CustomInv
    <3>2. /\ Results(results') /\ DOMAIN results' = DOMAIN results
          /\ \A s \in DOMAIN results : results'[s].cmd = results[s].cmd
      <4>1. CASE results' = [results EXCEPT ![r].running = FALSE]
        BY <3>1, <4>1 DEF Results
      <4>2. CASE results' = [results EXCEPT ![r].running = FALSE, ![r].known = TRUE,
                                            ![r].fresh = results[r].repeats]
        BY <3>1, <4>2 DEF Results
      <4> QED
        BY <2>5, <4>1, <4>2 DEF F!Finish
    <3> QED
      BY <2>5, <3>2 DEF F!Finish, CustomInv, Own
  <2>6. ASSUME NEW r \in DOMAIN results, F!Expire(r) PROVE CustomInv'
    <3>1. Results(results) /\ results' = [results EXCEPT ![r].fresh = FALSE]
      BY <2>6 DEF CustomInv, F!Expire
    <3>2. /\ Results(results') /\ DOMAIN results' = DOMAIN results
          /\ \A s \in DOMAIN results : results'[s].cmd = results[s].cmd
      BY <3>1 DEF Results
    <3> QED
      BY <2>6, <3>2 DEF F!Expire, CustomInv, Own
  <2>7. CASE UNCHANGED F!vars
    BY <2>7 DEF F!vars, CustomInv, Results
  <2> QED
    BY <2>1, <2>2, <2>3, <2>4, <2>5, <2>6, <2>7 DEF F!Next
<1>3. CustomInv => OwnOutput
  BY DEF CustomInv, Taken, OwnOutput, F!OwnOutput
<1> QED
  BY <1>1, <1>2, <1>3, PTL DEF F!Spec

-----------------------------------------------------------------------------
(* Art: an attempt is on disk before it is made. *)

\* What is known of a title, in memory (k), by the task at it (t), on disk (d), in the
\* file being written (w) and of the requests made (n): an attempt is written down
\* before the store is asked, and what is written down is not due.
Sparing(k, t, d, w, n) ==
    /\ k \in T!Entry \cup {NoFile} /\ d \in T!Entry \cup {NoFile, Half}
    /\ t \in T!Task \cup {T!NoTask} /\ n \in {0, 1}
    /\ t.at \in T!Stages => k = t.entry /\ ~t.entry.old
    /\ t.at \in T!Stages /\ ~t.last => n = 0 /\ t.entry.store # "ok"
    /\ t.at = "write" => t.inode = "tmp" /\ w = Half
    /\ t.at = "rename" => w = t.entry
    /\ t.at = "turn" => n = 0
    /\ t.at \in {"turn", "asking"} => d \in T!Entry /\ ~d.old /\ k \in T!Entry /\ ~k.old
    /\ t # T!NoTask /\ d \in T!Entry => d.store # "ok"
    /\ t = T!NoTask /\ d \in T!Entry /\ d.store = "ok" => k = NoFile \/ k.store = "ok"
    /\ n = 1 => /\ d \in T!Entry /\ ~T!Stale(d)
                /\ k # NoFile => ~T!Stale(k)

LEMMA SparingTask ==
  ASSUME NEW k, NEW t, NEW d, NEW w, NEW n, Sparing(k, t, d, w, n)
  PROVE  /\ t.at \in T!Stages \cup {"none", "turn", "asking"}
         /\ t.at = "none" <=> t = T!NoTask
         /\ t.at \in T!Stages =>
               /\ t \in [at : T!Stages, entry : T!Entry, inode : {"none", "tmp", "art", "gone"},
                         last : BOOLEAN]
               /\ DOMAIN t = {"at", "entry", "inode", "last"}
  BY DEF Sparing, T!Task, T!NoTask, T!Stages

\* While there is a task, something is known.
LEMMA SparingBusy ==
  ASSUME NEW k, NEW t, NEW d, NEW w, NEW n, Sparing(k, t, d, w, n), t # T!NoTask
  PROVE  k \in T!Entry
<1>1. CASE t.at \in T!Stages
  <2>1. t.entry \in T!Entry
    BY <1>1, SparingTask
  <2>2. k = t.entry
    BY <1>1 DEF Sparing
  <2> QED
    BY <2>1, <2>2
<1>2. CASE t.at \in {"turn", "asking"}
  BY <1>2 DEF Sparing
<1>3. t.at \in T!Stages \/ t.at \in {"turn", "asking"}
  BY SparingTask
<1> QED
  BY <1>1, <1>2, <1>3

LEMMA SparingBegin ==
  ASSUME NEW e \in T!Entry, ~e.old, e.store # "ok",
         NEW d \in T!Entry \cup {NoFile, Half}, d \in T!Entry => d.store # "ok", NEW w
  PROVE  Sparing(e, [at |-> "open", entry |-> e, inode |-> "none", last |-> FALSE], d, w, 0)
<1> DEFINE t == [at |-> "open", entry |-> e, inode |-> "none", last |-> FALSE]
<1>1. t \in T!Task /\ t # T!NoTask /\ t.at = "open" /\ t.entry = e /\ ~t.last
  BY DEF T!Task, T!NoTask, T!Stages
<1> HIDE DEF t
<1>2. Sparing(e, t, d, w, 0)
  BY <1>1 DEF Sparing
<1> QED
  BY <1>2 DEF t

\* What a lookup finds, and what it writes down before it asks.
LEMMA SparingLookup ==
  ASSUME NEW k, NEW d, NEW w, NEW n, Sparing(k, T!NoTask, d, w, n),
         NEW f \in T!Entry,
         f = IF k # NoFile THEN k ELSE IF d \in T!Entry THEN d ELSE [store |-> "", old |-> TRUE],
         NEW e \in T!Entry, e.store = f.store, ~e.old
  PROVE  /\ Sparing(f, T!NoTask, d, w, n)
         /\ T!Stale(f) =>
              Sparing(e, [at |-> "open", entry |-> e, inode |-> "none", last |-> FALSE], d, w, n)
<1>1. Sparing(f, T!NoTask, d, w, n)
  BY FileAssumption DEF Sparing, T!NoTask, T!Stages, T!Stale
<1>2. ASSUME T!Stale(f)
      PROVE  n = 0 /\ f.store # "ok" /\ d \in T!Entry \cup {NoFile, Half}
             /\ (d \in T!Entry => d.store # "ok")
  BY <1>2, FileAssumption DEF Sparing, T!Stale
<1> QED
  BY <1>1, <1>2, SparingBegin

LEMMA SparingOpen ==
  ASSUME NEW k, NEW t, NEW d, NEW w, NEW n, Sparing(k, t, d, w, n), t.at = "open",
         NEW u, u = [t EXCEPT !.at = "write", !.inode = "tmp"]
  PROVE  Sparing(k, u, d, Half, n)
<1>1. /\ t \in [at : T!Stages, entry : T!Entry, inode : {"none", "tmp", "art", "gone"}, last : BOOLEAN]
      /\ t # T!NoTask
  BY SparingTask DEF T!Stages
<1>2. /\ u \in T!Task /\ u # T!NoTask
      /\ u.at = "write" /\ u.inode = "tmp" /\ u.entry = t.entry /\ u.last = t.last
  BY <1>1 DEF T!Task, T!NoTask, T!Stages
<1> QED
  BY <1>1, <1>2 DEF Sparing, T!Stages

LEMMA SparingWrite ==
  ASSUME NEW k, NEW t, NEW d, NEW w, NEW n, Sparing(k, t, d, w, n), t.at = "write",
         NEW u, u = [t EXCEPT !.at = "rename", !.inode = "none"]
  PROVE  /\ t.inode = "tmp" /\ T!Written(w, t.entry) = {t.entry}
         /\ Sparing(k, u, d, t.entry, n)
<1>1. /\ t \in [at : T!Stages, entry : T!Entry, inode : {"none", "tmp", "art", "gone"}, last : BOOLEAN]
      /\ t # T!NoTask
  BY SparingTask DEF T!Stages
<1>2. /\ u \in T!Task /\ u # T!NoTask
      /\ u.at = "rename" /\ u.entry = t.entry /\ u.last = t.last
  BY <1>1 DEF T!Task, T!NoTask, T!Stages
<1>3. t.inode = "tmp" /\ T!Written(w, t.entry) = {t.entry}
  BY DEF Sparing, T!Written
<1> QED
  BY <1>1, <1>2, <1>3 DEF Sparing, T!Stages

LEMMA SparingRename ==
  ASSUME NEW k, NEW t, NEW d, NEW w, NEW n, Sparing(k, t, d, w, n), t.at = "rename"
  PROVE  /\ w # NoFile
         /\ t.last => Sparing(k, T!NoTask, w, NoFile, n)
         /\ ~t.last => Sparing(k, [at |-> "turn"], w, NoFile, n)
<1>1. /\ t \in [at : T!Stages, entry : T!Entry, inode : {"none", "tmp", "art", "gone"}, last : BOOLEAN]
      /\ t # T!NoTask
  BY SparingTask DEF T!Stages
<1>2. w \in T!Entry /\ w = t.entry /\ k = w /\ ~w.old
  BY <1>1 DEF Sparing, T!Stages
<1>3. w # NoFile
  BY <1>2, FileAssumption
<1>4. ASSUME t.last PROVE Sparing(k, T!NoTask, w, NoFile, n)
  <2>1. T!NoTask.at = "none"
    BY DEF T!NoTask
  <2> QED
    BY <1>2, <2>1 DEF Sparing, T!Stages, T!Stale
<1>5. ASSUME ~t.last PROVE Sparing(k, [at |-> "turn"], w, NoFile, n)
  <2>1. [at |-> "turn"] \in T!Task /\ [at |-> "turn"] # T!NoTask
    BY DEF T!Task, T!NoTask
  <2>2. n = 0 /\ w.store # "ok"
    BY <1>2, <1>5 DEF Sparing, T!Stages
  <2> QED
    BY <1>2, <2>1, <2>2 DEF Sparing, T!Stages
<1> QED
  BY <1>3, <1>4, <1>5

LEMMA SparingAsk ==
  ASSUME NEW k, NEW t, NEW d, NEW w, NEW n, Sparing(k, t, d, w, n), t.at = "turn"
  PROVE  n = 0 /\ Sparing(k, [at |-> "asking"], d, w, 1)
<1>1. [at |-> "asking"] \in T!Task /\ [at |-> "asking"] # T!NoTask /\ t # T!NoTask
  BY DEF T!Task, T!NoTask
<1> QED
  BY <1>1 DEF Sparing, T!Stages, T!Stale

LEMMA SparingAnswer ==
  ASSUME NEW k, NEW t, NEW d, NEW w, NEW n, Sparing(k, t, d, w, n), t.at = "asking",
         NEW e \in T!Entry, ~e.old
  PROVE  Sparing(e, [at |-> "open", entry |-> e, inode |-> "none", last |-> TRUE], d, w, n)
<1> DEFINE u == [at |-> "open", entry |-> e, inode |-> "none", last |-> TRUE]
<1>1. t # T!NoTask
  BY DEF T!NoTask
<1>2. u \in T!Task /\ u # T!NoTask /\ u.at = "open" /\ u.entry = e /\ u.last
  BY DEF T!Task, T!NoTask, T!Stages
<1> HIDE DEF u
<1>3. Sparing(e, u, d, w, n)
  BY <1>1, <1>2 DEF Sparing, T!Stages, T!Stale
<1> QED
  BY <1>3 DEF u

\* A process that ends leaves what is on disk.
LEMMA SparingQuit ==
  ASSUME NEW k, NEW t, NEW d, NEW w, NEW n, Sparing(k, t, d, w, n)
  PROVE  Sparing(NoFile, T!NoTask, d, w, n)
  BY FileAssumption DEF Sparing, T!NoTask, T!Stages

Aged(e) == IF e \in T!Entry THEN [e EXCEPT !.old = TRUE] ELSE e

\* A wait has passed: what was resolved stays so, and all else is due.
LEMMA SparingWait ==
  ASSUME NEW k, NEW d, NEW w, NEW n, Sparing(k, T!NoTask, d, w, n),
         NEW v, NEW m \in {0, 1}, (d \in T!Entry => d.store # "ok") => m = 0, m = 1 => n = 1
  PROVE  Sparing(Aged(k), T!NoTask, Aged(d), v, m)
<1>1. \A e : /\ Aged(e) \in T!Entry <=> e \in T!Entry
             /\ e \in T!Entry => Aged(e).store = e.store
             /\ e \notin T!Entry => Aged(e) = e
  BY DEF T!Entry, Aged
<1> QED
  BY <1>1, FileAssumption DEF Sparing, T!NoTask, T!Stages, T!Stale

Shaped(p) ==
    /\ known = [q \in Program |-> [a \in Title |-> known[q][a]]]
    /\ task = [q \in Program |-> [a \in Title |-> task[q][a]]]
    /\ art = [a \in Title |-> art[a]] /\ tmp = [a \in Title |-> tmp[a]]
    /\ asked = [a \in Title |-> asked[a]]

ArtInv(p) ==
    /\ Shaped(p)
    /\ \A a \in Title : Sparing(known[p][a], task[p][a], art[a], tmp[a], asked[a])

Put(f, g, p, a, e) == g = [f EXCEPT ![p][a] = e] \/ (g = f /\ e = f[p][a])
PutIn(f, g, a, e) == g = [f EXCEPT ![a] = e] \/ (g = f /\ e = f[a])

\* Putting something at one title.
LEMMA PutAt ==
  ASSUME NEW f, f = [q \in Program |-> [b \in Title |-> f[q][b]]],
         NEW p \in Program, NEW a \in Title, NEW e, NEW g, Put(f, g, p, a, e)
  PROVE  /\ g = [q \in Program |-> [b \in Title |-> g[q][b]]]
         /\ g[p][a] = e
         /\ \A b \in Title \ {a} : g[p][b] = f[p][b]
<1>1. CASE g = [f EXCEPT ![p][a] = e]
  <2>1. g = [q \in Program |-> [b \in Title |-> IF q = p /\ b = a THEN e ELSE f[q][b]]]
    BY <1>1
  <2> QED
    BY <2>1
<1>2. CASE g = f /\ e = f[p][a]
  BY <1>2
<1> QED
  BY <1>1, <1>2 DEF Put

\* A step at one title is right if it is right about that one.
LEMMA AtOneTitle ==
  ASSUME NEW p \in Program, ArtInv(p), NEW a \in Title, NEW k, NEW t, NEW d, NEW w, NEW n,
         Put(known, known', p, a, k), Put(task, task', p, a, t),
         PutIn(art, art', a, d), PutIn(tmp, tmp', a, w), PutIn(asked, asked', a, n),
         Sparing(k, t, d, w, n)
  PROVE  ArtInv(p)'
<1>1. /\ known' = [q \in Program |-> [b \in Title |-> known'[q][b]]]
      /\ known'[p][a] = k /\ \A b \in Title \ {a} : known'[p][b] = known[p][b]
  <2>1. known = [q \in Program |-> [b \in Title |-> known[q][b]]]
    BY DEF ArtInv, Shaped
  <2> QED
    BY <2>1, PutAt
<1>2. /\ task' = [q \in Program |-> [b \in Title |-> task'[q][b]]]
      /\ task'[p][a] = t /\ \A b \in Title \ {a} : task'[p][b] = task[p][b]
  <2>1. task = [q \in Program |-> [b \in Title |-> task[q][b]]]
    BY DEF ArtInv, Shaped
  <2> QED
    BY <2>1, PutAt
<1>3. /\ art' = [b \in Title |-> art'[b]]
      /\ art'[a] = d /\ \A b \in Title \ {a} : art'[b] = art[b]
  BY DEF ArtInv, Shaped, PutIn
<1>4. /\ tmp' = [b \in Title |-> tmp'[b]]
      /\ tmp'[a] = w /\ \A b \in Title \ {a} : tmp'[b] = tmp[b]
  BY DEF ArtInv, Shaped, PutIn
<1>5. /\ asked' = [b \in Title |-> asked'[b]]
      /\ asked'[a] = n /\ \A b \in Title \ {a} : asked'[b] = asked[b]
  BY DEF ArtInv, Shaped, PutIn
<1>6. Shaped(p)'
  BY <1>1, <1>2, <1>3, <1>4, <1>5 DEF Shaped
<1>7. \A b \in Title : Sparing(known'[p][b], task'[p][b], art'[b], tmp'[b], asked'[b])
  BY <1>1, <1>2, <1>3, <1>4, <1>5 DEF ArtInv
<1> QED
  BY <1>6, <1>7 DEF ArtInv

\* Where one process collects, the store is asked once per wait for a title, and never
\* again for one whose answer is on disk, however often the process ends, in the middle
\* of what (resolver.lookup, write, askStore, stale).
THEOREM ArtAsksSparingly ==
  ASSUME NEW p, Program = {p}
  PROVE  T!Spec => []AsksSparingly
<1> USE FileAssumption
<1>1. T!Init => ArtInv(p)
  <2> SUFFICES ASSUME T!Init PROVE ArtInv(p)
    OBVIOUS
  <2>1. Shaped(p)
    BY DEF T!Init, Shaped
  <2>2. ASSUME NEW a \in Title
        PROVE  Sparing(known[p][a], task[p][a], art[a], tmp[a], asked[a])
    BY DEF T!Init, Sparing, T!NoTask, T!Stages
  <2> QED
    BY <2>1, <2>2 DEF ArtInv
<1>2. ArtInv(p) /\ [T!Next]_T!vars => ArtInv(p)'
  <2> SUFFICES ASSUME ArtInv(p), [T!Next]_T!vars PROVE ArtInv(p)'
    OBVIOUS
  <2>1. ASSUME NEW a \in Title, T!Lookup(p, a) PROVE ArtInv(p)'
    <3> DEFINE f == T!Known(p, a)
               e == [f EXCEPT !.old = FALSE]
    <3>1. Sparing(known[p][a], task[p][a], art[a], tmp[a], asked[a])
      BY DEF ArtInv
    <3>2. /\ f \in T!Entry
          /\ f = IF known[p][a] # NoFile THEN known[p][a]
                 ELSE IF art[a] \in T!Entry THEN art[a] ELSE [store |-> "", old |-> TRUE]
      BY <3>1 DEF T!Known, T!Read, T!Entry, Sparing
    <3>3. e \in T!Entry /\ e.store = f.store /\ ~e.old
      BY <3>2 DEF T!Entry
    <3> HIDE DEF f, e
    <3>4. UNCHANGED <<art, tmp, asked>>
      BY <2>1 DEF T!Lookup
    <3>5. CASE task[p][a] = T!NoTask /\ T!Stale(f)
      <4> DEFINE t == [at |-> "open", entry |-> e, inode |-> "none", last |-> FALSE]
      <4>1. known' = [known EXCEPT ![p][a] = e] /\ task' = [task EXCEPT ![p][a] = t]
        BY <2>1, <3>5 DEF T!Lookup, T!Begin, f, e
      <4>2. Sparing(e, t, art[a], tmp[a], asked[a])
        BY <3>1, <3>2, <3>3, <3>5, SparingLookup
      <4> HIDE DEF t
      <4>3. Put(known, known', p, a, e) /\ Put(task, task', p, a, t)
        BY <4>1 DEF Put
      <4>4. PutIn(art, art', a, art[a]) /\ PutIn(tmp, tmp', a, tmp[a]) /\ PutIn(asked, asked', a, asked[a])
        BY <3>4 DEF PutIn
      <4> QED
        BY <4>2, <4>3, <4>4, AtOneTitle
    <3>6. CASE ~(task[p][a] = T!NoTask /\ T!Stale(f))
      <4>1. known' = [known EXCEPT ![p][a] = f] /\ task' = task
        BY <2>1, <3>6 DEF T!Lookup, f
      <4>2. Sparing(f, task[p][a], art[a], tmp[a], asked[a])
        <5>1. CASE task[p][a] = T!NoTask
          BY <3>1, <3>2, <3>3, <5>1, SparingLookup
        <5>2. CASE task[p][a] # T!NoTask
          <6>1. known[p][a] \in T!Entry
            BY <3>1, <5>2, SparingBusy
          <6> QED
            BY <3>1, <3>2, <6>1
        <5> QED
          BY <5>1, <5>2
      <4>3. Put(known, known', p, a, f) /\ Put(task, task', p, a, task[p][a])
        BY <4>1 DEF Put
      <4>4. PutIn(art, art', a, art[a]) /\ PutIn(tmp, tmp', a, tmp[a]) /\ PutIn(asked, asked', a, asked[a])
        BY <3>4 DEF PutIn
      <4> QED
        BY <4>2, <4>3, <4>4, AtOneTitle
    <3> QED
      BY <3>5, <3>6
  <2>2. ASSUME NEW a \in Title, T!Open(p, a) PROVE ArtInv(p)'
    <3> DEFINE t == task[p][a]
               u == [t EXCEPT !.at = "write", !.inode = "tmp"]
    <3>1. Sparing(known[p][a], t, art[a], tmp[a], asked[a])
      BY DEF ArtInv
    <3>2. /\ t.at = "open" /\ task' = [task EXCEPT ![p][a] = u]
          /\ tmp' = [tmp EXCEPT ![a] = Half] /\ UNCHANGED <<known, art, asked>>
      BY <2>2 DEF T!Open, ArtInv, Shaped
    <3>3. Sparing(known[p][a], u, art[a], Half, asked[a])
      BY <3>1, <3>2, SparingOpen
    <3> HIDE DEF u
    <3>4. Put(known, known', p, a, known[p][a]) /\ Put(task, task', p, a, u)
      BY <3>2 DEF Put
    <3>5. PutIn(art, art', a, art[a]) /\ PutIn(tmp, tmp', a, Half) /\ PutIn(asked, asked', a, asked[a])
      BY <3>2 DEF PutIn
    <3> QED
      BY <3>3, <3>4, <3>5, AtOneTitle
  <2>3. ASSUME NEW a \in Title, T!Write(p, a) PROVE ArtInv(p)'
    <3> DEFINE t == task[p][a]
               u == [t EXCEPT !.at = "rename", !.inode = "none"]
    <3>1. Sparing(known[p][a], t, art[a], tmp[a], asked[a])
      BY DEF ArtInv
    <3>2. t.at = "write" /\ UNCHANGED <<known, asked>>
      BY <2>3 DEF T!Write
    <3>3. task' = [task EXCEPT ![p][a] = u]
      BY <2>3 DEF T!Write, ArtInv, Shaped
    <3>4. /\ t.inode = "tmp" /\ T!Written(tmp[a], t.entry) = {t.entry}
          /\ Sparing(known[p][a], u, art[a], t.entry, asked[a])
      BY <3>1, <3>2, SparingWrite
    <3>5. tmp' = [tmp EXCEPT ![a] = t.entry] /\ art' = art
      BY <2>3, <3>4 DEF T!Write
    <3> HIDE DEF u
    <3>6. Put(known, known', p, a, known[p][a]) /\ Put(task, task', p, a, u)
      BY <3>2, <3>3 DEF Put
    <3>7. PutIn(art, art', a, art[a]) /\ PutIn(tmp, tmp', a, t.entry) /\ PutIn(asked, asked', a, asked[a])
      BY <3>2, <3>5 DEF PutIn
    <3> QED
      BY <3>4, <3>6, <3>7, AtOneTitle
  <2>4. ASSUME NEW a \in Title, T!Rename(p, a) PROVE ArtInv(p)'
    <3> DEFINE t == task[p][a]
               done == IF t.last THEN T!NoTask ELSE [at |-> "turn"]
    <3>1. Sparing(known[p][a], t, art[a], tmp[a], asked[a])
      BY DEF ArtInv
    <3>2. t.at = "rename" /\ UNCHANGED <<known, asked>>
      BY <2>4 DEF T!Rename
    <3>3. tmp[a] # NoFile /\ Sparing(known[p][a], done, tmp[a], NoFile, asked[a])
      BY <3>1, <3>2, SparingRename
    <3>4. art' = [art EXCEPT ![a] = tmp[a]] /\ tmp' = [tmp EXCEPT ![a] = NoFile]
      BY <2>4, <3>3 DEF T!Rename
    <3>5. task' = [q \in Program |-> [task[q] EXCEPT ![a] = done]]
      BY <2>4 DEF T!Rename
    <3> HIDE DEF done
    <3>6. task' = [task EXCEPT ![p][a] = done]
      BY <3>5 DEF ArtInv, Shaped
    <3>7. Put(known, known', p, a, known[p][a]) /\ Put(task, task', p, a, done)
      BY <3>2, <3>6 DEF Put
    <3>8. PutIn(art, art', a, tmp[a]) /\ PutIn(tmp, tmp', a, NoFile) /\ PutIn(asked, asked', a, asked[a])
      BY <3>2, <3>4 DEF PutIn
    <3> QED
      BY <3>3, <3>7, <3>8, AtOneTitle
  <2>5. ASSUME NEW a \in Title, T!Ask(p, a) PROVE ArtInv(p)'
    <3>1. /\ task[p][a].at = "turn" /\ task' = [task EXCEPT ![p][a] = [at |-> "asking"]]
          /\ asked' = [asked EXCEPT ![a] = asked[a] + 1] /\ UNCHANGED <<known, art, tmp>>
      BY <2>5 DEF T!Ask
    <3>2. asked[a] = 0 /\ Sparing(known[p][a], [at |-> "asking"], art[a], tmp[a], 1)
      BY <3>1, SparingAsk DEF ArtInv
    <3>3. asked' = [asked EXCEPT ![a] = 1]
      BY <3>1, <3>2
    <3>4. Put(known, known', p, a, known[p][a]) /\ Put(task, task', p, a, [at |-> "asking"])
      BY <3>1 DEF Put
    <3>5. PutIn(art, art', a, art[a]) /\ PutIn(tmp, tmp', a, tmp[a]) /\ PutIn(asked, asked', a, 1)
      BY <3>1, <3>3 DEF PutIn
    <3> QED
      BY <3>2, <3>4, <3>5, AtOneTitle
  <2>6. ASSUME NEW a \in Title, T!Answer(p, a) PROVE ArtInv(p)'
    <3>1. PICK s \in {"ok", "missing", "error"} : T!Begin(p, a, [store |-> s, old |-> FALSE], TRUE)
      BY <2>6 DEF T!Answer
    <3> DEFINE e == [store |-> s, old |-> FALSE]
               u == [at |-> "open", entry |-> e, inode |-> "none", last |-> TRUE]
    <3>2. /\ known' = [known EXCEPT ![p][a] = e] /\ task' = [task EXCEPT ![p][a] = u]
          /\ task[p][a].at = "asking" /\ UNCHANGED <<art, tmp, asked>>
      BY <2>6, <3>1 DEF T!Answer, T!Begin
    <3>3. Sparing(e, u, art[a], tmp[a], asked[a])
      <4>1. Sparing(known[p][a], task[p][a], art[a], tmp[a], asked[a])
        BY DEF ArtInv
      <4>2. e \in T!Entry /\ ~e.old
        BY DEF T!Entry
      <4> HIDE DEF e
      <4> QED
        BY <3>2, <4>1, <4>2, SparingAnswer
    <3> HIDE DEF e, u
    <3>4. Put(known, known', p, a, e) /\ Put(task, task', p, a, u)
      BY <3>2 DEF Put
    <3>5. PutIn(art, art', a, art[a]) /\ PutIn(tmp, tmp', a, tmp[a]) /\ PutIn(asked, asked', a, asked[a])
      BY <3>2 DEF PutIn
    <3> QED
      BY <3>3, <3>4, <3>5, AtOneTitle
  <2>7. CASE T!Quit(p)
    <3>1. Shaped(p)' /\ \A a \in Title : known'[p][a] = NoFile /\ task'[p][a] = T!NoTask
      BY <2>7 DEF T!Quit, ArtInv, Shaped
    <3> QED
      BY <2>7, <3>1, SparingQuit DEF T!Quit, ArtInv
  <2>8. ASSUME NEW a \in Title, T!Wait(a) PROVE ArtInv(p)'
    <3> DEFINE due == art[a] \in T!Entry => art[a].store # "ok"
    <3>1. task[p][a] = T!NoTask /\ task' = task
      BY <2>8 DEF T!Wait
    <3>2. /\ known' = [q \in Program |-> [known[q] EXCEPT ![a] = Aged(known[q][a])]]
          /\ art' = [art EXCEPT ![a] = Aged(art[a])]
          /\ tmp' = [tmp EXCEPT ![a] = Aged(tmp[a])]
          /\ asked' = IF due THEN [asked EXCEPT ![a] = 0] ELSE asked
      BY <2>8 DEF T!Wait, ArtInv, Shaped, Aged
    <3> DEFINE n == IF due THEN 0 ELSE asked[a]
    <3>3. Sparing(known[p][a], T!NoTask, art[a], tmp[a], asked[a])
      BY <3>1 DEF ArtInv
    <3>4. Sparing(Aged(known[p][a]), T!NoTask, Aged(art[a]), Aged(tmp[a]), n)
      <4>1. n \in {0, 1} /\ (due => n = 0) /\ (n = 1 => asked[a] = 1)
        BY <3>3 DEF Sparing
      <4> HIDE DEF n
      <4> QED
        BY <3>3, <4>1, SparingWait
    <3>5. /\ known' = [known EXCEPT ![p][a] = Aged(known[p][a])]
          /\ asked' = [asked EXCEPT ![a] = n]
      BY <3>2 DEF ArtInv, Shaped
    <3> HIDE DEF n, due
    <3>6. Put(known, known', p, a, Aged(known[p][a])) /\ Put(task, task', p, a, T!NoTask)
      BY <3>1, <3>5 DEF Put
    <3>7. /\ PutIn(art, art', a, Aged(art[a])) /\ PutIn(tmp, tmp', a, Aged(tmp[a]))
          /\ PutIn(asked, asked', a, n)
      BY <3>2, <3>5 DEF PutIn
    <3> QED
      BY <3>4, <3>6, <3>7, AtOneTitle
  <2>9. CASE UNCHANGED T!vars
    BY <2>9 DEF T!vars, ArtInv, Shaped
  <2> QED
    BY <2>1, <2>2, <2>3, <2>4, <2>5, <2>6, <2>7, <2>8, <2>9 DEF T!Next
<1>3. ArtInv(p) => AsksSparingly
  BY DEF ArtInv, Sparing, AsksSparingly, T!AsksSparingly
<1> QED
  BY <1>1, <1>2, <1>3, PTL DEF T!Spec

-----------------------------------------------------------------------------
(* Commands: what is loaded, and what is to be written, names one identity. *)

\* One identity, to a server that has issued these devices to its accounts and has
\* let these accounts into rooms.
Valid(cfg, accounts, issues, let) ==
    /\ DOMAIN cfg = {"server", "account", "secret", "device", "room", "kind"}
    /\ cfg.device \in DOMAIN issues /\ issues[cfg.device] = cfg.account
    /\ cfg.account \in DOMAIN accounts /\ accounts[cfg.account] = cfg.server
    /\ cfg.secret \in {None, cfg.account}
    /\ cfg.room # None => <<cfg.room, cfg.account>> \in let

\* What a process has read or will write is one.
Knows(c, accounts, issues, let) ==
    /\ c.at = "load" => c.name # "register" /\ c.server \in Server \cup {NoServer}
    /\ c.at = "call" =>
          /\ c.then \in {"end", "join"}
          /\ c.name = "register" => c.server \in Server
          /\ c.name \in {"join", "leave"} => Valid(c.cfg, accounts, issues, let)
    /\ c.at \in {"truncate", "write"} =>
          /\ DOMAIN c = {"at", "next", "of", "then", "alone"}
          /\ c.then \in {"end", "join"}
          /\ Valid(c.next, accounts, issues, let)

\* What the servers know.
Records(accounts, issues, let) ==
    /\ accounts \in Seq(Server) /\ issues \in Seq(Nat)
    /\ \A pair \in let : pair = <<pair[1], pair[2]>> /\ pair[2] \in DOMAIN accounts

CommandsInv ==
    /\ Records(registry, issued, joined) /\ member \subseteq joined
    /\ config \in {None, Torn} \/ Valid(config, registry, issued, joined)
    /\ command = [p \in Process |-> command[p]]
    /\ \A p \in Process : Knows(command[p], registry, issued, joined)

\* Servers only add to what they know.
Grows(s, t) == \A i \in DOMAIN s : i \in DOMAIN t /\ t[i] = s[i]

LEMMA AppendGrows ==
  ASSUME NEW Elem, NEW s \in Seq(Elem), NEW e \in Elem
  PROVE  /\ Append(s, e) \in Seq(Elem) /\ Grows(s, Append(s, e))
         /\ Len(s) + 1 \in DOMAIN Append(s, e) /\ Append(s, e)[Len(s) + 1] = e
  BY DEF Grows

LEMMA ValidGrows ==
  ASSUME NEW accounts, NEW issues, NEW let, NEW cfg, Valid(cfg, accounts, issues, let),
         NEW accounts2, NEW issues2, NEW let2,
         Grows(accounts, accounts2), Grows(issues, issues2), let \subseteq let2
  PROVE  Valid(cfg, accounts2, issues2, let2)
  BY DEF Valid, Grows

LEMMA KnowsGrows ==
  ASSUME NEW accounts, NEW issues, NEW let, NEW c, Knows(c, accounts, issues, let),
         NEW accounts2, NEW issues2, NEW let2,
         Grows(accounts, accounts2), Grows(issues, issues2), let \subseteq let2
  PROVE  Knows(c, accounts2, issues2, let2)
  BY ValidGrows DEF Knows

LEMMA ToWriteKnows ==
  ASSUME NEW accounts, NEW issues, NEW let, NEW cfg, Valid(cfg, accounts, issues, let),
         NEW of, NEW then \in {"end", "join"}
  PROVE  Knows(A!ToWrite(cfg, of, then), accounts, issues, let)
<1> DEFINE c == A!ToWrite(cfg, of, then)
<1>1. /\ c.at = "truncate" /\ DOMAIN c = {"at", "next", "of", "then", "alone"}
      /\ c.then = then /\ c.next = cfg
  BY DEF A!ToWrite
<1> HIDE DEF c
<1>2. Knows(c, accounts, issues, let)
  BY <1>1 DEF Knows
<1> QED
  BY <1>2 DEF c

\* A step of one process that leaves the file alone.
LEMMA OneCommand ==
  ASSUME CommandsInv, NEW p \in Process, NEW c, A!Becomes(p, c), config' = config,
         Records(registry', issued', joined'), member' \subseteq joined',
         Grows(registry, registry'), Grows(issued, issued'), joined \subseteq joined',
         Knows(c, registry', issued', joined')
  PROVE  CommandsInv'
<1>1. command' = [q \in Process |-> command'[q]]
  BY DEF CommandsInv, A!Becomes
<1>2. ASSUME NEW q \in Process PROVE Knows(command'[q], registry', issued', joined')
  <2>1. CASE q = p
    BY <2>1 DEF CommandsInv, A!Becomes
  <2>2. CASE q # p
    <3>1. command'[q] = command[q] /\ Knows(command[q], registry, issued, joined)
      BY <2>2 DEF CommandsInv, A!Becomes
    <3> QED
      BY <3>1, KnowsGrows
  <2> QED
    BY <2>1, <2>2
<1>3. config' \in {None, Torn} \/ Valid(config', registry', issued', joined')
  BY ValidGrows DEF CommandsInv
<1> QED
  BY <1>1, <1>2, <1>3 DEF CommandsInv

\* A step of one process that asks no server and leaves the file alone.
LEMMA OneCommandAlone ==
  ASSUME CommandsInv, NEW p \in Process, NEW c, A!Becomes(p, c), config' = config,
         UNCHANGED <<registry, issued, joined, member>>,
         Knows(c, registry, issued, joined)
  PROVE  CommandsInv'
  BY OneCommand DEF CommandsInv, Grows

LEMMA CommandsInvInit == A!Init => CommandsInv
<1> SUFFICES ASSUME A!Init PROVE CommandsInv
  OBVIOUS
<1>1. registry \in [1 .. Cardinality(Server) -> Server] /\ Cardinality(Server) \in Nat
  <2>1. /\ Cardinality(Server) \in Nat
        /\ \E f \in [1 .. Cardinality(Server) -> Server] :
              \A i, j \in 1 .. Cardinality(Server) : f[i] = f[j] => i = j
    BY FS_CardinalityType, ServerAssumption
       DEF ExistsBijection, Bijection, Injection, IsInjective
  <2>2. A!Cardinality(Server) = Cardinality(Server)
    BY DEF A!Cardinality, Cardinality
  <2> QED
    BY <2>1, <2>2 DEF A!Init
<1>2. registry \in Seq(Server) /\ DOMAIN registry = 1 .. Len(registry) /\ Len(registry) \in Nat
  BY <1>1
<1>3. issued \in Seq(Nat)
  <2>1. issued = [i \in 1 .. Len(registry) |-> i]
    BY <1>2 DEF A!Init
  <2> QED
    BY <1>2, <2>1
<1>4. \A pair \in joined : pair = <<pair[1], pair[2]>> /\ pair[2] \in DOMAIN registry
  BY DEF A!Init, A!Account
<1>5. \A p \in Process : Knows(command[p], registry, issued, joined)
  BY DEF A!Init, A!Idle, Knows
<1> QED
  BY <1>2, <1>3, <1>4, <1>5 DEF CommandsInv, Records, A!Init

LEMMA CommandsInvStep == CommandsInv /\ [A!Next]_A!vars => CommandsInv'
<1> SUFFICES ASSUME CommandsInv, [A!Next]_A!vars PROVE CommandsInv'
  OBVIOUS
<1> USE DEF A!servers
<1>1. ASSUME NEW p \in Process, NEW name \in {"link", "recover", "leave", "kind", "join", "register"},
             NEW server, NEW of, A!Start(p, name, server, of),
             name = "register" => server \in Server,
             name = "join" => server \in Server \cup {NoServer},
             name \in {"leave", "kind"} => server = NoServer
      PROVE  CommandsInv'
  <2> DEFINE c == [at |-> IF name \in A!FileLess THEN "call" ELSE "load",
                   name |-> name, server |-> server, of |-> of, then |-> "end"]
  <2>1. Knows(c, registry, issued, joined)
    BY <1>1 DEF Knows, A!FileLess
  <2>2. A!Becomes(p, c) /\ config' = config /\ UNCHANGED <<registry, issued, joined, member>>
    BY <1>1 DEF A!Start
  <2> QED
    BY <2>1, <2>2, OneCommandAlone
<1>2. ASSUME NEW p \in Process, A!Becomes(p, A!Idle), UNCHANGED <<config, A!servers>>
      PROVE  CommandsInv'
  <2>1. Knows(A!Idle, registry, issued, joined)
    BY DEF Knows, A!Idle
  <2> QED
    BY <1>2, <2>1, OneCommandAlone
<1>3. ASSUME NEW p \in Process, A!Load(p) PROVE CommandsInv'
  <2> DEFINE c == command[p]
             whole == config \notin {None, Torn}
             anew == c.name = "join" /\ c.server # NoServer
                     /\ (~whole \/ config.server # c.server)
  <2>1. c.at = "load" /\ Knows(c, registry, issued, joined) /\ UNCHANGED <<config, A!servers>>
    BY <1>3 DEF A!Load, CommandsInv
  <2>2. CASE anew
    <3> DEFINE d == [at |-> "call", name |-> "register",
                     server |-> c.server, of |-> c.of, then |-> "join"]
    <3>1. A!Becomes(p, d)
      BY <1>3, <2>2 DEF A!Load
    <3>2. Knows(d, registry, issued, joined)
      BY <2>1, <2>2 DEF Knows
    <3> QED
      BY <2>1, <3>1, <3>2, OneCommandAlone
  <2>3. CASE ~anew /\ ~whole
    BY <1>2, <1>3, <2>1, <2>3 DEF A!Load
  <2>4. CASE ~anew /\ whole /\ c.name = "kind"
    <3> DEFINE cfg == [config EXCEPT !.kind = A!Kinds[c.of]]
    <3>1. A!Becomes(p, A!ToWrite(cfg, c.of, "end"))
      BY <1>3, <2>4 DEF A!Load
    <3>2. Valid(cfg, registry, issued, joined)
      BY <2>4 DEF CommandsInv, Valid
    <3> HIDE DEF cfg
    <3>3. Knows(A!ToWrite(cfg, c.of, "end"), registry, issued, joined)
      BY <3>2, ToWriteKnows
    <3> QED
      BY <2>1, <3>1, <3>3, OneCommandAlone
  <2>5. CASE ~anew /\ whole /\ c.name # "kind"
    <3> DEFINE d == [at |-> "call", name |-> c.name, of |-> c.of,
                     cfg |-> config, then |-> "end"]
    <3>1. A!Becomes(p, d)
      BY <1>3, <2>5 DEF A!Load
    <3>2. Knows(d, registry, issued, joined)
      BY <2>1, <2>5 DEF Knows, CommandsInv
    <3> QED
      BY <2>1, <3>1, <3>2, OneCommandAlone
  <2> QED
    BY <2>2, <2>3, <2>4, <2>5
<1>4. ASSUME NEW p \in Process, A!Stop(p) PROVE CommandsInv'
  BY <1>2, <1>4 DEF A!Stop
<1>5. ASSUME NEW p \in Process, NEW cfg, A!Save(p, cfg), command[p].at = "call",
             config' = config, Records(registry', issued', joined'), member' \subseteq joined',
             Grows(registry, registry'), Grows(issued, issued'), joined \subseteq joined',
             Valid(cfg, registry', issued', joined')
      PROVE  CommandsInv'
  <2>1. command[p].then \in {"end", "join"}
    BY <1>5 DEF CommandsInv, Knows
  <2>2. Knows(A!ToWrite(cfg, command[p].of, command[p].then), registry', issued', joined')
    BY <1>5, <2>1, ToWriteKnows
  <2> QED
    BY <1>5, <2>2, OneCommand DEF A!Save
<1>6. ASSUME NEW p \in Process, A!Register(p) PROVE CommandsInv'
  <2> DEFINE account == Len(registry) + 1
             server == command[p].server
             cfg == A!Identity(server, account, account, account)
  <2>1. /\ command[p].at = "call" /\ server \in Server
        /\ registry' = Append(registry, server) /\ issued' = Append(issued, account)
        /\ member' = member \cup {<<account, account>>}
        /\ joined' = joined \cup {<<account, account>>}
        /\ A!Save(p, cfg) /\ config' = config
    BY <1>6 DEF A!Register, A!Asks, CommandsInv, Knows
  <2>2. registry \in Seq(Server) /\ issued \in Seq(Nat) /\ account \in Nat
    BY DEF CommandsInv, Records
  <2>3. /\ registry' \in Seq(Server) /\ Grows(registry, registry')
        /\ account \in DOMAIN registry' /\ registry'[account] = server
    BY <2>1, <2>2, AppendGrows
  <2>4. /\ issued' \in Seq(Nat) /\ Grows(issued, issued')
        /\ Len(issued) + 1 \in DOMAIN issued' /\ issued'[Len(issued) + 1] = account
    BY <2>1, <2>2, AppendGrows
  <2> HIDE DEF account, server
  <2>5. Records(registry', issued', joined')
    BY <2>1, <2>3, <2>4 DEF CommandsInv, Records, Grows
  <2>6. Valid(cfg, registry', issued', joined')
    BY <2>1, <2>3, <2>4 DEF Valid, A!Identity
  <2>7. member' \subseteq joined'
    BY <2>1 DEF CommandsInv
  <2> HIDE DEF cfg
  <2> QED
    BY <1>5, <2>1, <2>3, <2>4, <2>5, <2>6, <2>7
<1>7. ASSUME NEW p \in Process, NEW pair \in member, pair[2] = command[p].of,
             NEW secret \in {None, pair[2]},
             A!Save(p, A!Identity(registry[pair[2]], pair[2], secret, pair[1])),
             command[p].at = "call", issued' = Append(issued, command[p].of),
             UNCHANGED <<config, registry, member, joined>>
      PROVE  CommandsInv'
  <2> DEFINE account == pair[2]
             cfg == A!Identity(registry[account], account, secret, pair[1])
  <2>1. /\ pair \in joined /\ account \in DOMAIN registry /\ pair = <<pair[1], account>>
        /\ issued \in Seq(Nat) /\ registry \in Seq(Server)
    BY DEF CommandsInv, Records
  <2>2. account \in Nat
    BY <2>1
  <2>3. /\ issued' \in Seq(Nat) /\ Grows(issued, issued')
        /\ Len(issued) + 1 \in DOMAIN issued' /\ issued'[Len(issued) + 1] = account
    BY <1>7, <2>1, <2>2, AppendGrows
  <2>4. Records(registry', issued', joined') /\ Grows(registry, registry')
        /\ member' \subseteq joined' /\ joined \subseteq joined'
    BY <1>7, <2>3 DEF CommandsInv, Records, Grows
  <2>5. Valid(cfg, registry', issued', joined')
    BY <1>7, <2>1, <2>3 DEF Valid, A!Identity
  <2> HIDE DEF cfg
  <2> QED
    BY <1>5, <1>7, <2>3, <2>4, <2>5 DEF cfg
<1>8. ASSUME NEW p \in Process, A!LinkDevice(p) \/ A!Recover(p) PROVE CommandsInv'
  BY <1>7, <1>8 DEF A!LinkDevice, A!Recover, A!Asks
<1>9. ASSUME NEW p \in Process, A!Join(p) PROVE CommandsInv'
  <2> DEFINE cfg == command[p].cfg
             room == command[p].of
             next == [cfg EXCEPT !.room = room]
  <2>1. /\ command[p].at = "call" /\ Valid(cfg, registry, issued, joined)
        /\ member' = member \cup {<<room, cfg.account>>}
        /\ joined' = joined \cup {<<room, cfg.account>>}
        /\ A!Save(p, next) /\ UNCHANGED <<config, registry, issued>>
    BY <1>9 DEF A!Join, A!Asks, CommandsInv, Knows
  <2>2. Valid(next, registry', issued', joined')
    BY <2>1 DEF Valid
  <2>3. Records(registry', issued', joined') /\ Grows(registry, registry')
        /\ Grows(issued, issued') /\ member' \subseteq joined' /\ joined \subseteq joined'
    BY <2>1 DEF CommandsInv, Records, Grows, Valid
  <2> HIDE DEF next
  <2> QED
    BY <1>5, <2>1, <2>2, <2>3
<1>10. ASSUME NEW p \in Process, A!Leave(p) PROVE CommandsInv'
  <2> DEFINE cfg == command[p].cfg
             next == [cfg EXCEPT !.room = None]
  <2>1. /\ command[p].at = "call" /\ Valid(cfg, registry, issued, joined)
        /\ member' \subseteq member
        /\ A!Save(p, next) /\ UNCHANGED <<config, registry, issued, joined>>
    BY <1>10 DEF A!Leave, A!Asks, CommandsInv, Knows
  <2>2. Valid(next, registry', issued', joined')
    BY <2>1 DEF Valid
  <2>3. Records(registry', issued', joined') /\ Grows(registry, registry')
        /\ Grows(issued, issued') /\ member' \subseteq joined' /\ joined \subseteq joined'
    BY <2>1 DEF CommandsInv, Records, Grows
  <2> HIDE DEF next
  <2> QED
    BY <1>5, <2>1, <2>2, <2>3
<1>11. ASSUME NEW c, Knows(c, registry, issued, joined), c.at = "write"
       PROVE  Knows([c EXCEPT !.alone = FALSE], registry, issued, joined)
  BY <1>11 DEF Knows
<1>12. ASSUME NEW p \in Process, NEW c, Knows(c, registry, issued, joined),
              command' = [q \in Process |->
                 IF q = p THEN c
                 ELSE IF command[q].at = "write" THEN [command[q] EXCEPT !.alone = FALSE]
                 ELSE command[q]],
              UNCHANGED A!servers,
              config' \in {None, Torn} \/ Valid(config', registry, issued, joined)
       PROVE  CommandsInv'
  <2>1. \A q \in Process : Knows(command'[q], registry, issued, joined)
    BY <1>11, <1>12 DEF CommandsInv
  <2> QED
    BY <1>12, <2>1 DEF CommandsInv
<1>13. ASSUME NEW p \in Process, A!Truncate(p) PROVE CommandsInv'
  <2> DEFINE c == [command[p] EXCEPT !.at = "write"]
  <2>1. Knows(c, registry, issued, joined)
    BY <1>13 DEF A!Truncate, CommandsInv, Knows
  <2> HIDE DEF c
  <2> QED
    BY <1>12, <1>13, <2>1 DEF A!Truncate, c
<1>14. ASSUME NEW p \in Process, A!Write(p) PROVE CommandsInv'
  <2> DEFINE c == command[p]
             done == IF c.then = "end" THEN A!Idle
                     ELSE [at |-> "call", name |-> c.then, of |-> c.of, cfg |-> c.next,
                           then |-> "end"]
  <2>1. /\ c.at = "write" /\ c.then \in {"end", "join"}
        /\ Valid(c.next, registry, issued, joined)
    BY <1>14 DEF A!Write, CommandsInv, Knows
  <2>2. Knows(done, registry, issued, joined)
    BY <2>1 DEF Knows, A!Idle
  <2>3. config' \in {None, Torn} \/ Valid(config', registry, issued, joined)
    BY <1>14, <2>1 DEF A!Write
  <2>4. command' = [q \in Process |->
           IF q = p THEN done
           ELSE IF command[q].at = "write" THEN [command[q] EXCEPT !.alone = FALSE]
           ELSE command[q]]
    BY <1>14 DEF A!Write
  <2> HIDE DEF done
  <2> QED
    BY <1>12, <1>14, <2>2, <2>3, <2>4 DEF A!Write
<1>15. CASE UNCHANGED A!vars
  BY <1>15 DEF A!vars, CommandsInv
<1>16. ASSUME NEW room \in A!Account PROVE registry[room] \in Server
  BY DEF A!Account, CommandsInv, Records
<1>17. ASSUME NEW p \in Process, NEW s \in Server, A!Start(p, "register", s, None)
       PROVE  CommandsInv'
  BY <1>1, <1>17
<1>18. ASSUME NEW p \in Process, NEW a \in A!Account,
              A!Start(p, "link", NoServer, a) \/ A!Start(p, "recover", NoServer, a)
       PROVE  CommandsInv'
  BY <1>1, <1>18
<1>19. ASSUME NEW p \in Process, NEW room \in A!Account,
              A!Start(p, "join", NoServer, room) \/ A!Start(p, "join", registry[room], room)
       PROVE  CommandsInv'
  BY <1>1, <1>16, <1>19
<1>20. ASSUME NEW p \in Process, A!Start(p, "leave", NoServer, None) PROVE CommandsInv'
  BY <1>1, <1>20
<1>21. ASSUME NEW p \in Process, NEW kind, A!Start(p, "kind", NoServer, kind) PROVE CommandsInv'
  BY <1>1, <1>21
<1> QED
  BY <1>3, <1>4, <1>6, <1>8, <1>9, <1>10, <1>13, <1>14, <1>15, <1>17, <1>18, <1>19, <1>20, <1>21
     DEF A!Next

\* Whatever commands load, wait for a server and write beside each other, an account
\* file that is whole names one identity: the device is that account's, at that
\* account's server, the secret opens that account, and the room is one it was let
\* into (auth.Register, LinkDevice, Recover; Config.Join, Leave, Save).
THEOREM CommandsNoBlend == A!Spec => []NoBlend
<1>1. CommandsInv => NoBlend
  BY DEF CommandsInv, Valid, NoBlend, A!NoBlend
<1> QED
  BY <1>1, CommandsInvInit, CommandsInvStep, PTL DEF A!Spec

-----------------------------------------------------------------------------
(* Desk: for any accounts and roles. *)

\* The prompt stands where the next key answers it, keys go to the chat where it is
\* drawn, and what a line of direct messages holds was typed for the one in the title.
DeskInv ==
    /\ index \in Nat
    /\ confirm # NoOne => /\ mode = "none" /\ focus = "cards"
                          /\ confirm # Self /\ RoleOf[confirm] # "owner"
    /\ focus = "chat" => mode = "none" /\ panel = "chat"
    /\ outbox.to = outbox.meant /\ outbox.to # Self
    /\ outbox.what = "remove" => RoleOf[outbox.to] # "owner"
    /\ mode = "dm" => /\ dm.peer = dm.title /\ dm.peer \notin {NoOne, Self}
                      /\ draft \in {NoOne, dm.peer}

\* An element of S any number of times, once or not at all is a sequence over S.
LEMMA RepeatedSeq ==
  ASSUME NEW Elem, NEW e \in Elem, NEW n \in Nat
  PROVE  [i \in 1 .. n |-> e] \in Seq(Elem) /\ <<e>> \in Seq(Elem) /\ <<>> \in Seq(Elem)
  OBVIOUS

\* A menu offers a message only to somebody else.
LEMMA MessageRow ==
  ASSUME index \in Nat, D!Row = "message"
  PROVE  D!Focused \notin {NoOne, Self}
<1> DEFINE n == IF section THEN Pieces ELSE 0
           pieces == [i \in 1 .. n |-> "piece"]
           sync == IF D!Focused \in screen.playing THEN <<"sync">> ELSE <<>>
           message == IF D!Focused \in {NoOne, Self} THEN <<>> ELSE <<"message">>
<1> SUFFICES ASSUME D!Focused \in {NoOne, Self} PROVE FALSE
  OBVIOUS
<1>1. index < Len(D!Rows) /\ D!Rows[index + 1] = "message"
  BY DEF D!Row
<1>2. CASE mode = "settings"
  <2>1. D!Rows = <<"update", "incognito", "rename", "quit">>
    BY <1>2 DEF D!Rows
  <2> QED
    BY <1>1, <2>1
<1>3. CASE mode = "view"
  <2>1. D!Rows = <<"chat", "board">>
    BY <1>3 DEF D!Rows
  <2> QED
    BY <1>1, <2>1
<1>4. CASE mode \notin {"settings", "view"}
  <2>1. D!Rows = <<"music">> \o pieces \o <<"screen">> \o sync \o <<>>
    BY <1>4 DEF D!Rows
  <2>2. pieces \in Seq({"piece"}) /\ sync \in Seq({"sync"})
    <3>1. n \in Nat
      BY ScreenAssumption DEF D!DeskAssumption
    <3>2. <<"sync">> \in Seq({"sync"}) /\ <<>> \in Seq({"sync"})
      BY <3>1, RepeatedSeq
    <3>3. sync = <<"sync">> \/ sync = <<>>
      OBVIOUS
    <3> HIDE DEF n, sync
    <3> QED
      BY <3>1, <3>2, <3>3, RepeatedSeq
  <2>3. /\ \A i \in 1 .. Len(pieces) : pieces[i] # "message"
        /\ \A i \in 1 .. Len(sync) : sync[i] # "message"
    BY ScreenAssumption DEF D!DeskAssumption
  <2> HIDE DEF pieces, sync
  <2> QED
    BY <1>1, <2>1, <2>2, <2>3
<1> QED
  BY <1>2, <1>3, <1>4

\* Whatever lists arrive in between, a key does what the screen says it does: a prompt
\* stands as long as the next key answers it, a removal takes the one in the prompt,
\* who is neither this account nor the owner, and a message goes to the one in the
\* title and was typed for them (model.Update, runMenu, updateInput).
THEOREM DeskKeysActAsShown == D!Spec => []KeysActAsShown
<1>1. D!Init => DeskInv
  BY ScreenAssumption DEF D!DeskAssumption, D!Init, DeskInv
<1>2. DeskInv /\ [D!Next]_D!vars => DeskInv'
  <2> SUFFICES ASSUME DeskInv, [D!Next]_D!vars PROVE DeskInv'
    OBVIOUS
  <2>1. CASE D!LeaveChat
    BY <2>1 DEF D!LeaveChat, DeskInv
  <2>2. CASE D!Tab
    BY <2>2 DEF D!Tab, D!AtCards, DeskInv
  <2>3. CASE D!AskToRemove
    BY <2>3 DEF D!AskToRemove, D!AtCards, D!CanRemove, DeskInv
  <2>4. ASSUME NEW yes \in BOOLEAN, D!AnswerPrompt(yes) PROVE DeskInv'
    <3>1. confirm # Self /\ RoleOf[confirm] # "owner"
      BY <2>4 DEF D!AnswerPrompt, DeskInv
    <3> QED
      BY <2>4, <3>1 DEF D!AnswerPrompt, DeskInv
  <2>5. ASSUME NEW i, D!Move(i) PROVE DeskInv'
    BY <2>5 DEF D!Move, DeskInv
  <2>6. ASSUME NEW to \in D!Modes, NEW row \in 0 .. Pieces + 4, NEW music \in BOOLEAN,
               D!Open(to, row, music)
        PROVE  DeskInv'
    <3>1. to \in {"menu", "screen", "settings", "view"}
      BY <2>6 DEF D!Open
    <3>2. row \in Nat
      BY ScreenAssumption DEF D!DeskAssumption
    <3> QED
      BY <2>6, <3>1, <3>2 DEF D!Open, D!AtCards, DeskInv
  <2>7. CASE D!CloseMenu
    BY <2>7 DEF D!CloseMenu, D!InMenu, DeskInv
  <2>8. CASE D!EnterMessage
    BY <2>8, MessageRow DEF D!EnterMessage, D!InMenu, DeskInv
  <2>9. CASE D!EnterPanel
    BY <2>9 DEF D!EnterPanel, DeskInv
  <2>10. ASSUME NEW i \in 0 .. Pieces + 4, D!MoveRow(i) PROVE DeskInv'
    BY <2>10 DEF D!MoveRow, DeskInv
  <2>11. ASSUME NEW open, NEW row \in 0 .. Pieces + 4, D!Fold(open, row) PROVE DeskInv'
    BY <2>11 DEF D!Fold, DeskInv
  <2>12. ASSUME NEW to, D!Enter(to) PROVE DeskInv'
    BY <2>12 DEF D!Enter, D!InMenu, DeskInv
  <2>13. CASE D!Escape
    BY <2>13 DEF D!Escape, D!Full, DeskInv
  <2>14. CASE D!Back
    BY <2>14 DEF D!Back, D!Full, DeskInv
  <2>15. CASE D!Submit
    BY <2>15 DEF D!Submit, DeskInv
  <2>16. ASSUME NEW text, D!Type(text) PROVE DeskInv'
    BY <2>16 DEF D!Type, DeskInv
  <2>17. ASSUME NEW list, D!FeedMsg(list) PROVE DeskInv'
    BY <2>17 DEF D!FeedMsg, DeskInv
  <2>18. ASSUME NEW thread, D!Ingest(thread) PROVE DeskInv'
    BY <2>18 DEF D!Ingest, DeskInv
  <2>19. CASE UNCHANGED D!vars
    BY <2>19 DEF D!vars, DeskInv
  <2> QED
    BY <2>1, <2>2, <2>3, <2>4, <2>5, <2>6, <2>7, <2>8, <2>9, <2>10, <2>11, <2>12, <2>13,
       <2>14, <2>15, <2>16, <2>17, <2>18, <2>19 DEF D!Next, D!Keys
<1>3. DeskInv => KeysActAsShown
  BY DEF DeskInv, KeysActAsShown, D!KeysActAsShown, D!Footer, D!Full
<1> QED
  BY <1>1, <1>2, <1>3, PTL DEF D!Spec

\* Of some numbers one is the first.
LEMMA FirstOf ==
  ASSUME NEW some, some \subseteq Nat, some # {}
  PROVE  \E x \in some : \A y \in some : x <= y
<1>1. PICK least \in some : \A y \in some : ~ (<<y, least>> \in OpToRel(<, Nat))
  BY NatLessThanWellFounded, WFMin
<1>2. \A y \in Nat, z \in Nat : y < z => <<y, z>> \in OpToRel(<, Nat)
  BY DEF OpToRel
<1>3. least \in Nat /\ \A y \in some : y \in Nat /\ ~ (y < least)
  BY <1>1, <1>2
<1> QED
  BY <1>3

\* Counting reaches every number.
LEMMA Counting ==
  ASSUME NEW reached, 0 \in reached, \A n \in Nat : n \in reached => n + 1 \in reached
  PROVE  Nat \subseteq reached
<1> SUFFICES ASSUME Nat \ reached # {} PROVE FALSE
  OBVIOUS
<1>1. PICK x \in Nat \ reached : \A y \in Nat \ reached : x <= y
  <2>1. Nat \ reached \subseteq Nat
    OBVIOUS
  <2> QED
    BY <2>1, FirstOf
<1>2. x \in Nat /\ x # 0 /\ x \notin reached
  BY <1>1
<1>3. x - 1 \in Nat /\ ~ (x <= x - 1) /\ (x - 1) + 1 = x
  BY <1>2
<1>4. x - 1 \in reached
  BY <1>1, <1>3
<1> QED
  BY <1>2, <1>3, <1>4

-----------------------------------------------------------------------------
(* Cards: the devices of an account can be put in one order only.            *)

\* The instance counts as the standard module does.
LEMMA CardsCardinality ==
  \A set : K!Cardinality(set) = Cardinality(set) /\ K!IsFiniteSet(set) = IsFiniteSet(set)
BY DEF K!Cardinality, Cardinality, K!IsFiniteSet, IsFiniteSet

\* The devices of an account: there are so many, and an id is that of one.
Told(group) ==
    /\ IsFiniteSet(group)
    /\ \A d \in group : d.rank \in Nat /\ d.id \in Nat
    /\ \A d, e \in group : d.id = e.id => d = e

\* A device is behind the newest or it is not.
LEMMA BehindOrNot == \A d, group : K!Behind(d, group) \in {0, 1}
  BY DEF K!Behind

\* Of two devices one comes before the other.
LEMMA BeforeOrders ==
  ASSUME NEW group, Told(group), NEW a \in group, NEW b \in group
  PROVE  /\ a # b => K!Before(a, b, group) \/ K!Before(b, a, group)
         /\ ~ (K!Before(a, b, group) /\ K!Before(b, a, group))
<1>1. /\ a.rank \in Nat /\ b.rank \in Nat /\ a.id \in Nat /\ b.id \in Nat
      /\ (a.id = b.id => a = b)
  BY DEF Told
<1>2. K!Behind(a, group) \in Int /\ K!Behind(b, group) \in Int
  BY BehindOrNot
<1> QED
  BY <1>1, <1>2 DEF K!Before

\* Of some devices one comes before the others.
LEMMA ComesFirst ==
  ASSUME NEW group, Told(group), NEW some \in SUBSET group, some # {}
  PROVE  \E a \in some : \A b \in some : a # b => K!Before(a, b, group)
<1>1. PICK r \in {d.rank : d \in some} : \A y \in {d.rank : d \in some} : r <= y
  <2>1. {d.rank : d \in some} \subseteq Nat /\ {d.rank : d \in some} # {}
    BY DEF Told
  <2> QED
    BY <2>1, FirstOf
<1> DEFINE best == {d \in some : d.rank = r}
<1>2. PICK h \in {K!Behind(d, group) : d \in best} : \A y \in {K!Behind(d, group) : d \in best} : h <= y
  <2>1. {K!Behind(d, group) : d \in best} \subseteq Nat /\ {K!Behind(d, group) : d \in best} # {}
    BY <1>1, BehindOrNot
  <2> QED
    BY <2>1, FirstOf
<1> DEFINE front == {d \in best : K!Behind(d, group) = h}
<1>3. PICK k \in {d.id : d \in front} : \A y \in {d.id : d \in front} : k <= y
  <2>1. {d.id : d \in front} \subseteq Nat /\ {d.id : d \in front} # {}
    BY <1>2 DEF Told
  <2> HIDE DEF front
  <2> QED
    BY <2>1, FirstOf
<1>4. PICK a \in front : a.id = k
  BY <1>3
<1>5. a \in some /\ a.rank = r /\ K!Behind(a, group) = h
  OBVIOUS
<1>6. ASSUME NEW b \in some, a # b PROVE K!Before(a, b, group)
  <2>1. a.rank \in Nat /\ b.rank \in Nat /\ a.id \in Nat /\ b.id \in Nat /\ a.id # b.id
    BY <1>5, <1>6 DEF Told
  <2>2. K!Behind(a, group) \in Int /\ K!Behind(b, group) \in Int
    BY BehindOrNot
  <2>3. a.rank <= b.rank
    BY <1>1, <1>5
  <2>4. b.rank = r => h <= K!Behind(b, group)
    BY <1>2
  <2>5. b.rank = r /\ K!Behind(b, group) = h => k <= b.id
    BY <1>3
  <2> QED
    BY <1>4, <1>5, <2>1, <2>2, <2>3, <2>4, <2>5 DEF K!Before
<1> QED
  BY <1>5, <1>6

\* s lists some devices of a group in their order.
Lined(group, some, n, s) ==
    /\ s \in [1 .. n -> some]
    /\ \A d \in some : \E i \in 1 .. n : s[i] = d
    /\ \A i, j \in 1 .. n : i < j => K!Before(s[i], s[j], group)

\* They can be listed: the one that comes first, and then the rest.
LEMMA SomeLine ==
  ASSUME NEW group, Told(group)
  PROVE  \E s : Lined(group, group, Cardinality(group), s)
<1> DEFINE Reached == {n \in Nat : \A some \in SUBSET group :
                          Cardinality(some) = n => \E s : Lined(group, some, n, s)}
<1>1. \A some \in SUBSET group : IsFiniteSet(some) /\ Cardinality(some) \in Nat
  BY FS_Subset, FS_CardinalityType DEF Told
<1>2. 0 \in Reached
  <2> SUFFICES ASSUME NEW some \in SUBSET group, Cardinality(some) = 0
               PROVE  \E s : Lined(group, some, 0, s)
    OBVIOUS
  <2>1. some = {}
    BY <1>1, FS_EmptySet
  <2>2. Lined(group, some, 0, [i \in 1 .. 0 |-> i])
    BY <2>1 DEF Lined
  <2> QED
    BY <2>2
<1>3. ASSUME NEW n \in Nat, n \in Reached PROVE n + 1 \in Reached
  <2> SUFFICES ASSUME NEW some \in SUBSET group, Cardinality(some) = n + 1
               PROVE  \E s : Lined(group, some, n + 1, s)
    OBVIOUS
  <2>1. some # {}
    BY FS_EmptySet
  <2>2. PICK a \in some : \A b \in some : a # b => K!Before(a, b, group)
    BY <2>1, ComesFirst
  <2> DEFINE rest == some \ {a}
  <2>3. Cardinality(rest) = n
    BY <1>1, FS_RemoveElement
  <2>4. PICK p : Lined(group, rest, n, p)
    <3>1. rest \in SUBSET group
      OBVIOUS
    <3> QED
      BY <1>3, <2>3, <3>1
  <2> DEFINE s == [i \in 1 .. n + 1 |-> IF i = 1 THEN a ELSE p[i - 1]]
  <2>5. \A i \in 1 .. n : p[i] \in rest /\ i + 1 \in 1 .. n + 1 /\ i + 1 # 1 /\ (i + 1) - 1 = i
    BY <2>4 DEF Lined
  <2>6. \A i \in 1 .. n + 1 : i # 1 => i - 1 \in 1 .. n
    OBVIOUS
  <2>7. s \in [1 .. n + 1 -> some]
    BY <2>5, <2>6
  <2>8. ASSUME NEW d \in some PROVE \E i \in 1 .. n + 1 : s[i] = d
    <3>1. CASE d = a
      <4>1. 1 \in 1 .. n + 1
        OBVIOUS
      <4> QED
        BY <3>1, <4>1
    <3>2. CASE d # a
      <4>1. PICK i \in 1 .. n : p[i] = d
        BY <2>4, <3>2 DEF Lined
      <4>2. i + 1 \in 1 .. n + 1 /\ s[i + 1] = d
        BY <2>5, <4>1
      <4> QED
        BY <4>2
    <3> QED
      BY <3>1, <3>2
  <2>9. ASSUME NEW i \in 1 .. n + 1, NEW j \in 1 .. n + 1, i < j
        PROVE  K!Before(s[i], s[j], group)
    <3>1. j # 1 /\ j - 1 \in 1 .. n /\ s[j] = p[j - 1] /\ s[j] \in rest
      BY <2>5, <2>6, <2>9
    <3>2. CASE i = 1
      <4>1. s[i] = a /\ s[j] \in some /\ a # s[j]
        BY <3>1, <3>2
      <4> QED
        BY <2>2, <4>1
    <3>3. CASE i # 1
      <4>1. i - 1 \in 1 .. n /\ s[i] = p[i - 1] /\ i - 1 < j - 1
        BY <2>6, <2>9, <3>1, <3>3
      <4> QED
        BY <2>4, <3>1, <4>1 DEF Lined
    <3> QED
      BY <3>2, <3>3
  <2> HIDE DEF s
  <2>10. Lined(group, some, n + 1, s)
    BY <2>7, <2>8, <2>9 DEF Lined
  <2> QED
    BY <2>10
<1>4. Cardinality(group) \in Reached
  <2> HIDE DEF Reached
  <2> QED
    BY <1>1, <1>2, <1>3, Counting
<1> QED
  BY <1>4

\* And in one order only: at the first place where two lists differ, each has what
\* the other has later.
LEMMA OneLine ==
  ASSUME NEW group, Told(group), NEW n \in Nat, NEW s, NEW t,
         Lined(group, group, n, s), Lined(group, group, n, t)
  PROVE  s = t
<1> SUFFICES ASSUME s # t PROVE FALSE
  OBVIOUS
<1> DEFINE differ == {i \in 1 .. n : s[i] # t[i]}
<1>1. differ # {} /\ differ \subseteq Nat
  <2>1. s \in [1 .. n -> group] /\ t \in [1 .. n -> group]
    BY DEF Lined
  <2>2. (\A i \in 1 .. n : s[i] = t[i]) => s = t
    BY <2>1
  <2> QED
    BY <2>2
<1>2. PICK k \in differ : \A i \in differ : k <= i
  <2> HIDE DEF differ
  <2> QED
    BY <1>1, FirstOf
<1>3. k \in 1 .. n /\ s[k] # t[k] /\ \A i \in 1 .. n : i < k => s[i] = t[i]
  BY <1>2
<1>4. ASSUME NEW p, NEW q, Lined(group, group, n, p), Lined(group, group, n, q),
             p[k] # q[k], \A i \in 1 .. n : i < k => p[i] = q[i]
      PROVE  K!Before(q[k], p[k], group)
  <2>1. p[k] \in group
    BY <1>3, <1>4 DEF Lined
  <2>2. PICK j \in 1 .. n : q[j] = p[k]
    BY <1>4, <2>1 DEF Lined
  <2>3. j # k
    BY <1>4, <2>2
  <2>4. ASSUME j < k PROVE FALSE
    <3>1. p[j] = p[k] /\ K!Before(p[j], p[k], group)
      BY <1>3, <1>4, <2>2, <2>4 DEF Lined
    <3> QED
      BY <2>1, <3>1, BeforeOrders
  <2>5. k < j
    BY <1>3, <2>3, <2>4
  <2> QED
    BY <1>3, <1>4, <2>2, <2>5 DEF Lined
<1>5. K!Before(t[k], s[k], group)
  BY <1>3, <1>4
<1>6. K!Before(s[k], t[k], group)
  BY <1>3, <1>4
<1>7. s[k] \in group /\ t[k] \in group
  BY <1>3 DEF Lined
<1> QED
  BY <1>5, <1>6, <1>7, BeforeOrders
\* The devices of an account that the feed does not hold offline.
Live(all) == {d \in all : ~ d.offline}

\* Leaving out the offline devices leaves what a feed can hold.
LEMMA LiveTold == \A all \in Accounts : Told(all) /\ Told(Live(all))
<1> SUFFICES ASSUME NEW all \in Accounts PROVE Told(all) /\ Told(Live(all))
  OBVIOUS
<1>1. Told(all)
  BY DevicesAssumption, CardsCardinality DEF K!AccountsAssumption, Told
<1>2. IsFiniteSet(Live(all))
  <2>1. Live(all) \in SUBSET all
    BY DEF Live
  <2> QED
    BY <1>1, <2>1, FS_Subset DEF Told
<1> QED
  BY <1>1, <1>2 DEF Told, Live

\* Whatever order the devices come in, sortDevices lists the live ones in theirs.
LEMMA SortsLive ==
  ASSUME NEW all \in Accounts, NEW devs \in K!Orders(all)
  PROVE  Lined(Live(all), Live(all), Cardinality(Live(all)), K!SortDevices(devs))
<1> DEFINE top == Cardinality(all)
           there == {i \in DOMAIN devs : ~ devs[i].offline}
           group == {devs[i] : i \in there}
           n == Cardinality(there)
           ahead(i, j) == \/ K!Before(devs[i], devs[j], group)
                          \/ ~ K!Before(devs[j], devs[i], group) /\ i < j
           fits(o) == \A i, j \in DOMAIN o : i < j => ahead(o[i], o[j])
           order == CHOOSE o \in K!Bijection(1 .. K!Cardinality(there), there) : fits(o)
<1>1. Told(all) /\ Told(Live(all))
  BY LiveTold
<1>2. top \in Nat
  BY <1>1, FS_CardinalityType DEF Told
<1>3. /\ devs \in [1 .. top -> all]
      /\ \A i, j \in 1 .. top : devs[i] = devs[j] => i = j
      /\ \A d \in all : \E i \in 1 .. top : devs[i] = d
  BY CardsCardinality DEF K!Orders, K!Bijection, K!Injection, K!Surjection, K!IsInjective
<1>4. there \subseteq 1 .. top /\ group = Live(all)
  BY <1>3 DEF Live
<1>5. IsFiniteSet(there) /\ n \in Nat
  <2>1. IsFiniteSet(1 .. top)
    BY <1>2, FS_Interval
  <2>2. there \in SUBSET (1 .. top)
    BY <1>4
  <2> HIDE DEF there
  <2>3. IsFiniteSet(there)
    BY <2>1, <2>2, FS_Subset
  <2> QED
    BY <2>3, FS_CardinalityType
<1>6. Cardinality(Live(all)) = n
  <2> DEFINE f == [i \in there |-> devs[i]]
  <2>1. f \in Bijection(there, Live(all))
    <3>1. f \in [there -> Live(all)]
      BY <1>4
    <3>2. \A i, j \in there : f[i] = f[j] => i = j
      BY <1>3, <1>4
    <3>3. \A d \in Live(all) : \E i \in there : f[i] = d
      BY <1>4
    <3> HIDE DEF f, there
    <3> QED
      BY <3>1, <3>2, <3>3 DEF Bijection, Injection, Surjection, IsInjective
  <2>2. ExistsBijection(there, Live(all))
    BY <2>1, Zenon DEF ExistsBijection
  <2> QED
    BY <1>5, <2>2, FS_Bijection
<1>7. PICK s : Lined(Live(all), Live(all), n, s)
  BY <1>1, <1>6, SomeLine
<1> DEFINE o == [k \in 1 .. n |-> CHOOSE i \in there : devs[i] = s[k]]
<1>8. \A k \in 1 .. n : o[k] \in there /\ devs[o[k]] = s[k]
  <2> SUFFICES ASSUME NEW k \in 1 .. n PROVE \E i \in there : devs[i] = s[k]
    OBVIOUS
  <2>1. s[k] \in group
    BY <1>4, <1>7 DEF Lined
  <2> QED
    BY <2>1
<1>9. o \in K!Bijection(1 .. n, there)
  <2>1. o \in [1 .. n -> there]
    BY <1>8
  <2> HIDE DEF o
  <2>2. ASSUME NEW i \in 1 .. n, NEW j \in 1 .. n, o[i] = o[j] PROVE i = j
    <3>1. s[i] = s[j] /\ s[i] \in Live(all)
      BY <1>7, <1>8, <2>2 DEF Lined
    <3>2. ~ (i < j) /\ ~ (j < i)
      BY <1>1, <1>7, <3>1, BeforeOrders DEF Lined
    <3> QED
      BY <3>2
  <2>3. ASSUME NEW i \in there PROVE \E k \in 1 .. n : o[k] = i
    <3>1. devs[i] \in Live(all)
      BY <1>4
    <3>2. PICK k \in 1 .. n : s[k] = devs[i]
      BY <1>7, <3>1 DEF Lined
    <3>3. devs[o[k]] = devs[i] /\ o[k] \in 1 .. top /\ i \in 1 .. top
      BY <1>4, <1>8, <3>2
    <3> QED
      BY <1>3, <3>3
  <2> HIDE DEF there
  <2> QED
    BY <2>1, <2>2, <2>3 DEF K!Bijection, K!Injection, K!Surjection, K!IsInjective
<1>10. fits(o)
  <2> SUFFICES ASSUME NEW i \in 1 .. n, NEW j \in 1 .. n, i < j
               PROVE  K!Before(devs[o[i]], devs[o[j]], group)
    OBVIOUS
  <2>1. K!Before(s[i], s[j], Live(all))
    BY <1>7 DEF Lined
  <2> QED
    BY <1>4, <1>8, <2>1
<1>11. order \in K!Bijection(1 .. n, there) /\ fits(order)
  <2>1. K!Cardinality(there) = n
    BY CardsCardinality
  <2> HIDE DEF fits, o, there, n
  <2> QED
    BY <1>9, <1>10, <2>1
<1>12. K!SortDevices(devs) = [i \in DOMAIN order |-> devs[order[i]]]
  BY DEF K!SortDevices
<1> HIDE DEF order, o
<1>13. /\ order \in [1 .. n -> there]
       /\ \A i, j \in 1 .. n : order[i] = order[j] => i = j
       /\ \A i \in there : \E k \in 1 .. n : order[k] = i
  <2> HIDE DEF there, n
  <2> QED
    BY <1>11 DEF K!Bijection, K!Injection, K!Surjection, K!IsInjective
<1> DEFINE r == [i \in 1 .. n |-> devs[order[i]]]
<1>14. K!SortDevices(devs) = r
  BY <1>12, <1>13
<1>15. \A i \in 1 .. n : order[i] \in there /\ r[i] = devs[order[i]] /\ r[i] \in group
  BY <1>13
<1>16. Lined(group, group, n, r)
  <2>1. r \in [1 .. n -> group]
    BY <1>15
  <2>2. ASSUME NEW d \in group PROVE \E k \in 1 .. n : r[k] = d
    <3>1. PICK i \in there : devs[i] = d
      OBVIOUS
    <3> QED
      BY <1>13, <1>15, <3>1
  <2>3. ASSUME NEW i \in 1 .. n, NEW j \in 1 .. n, i < j PROVE K!Before(r[i], r[j], group)
    <3>1. ahead(order[i], order[j])
      BY <1>11, <1>13, <2>3
    <3>2. order[i] # order[j]
      BY <1>13, <2>3
    <3>3. r[i] # r[j]
      BY <1>3, <1>4, <1>15, <3>2
    <3>4. K!Before(r[i], r[j], group) \/ K!Before(r[j], r[i], group)
      BY <1>1, <1>4, <1>15, <3>3, BeforeOrders
    <3> QED
      BY <1>15, <3>1, <3>4
  <2> HIDE DEF r, group
  <2> QED
    BY <2>1, <2>2, <2>3 DEF Lined
<1> QED
  BY <1>4, <1>6, <1>14, <1>16

\* The devices are those of one account, and the card is made of them.
CardsInv == \E all \in Accounts : devices \in K!Orders(all) /\ card = K!Card(devices)

\* The feed walks the devices it has.
LEMMA OrdersKeep ==
  ASSUME NEW all, NEW devs \in K!Orders(all)
  PROVE  K!ToSet(devs) = all
BY DEF K!Orders, K!Bijection, K!Injection, K!Surjection, K!ToSet

\* The devices are always those of one account, and the card is theirs.
LEMMA CardsInvHolds == K!Spec => []CardsInv
<1>1. K!Init => CardsInv
  BY DEF K!Init, CardsInv
<1>2. CardsInv /\ [K!Walk]_<<devices, card>> => CardsInv'
  BY OrdersKeep DEF CardsInv, K!Walk
<1> QED
  BY <1>1, <1>2, PTL DEF K!Spec

\* Two orders of the same devices make one card.
LEMMA OneCard ==
  ASSUME NEW all \in Accounts, NEW one \in K!Orders(all), NEW two \in K!Orders(all)
  PROVE  K!Card(one) = K!Card(two)
<1>1. K!SortDevices(one) = K!SortDevices(two)
  <2>1. Told(Live(all)) /\ Cardinality(Live(all)) \in Nat
    BY LiveTold, FS_CardinalityType DEF Told
  <2> QED
    BY <2>1, SortsLive, OneLine
<1> QED
  BY <1>1 DEF K!Card

\* However the feed's map is walked, which changes from one render to the next, the
\* card is the same (Cards, accountsOf and sortDevices of cardlayout.go).
THEOREM CardsSameCard == K!Spec => SameCard
<1>1. CardsInv /\ [K!Walk]_<<devices, card>> => [card' = card]_<<devices, card>>
  <2> SUFFICES ASSUME CardsInv, K!Walk PROVE card' = card
    OBVIOUS
  <2>1. PICK all \in Accounts : devices \in K!Orders(all) /\ card = K!Card(devices)
    BY DEF CardsInv
  <2>2. devices' \in K!Orders(all) /\ card' = K!Card(devices')
    BY <2>1, OrdersKeep DEF K!Walk
  <2> QED
    BY <2>1, <2>2, OneCard
<1> QED
  BY <1>1, CardsInvHolds, PTL DEF K!Spec, SameCard, K!SameCard

-----------------------------------------------------------------------------
(* Cards: what its functions on lists do, two of them recursive.             *)

\* The function in InOrder obeys its definition.
LEMMA InOrderUnfolds ==
  ASSUME NEW n \in Nat, NEW chosen
  PROVE  \E upTo : /\ upTo[0] = <<>>
                   /\ \A k \in 1 .. n : upTo[k] = IF k \in chosen THEN Append(upTo[k - 1], k)
                                                  ELSE upTo[k - 1]
                   /\ K!InOrder(n, chosen) = upTo[n]
<1> DEFINE next(f, k) == IF k = 0 THEN <<>>
                         ELSE IF k \in chosen THEN Append(f[k - 1], k) ELSE f[k - 1]
           Runs(f, m) == f = [k \in 0 .. m |-> next(f, k)]
           Reached == {m \in Nat : \E f : Runs(f, m)}
<1>1. 0 \in Reached
  <2> DEFINE f == [k \in 0 .. 0 |-> <<>>]
  <2>1. \A k \in 0 .. 0 : k = 0
    OBVIOUS
  <2>2. Runs(f, 0)
    BY <2>1
  <2> HIDE DEF f, Runs
  <2>3. \E h : Runs(h, 0)
    BY <2>2
  <2> QED
    BY <2>3
<1>2. ASSUME NEW m \in Nat, m \in Reached PROVE m + 1 \in Reached
  <2>1. PICK f : Runs(f, m)
    BY <1>2
  <2> DEFINE g == [k \in 0 .. m + 1 |-> next(f, k)]
  <2> HIDE DEF next
  <2>2. \A k \in 0 .. m : f[k] = next(f, k) /\ k \in 0 .. m + 1
    BY <2>1
  <2>3. \A k \in 0 .. m : g[k] = f[k]
    BY <2>2
  <2>4. \A k \in 0 .. m + 1 : k = 0 \/ k - 1 \in 0 .. m
    OBVIOUS
  <2>5. \A k \in 0 .. m + 1 : next(f, k) = next(g, k)
    BY <2>3, <2>4 DEF next
  <2>6. Runs(g, m + 1)
    BY <2>5
  <2> HIDE DEF g, Runs
  <2>7. \E h : Runs(h, m + 1)
    BY <2>6
  <2> QED
    BY <2>7
<1>3. n \in Reached
  <2> HIDE DEF Reached
  <2> QED
    BY <1>1, <1>2, Counting
<1> DEFINE upTo == CHOOSE f : Runs(f, n)
<1>4. Runs(upTo, n)
  <2> HIDE DEF Runs
  <2> QED
    BY <1>3
<1>5. K!InOrder(n, chosen) = upTo[n]
  BY DEF K!InOrder
<1> HIDE DEF upTo
<1>6. \A k \in 0 .. n : upTo[k] = next(upTo, k)
  <2> HIDE DEF next
  <2> QED
    BY <1>4
<1>7. upTo[0] = <<>> /\ \A k \in 1 .. n : upTo[k] = IF k \in chosen THEN Append(upTo[k - 1], k)
                                                    ELSE upTo[k - 1]
  BY <1>6
<1> QED
  BY <1>5, <1>7

\* p lists what is chosen among 1..n, each once.
ListsChosen(n, chosen, p) ==
    /\ p \in Seq(Nat)
    /\ \A i \in 1 .. Len(p) : p[i] \in 1 .. n /\ p[i] \in chosen
    /\ \A i, j \in 1 .. Len(p) : p[i] = p[j] => i = j
    /\ \A k \in 1 .. n : k \in chosen => \E i \in 1 .. Len(p) : p[i] = k

\* InOrder lists the chosen numbers, each once and in order.
LEMMA InOrderLists ==
  ASSUME NEW n \in Nat, NEW chosen
  PROVE  ListsChosen(n, chosen, K!InOrder(n, chosen))
<1>1. PICK upTo : /\ upTo[0] = <<>>
                  /\ \A k \in 1 .. n : upTo[k] = IF k \in chosen THEN Append(upTo[k - 1], k)
                                                 ELSE upTo[k - 1]
                  /\ K!InOrder(n, chosen) = upTo[n]
  BY InOrderUnfolds
<1> DEFINE Reached == {k \in Nat : k <= n => ListsChosen(k, chosen, upTo[k])}
<1>2. 0 \in Reached
  <2>1. ListsChosen(0, chosen, <<>>)
    BY DEF ListsChosen
  <2> QED
    BY <1>1, <2>1
<1>3. ASSUME NEW k \in Nat, k \in Reached PROVE k + 1 \in Reached
  <2> SUFFICES ASSUME k + 1 <= n PROVE ListsChosen(k + 1, chosen, upTo[k + 1])
    OBVIOUS
  <2> DEFINE p == upTo[k]
             len == Len(p)
  <2>1. ListsChosen(k, chosen, p)
    BY <1>3
  <2>2. k + 1 \in 1 .. n /\ (k + 1) - 1 = k
    OBVIOUS
  <2>3. upTo[k + 1] = IF k + 1 \in chosen THEN Append(p, k + 1) ELSE p
    BY <1>1, <2>2
  <2>4. p \in Seq(Nat) /\ len \in Nat
    BY <2>1 DEF ListsChosen
  <2> HIDE DEF p
  <2>5. CASE k + 1 \notin chosen
    BY <2>1, <2>3, <2>5 DEF ListsChosen
  <2>6. CASE k + 1 \in chosen
    <3> DEFINE q == Append(p, k + 1)
    <3>1. q \in Seq(Nat) /\ Len(q) = len + 1 /\ q[len + 1] = k + 1 /\ \A i \in 1 .. len : q[i] = p[i]
      BY <2>4
    <3> HIDE DEF q, len
    <3>2. \A i \in 1 .. len + 1 : i = len + 1 \/ i \in 1 .. len
      BY <2>4
    <3>3. \A i \in 1 .. len : p[i] \in 1 .. k /\ p[i] \in chosen
      BY <2>1 DEF ListsChosen, len
    <3>4. \A i \in 1 .. len + 1 : q[i] \in 1 .. k + 1 /\ q[i] \in chosen
      BY <2>4, <2>6, <3>1, <3>2, <3>3
    <3>5. \A i, j \in 1 .. len + 1 : q[i] = q[j] => i = j
      <4>1. \A i, j \in 1 .. len : p[i] = p[j] => i = j
        BY <2>1 DEF ListsChosen, len
      <4>2. \A i \in 1 .. len : p[i] # k + 1
        BY <3>3
      <4> QED
        BY <3>1, <3>2, <4>1, <4>2
    <3>6. ASSUME NEW x \in 1 .. k + 1, x \in chosen PROVE \E i \in 1 .. len + 1 : q[i] = x
      <4>1. CASE x = k + 1
        <5>1. len + 1 \in 1 .. len + 1
          BY <2>4
        <5> QED
          BY <3>1, <4>1, <5>1
      <4>2. CASE x # k + 1
        <5>1. x \in 1 .. k
          BY <4>2
        <5>2. PICK i \in 1 .. len : p[i] = x
          BY <2>1, <3>6, <5>1 DEF ListsChosen, len
        <5>3. i \in 1 .. len + 1
          BY <2>4
        <5> QED
          BY <3>1, <5>2, <5>3
      <4> QED
        BY <4>1, <4>2
    <3>7. ListsChosen(k + 1, chosen, q)
      BY <3>1, <3>4, <3>5, <3>6 DEF ListsChosen
    <3> QED
      BY <2>3, <2>6, <3>7 DEF q
  <2> QED
    BY <2>5, <2>6
<1>4. n \in Reached
  <2> HIDE DEF Reached
  <2> QED
    BY <1>2, <1>3, Counting
<1> QED
  BY <1>1, <1>4

\* s is a list, of whatever.
Listed(s) == Len(s) \in Nat /\ s = [i \in 1 .. Len(s) |-> s[i]]

\* A listing is a sequence of what it lists.
LEMMA ListsAre ==
  ASSUME NEW n \in Nat, NEW s, s = [i \in 1 .. n |-> s[i]]
  PROVE  Listed(s) /\ Len(s) = n
<1>1. s \in Seq({s[i] : i \in 1 .. n}) /\ Len(s) = n
  OBVIOUS
<1> QED
  BY <1>1 DEF Listed

\* What a sequence has at its places.
LEMMA SeqsAre ==
  ASSUME NEW set, NEW s \in Seq(set)
  PROVE  Listed(s) /\ DOMAIN s = 1 .. Len(s) /\ \A i \in 1 .. Len(s) : s[i] \in set
BY DEF Listed

\* What Keep leaves is there, and what is chosen is left, by way of the places.
LEMMA Kept ==
  ASSUME NEW s, Listed(s), NEW chosen
  PROVE  \E places : /\ ListsChosen(Len(s), chosen, places)
                     /\ K!Keep(s, chosen) = [i \in 1 .. Len(places) |-> s[places[i]]]
                     /\ Listed(K!Keep(s, chosen))
                     /\ Len(K!Keep(s, chosen)) = Len(places)
<1> DEFINE places == K!InOrder(Len(s), chosen)
           r == [i \in 1 .. Len(places) |-> s[places[i]]]
<1>1. ListsChosen(Len(s), chosen, places)
  BY InOrderLists DEF Listed
<1>2. places \in Seq(Nat) /\ Len(places) \in Nat /\ DOMAIN places = 1 .. Len(places)
  BY <1>1 DEF ListsChosen
<1>3. K!Keep(s, chosen) = r
  BY <1>2 DEF K!Keep
<1>4. r = [i \in 1 .. Len(places) |-> r[i]]
  OBVIOUS
<1>5. Listed(r) /\ Len(r) = Len(places)
  <2> HIDE DEF r, places
  <2> QED
    BY <1>2, <1>4, ListsAre
<1> QED
  BY <1>1, <1>3, <1>5

-----------------------------------------------------------------------------
(* Cards: the grid.                                                          *)

\* The spots of a size that are free.
Free(size, rows, grid) == {at \in K!Spots(size, rows) : K!Cells(at, size) \cap grid.taken = {}}

\* The grid with one more tile.
Stood(size, rows, grid) ==
    IF Free(size, rows, grid) = {}
    THEN [taken |-> grid.taken, at |-> Append(grid.at, K!NoSpot)]
    ELSE [taken |-> grid.taken \cup K!Cells(K!Min(Free(size, rows, grid)), size),
          at |-> Append(grid.at, K!Min(Free(size, rows, grid)))]

\* The function in Pack obeys its definition.
LEMMA PackUnfolds ==
  ASSUME NEW sizes, Len(sizes) \in Nat, NEW rows
  PROVE  \E after : /\ after[0] = [taken |-> {}, at |-> <<>>]
                    /\ \A k \in 1 .. Len(sizes) : after[k] = Stood(sizes[k], rows, after[k - 1])
                    /\ K!Pack(sizes, rows) = after[Len(sizes)].at
<1> DEFINE n == Len(sizes)
           next(f, k) == IF k = 0 THEN [taken |-> {}, at |-> <<>>]
                         ELSE Stood(sizes[k], rows, f[k - 1])
           Runs(f, m) == f = [k \in 0 .. m |-> next(f, k)]
           Reached == {m \in Nat : \E f : Runs(f, m)}
<1>1. 0 \in Reached
  <2> DEFINE f == [k \in 0 .. 0 |-> [taken |-> {}, at |-> <<>>]]
  <2>1. \A k \in 0 .. 0 : k = 0
    OBVIOUS
  <2>2. Runs(f, 0)
    BY <2>1
  <2> HIDE DEF f, Runs
  <2>3. \E h : Runs(h, 0)
    BY <2>2
  <2> QED
    BY <2>3
<1>2. ASSUME NEW m \in Nat, m \in Reached PROVE m + 1 \in Reached
  <2>1. PICK f : Runs(f, m)
    BY <1>2
  <2> DEFINE g == [k \in 0 .. m + 1 |-> next(f, k)]
  <2> HIDE DEF next
  <2>2. \A k \in 0 .. m : f[k] = next(f, k) /\ k \in 0 .. m + 1
    BY <2>1
  <2>3. \A k \in 0 .. m : g[k] = f[k]
    BY <2>2
  <2>4. \A k \in 0 .. m + 1 : k = 0 \/ k - 1 \in 0 .. m
    OBVIOUS
  <2>5. \A k \in 0 .. m + 1 : next(f, k) = next(g, k)
    BY <2>3, <2>4 DEF next
  <2>6. Runs(g, m + 1)
    BY <2>5
  <2> HIDE DEF g, Runs
  <2>7. \E h : Runs(h, m + 1)
    BY <2>6
  <2> QED
    BY <2>7
<1>3. n \in Reached
  <2> HIDE DEF Reached
  <2> QED
    BY <1>1, <1>2, Counting
<1> DEFINE after == CHOOSE f : Runs(f, n)
<1>4. Runs(after, n)
  <2> HIDE DEF Runs
  <2> QED
    BY <1>3
<1>5. K!Pack(sizes, rows) = after[n].at
  BY DEF K!Pack, Stood, Free
<1> HIDE DEF after
<1>6. \A k \in 0 .. n : after[k] = next(after, k)
  <2> HIDE DEF next
  <2> QED
    BY <1>4
<1>7. /\ after[0] = [taken |-> {}, at |-> <<>>]
      /\ \A k \in 1 .. n : after[k] = Stood(sizes[k], rows, after[k - 1])
  BY <1>6
<1> QED
  BY <1>5, <1>7

\* The tiles of the first sizes stand on the grid beside each other, on what is taken,
\* and for one that does not there is no room there.
Stands(sizes, rows, k, at, filled) ==
    /\ at \in Seq(Int) /\ Len(at) = k
    /\ \A i \in 1 .. k : at[i] # K!NoSpot =>
         /\ at[i] \in K!Spots(sizes[i], rows)
         /\ K!Cells(at[i], sizes[i]) \subseteq filled
    /\ \A c \in filled : \E i \in 1 .. k : at[i] # K!NoSpot /\ c \in K!Cells(at[i], sizes[i])
    /\ \A i, j \in 1 .. k : i # j /\ at[i] # K!NoSpot /\ at[j] # K!NoSpot =>
         K!Cells(at[i], sizes[i]) \cap K!Cells(at[j], sizes[j]) = {}
    /\ \A i \in 1 .. k : at[i] = K!NoSpot =>
         \A s \in K!Spots(sizes[i], rows) : K!Cells(s, sizes[i]) \cap filled # {}

\* One more stands, if it can.
LEMMA StandsOneMore ==
  ASSUME NEW sizes, NEW rows, NEW k \in Nat, NEW at, NEW filled, Stands(sizes, rows, k, at, filled),
         NEW spot \in Int, NEW grown,
         \/ /\ spot = K!NoSpot /\ grown = filled
            /\ \A s \in K!Spots(sizes[k + 1], rows) : K!Cells(s, sizes[k + 1]) \cap filled # {}
         \/ /\ spot \in K!Spots(sizes[k + 1], rows)
            /\ K!Cells(spot, sizes[k + 1]) \cap filled = {}
            /\ grown = filled \cup K!Cells(spot, sizes[k + 1])
  PROVE  Stands(sizes, rows, k + 1, Append(at, spot), grown)
<1> DEFINE more == Append(at, spot)
<1>1. at \in Seq(Int) /\ Len(at) = k
  BY DEF Stands
<1>2. /\ more \in Seq(Int) /\ Len(more) = k + 1 /\ more[k + 1] = spot
      /\ \A i \in 1 .. k : more[i] = at[i]
  BY <1>1
<1>3. \A i \in 1 .. k + 1 : i = k + 1 \/ i \in 1 .. k
  OBVIOUS
<1>4. k + 1 \in 1 .. k + 1 /\ \A i \in 1 .. k : i \in 1 .. k + 1 /\ i # k + 1
  OBVIOUS
<1> HIDE DEF more
<1>5. ASSUME NEW i \in 1 .. k + 1, more[i] # K!NoSpot
      PROVE  more[i] \in K!Spots(sizes[i], rows) /\ K!Cells(more[i], sizes[i]) \subseteq grown
  <2>1. CASE i = k + 1
    BY <1>2, <1>5, <2>1
  <2>2. CASE i \in 1 .. k
    <3>1. at[i] \in K!Spots(sizes[i], rows) /\ K!Cells(at[i], sizes[i]) \subseteq filled
      BY <1>2, <1>5, <2>2 DEF Stands
    <3> QED
      BY <1>2, <2>2, <3>1
  <2> QED
    BY <1>3, <2>1, <2>2
<1>6. ASSUME NEW c \in grown
      PROVE  \E i \in 1 .. k + 1 : more[i] # K!NoSpot /\ c \in K!Cells(more[i], sizes[i])
  <2>1. CASE c \in filled
    <3>1. PICK i \in 1 .. k : at[i] # K!NoSpot /\ c \in K!Cells(at[i], sizes[i])
      BY <2>1 DEF Stands
    <3> QED
      BY <1>2, <1>4, <3>1
  <2>2. CASE c \notin filled
    <3>1. spot \in K!Spots(sizes[k + 1], rows) /\ c \in K!Cells(spot, sizes[k + 1])
      BY <1>6, <2>2
    <3>2. spot # K!NoSpot
      BY <3>1 DEF K!NoSpot, K!Spots
    <3> QED
      BY <1>2, <1>4, <3>1, <3>2
  <2> QED
    BY <2>1, <2>2
<1>7. ASSUME NEW i \in 1 .. k, at[i] # K!NoSpot, spot # K!NoSpot
      PROVE  K!Cells(at[i], sizes[i]) \cap K!Cells(spot, sizes[k + 1]) = {}
  <2>1. K!Cells(at[i], sizes[i]) \subseteq filled
    BY <1>7 DEF Stands
  <2> QED
    BY <1>7, <2>1
<1>8. ASSUME NEW i \in 1 .. k + 1, NEW j \in 1 .. k + 1, i # j,
             more[i] # K!NoSpot, more[j] # K!NoSpot
      PROVE  K!Cells(more[i], sizes[i]) \cap K!Cells(more[j], sizes[j]) = {}
  <2>1. CASE i \in 1 .. k /\ j \in 1 .. k
    BY <1>2, <1>8, <2>1 DEF Stands
  <2>2. CASE i = k + 1 /\ j \in 1 .. k
    BY <1>2, <1>7, <1>8, <2>2
  <2>3. CASE i \in 1 .. k /\ j = k + 1
    BY <1>2, <1>7, <1>8, <2>3
  <2> QED
    BY <1>3, <1>8, <2>1, <2>2, <2>3
<1>9. ASSUME NEW i \in 1 .. k + 1, more[i] = K!NoSpot, NEW s \in K!Spots(sizes[i], rows)
      PROVE  K!Cells(s, sizes[i]) \cap grown # {}
  <2>1. CASE i = k + 1
    <3>1. spot \notin K!Spots(sizes[k + 1], rows)
      BY <1>2, <1>9, <2>1 DEF K!NoSpot, K!Spots
    <3> QED
      BY <1>9, <2>1, <3>1
  <2>2. CASE i \in 1 .. k
    <3>1. K!Cells(s, sizes[i]) \cap filled # {}
      BY <1>2, <1>9, <2>2 DEF Stands
    <3> QED
      BY <3>1
  <2> QED
    BY <1>3, <2>1, <2>2
<1>10. Stands(sizes, rows, k + 1, more, grown)
  BY <1>2, <1>5, <1>6, <1>8, <1>9 DEF Stands
<1> QED
  BY <1>10 DEF more

\* So all of them stand, if they can.
LEMMA PackStands ==
  ASSUME NEW sizes, Len(sizes) \in Nat, NEW rows
  PROVE  \E filled : Stands(sizes, rows, Len(sizes), K!Pack(sizes, rows), filled)
<1> DEFINE n == Len(sizes)
<1>1. PICK after : /\ after[0] = [taken |-> {}, at |-> <<>>]
                   /\ \A k \in 1 .. n : after[k] = Stood(sizes[k], rows, after[k - 1])
                   /\ K!Pack(sizes, rows) = after[n].at
  BY PackUnfolds
<1> DEFINE Reached == {k \in Nat : k <= n => Stands(sizes, rows, k, after[k].at, after[k].taken)}
<1>2. 0 \in Reached
  <2>1. Stands(sizes, rows, 0, <<>>, {})
    BY DEF Stands
  <2>2. after[0].at = <<>> /\ after[0].taken = {}
    BY <1>1
  <2> QED
    BY <2>1, <2>2
<1>3. ASSUME NEW k \in Nat, k \in Reached PROVE k + 1 \in Reached
  <2> SUFFICES ASSUME k + 1 <= n
               PROVE  Stands(sizes, rows, k + 1, after[k + 1].at, after[k + 1].taken)
    OBVIOUS
  <2> DEFINE grid == after[k]
             free == Free(sizes[k + 1], rows, grid)
             first == K!Min(free)
  <2>1. Stands(sizes, rows, k, grid.at, grid.taken)
    BY <1>3
  <2>2. k + 1 \in 1 .. n /\ (k + 1) - 1 = k
    OBVIOUS
  <2>3. after[k + 1] = Stood(sizes[k + 1], rows, grid)
    BY <1>1, <2>2
  <2> HIDE DEF grid
  <2>4. CASE free = {}
    <3>1. after[k + 1] = [taken |-> grid.taken, at |-> Append(grid.at, K!NoSpot)]
      BY <2>3, <2>4 DEF Stood
    <3>2. \A s \in K!Spots(sizes[k + 1], rows) : K!Cells(s, sizes[k + 1]) \cap grid.taken # {}
      BY <2>4 DEF Free
    <3>3. K!NoSpot \in Int
      BY DEF K!NoSpot
    <3>4. Stands(sizes, rows, k + 1, Append(grid.at, K!NoSpot), grid.taken)
      BY <2>1, <3>2, <3>3, StandsOneMore
    <3> QED
      BY <3>1, <3>4
  <2>5. CASE free # {}
    <3>1. free \subseteq Nat
      BY DEF Free, K!Spots
    <3>2. first \in free
      <4> HIDE DEF free
      <4> QED
        BY <2>5, <3>1, FirstOf DEF K!Min
    <3>3. after[k + 1] = [taken |-> grid.taken \cup K!Cells(first, sizes[k + 1]),
                          at |-> Append(grid.at, first)]
      BY <2>3, <2>5 DEF Stood
    <3>4. /\ first \in K!Spots(sizes[k + 1], rows) /\ first \in Int
          /\ K!Cells(first, sizes[k + 1]) \cap grid.taken = {}
      BY <3>1, <3>2 DEF Free
    <3> HIDE DEF first
    <3>5. Stands(sizes, rows, k + 1, Append(grid.at, first),
                 grid.taken \cup K!Cells(first, sizes[k + 1]))
      BY <2>1, <3>4, StandsOneMore
    <3> QED
      BY <3>3, <3>5
  <2> QED
    BY <2>4, <2>5
<1>4. n \in Reached
  <2> HIDE DEF Reached
  <2> QED
    BY <1>2, <1>3, Counting
<1> QED
  BY <1>1, <1>4

\* What place puts on the grid: beside each other; and a tile that has something to show
\* and is not there meets one that is, wherever it would stand.
LEMMA PlaceHolds ==
  ASSUME NEW tiles, Listed(tiles), NEW rows, NEW sorted
  PROVE  LET there == K!Place(tiles, rows, sorted)
         IN  /\ Listed(there)
             /\ K!Sound(there, rows)
             /\ \A i \in 1 .. Len(tiles) :
                  K!HasData(tiles[i], sorted) /\ (\A k \in 1 .. Len(there) : there[k].tile # tiles[i]) =>
                    \A s \in K!Spots(tiles[i].size, rows) : \E c \in K!Cells(s, tiles[i].size) :
                      \E k \in 1 .. Len(there) : c \in K!Cells(there[k].at, there[k].tile.size)
<1> DEFINE chosen == {i \in DOMAIN tiles : tiles[i].missing # "hide" \/ K!HasData(tiles[i], sorted)}
           visible == K!Keep(tiles, chosen)
           sizes == [i \in DOMAIN visible |-> visible[i].size]
           at == K!Pack(sizes, rows)
           standing == K!InOrder(Len(visible), K!Placed(at))
           there == K!Place(tiles, rows, sorted)
           n == Len(visible)
           r == [i \in 1 .. Len(standing) |-> K!Tile(visible[standing[i]], at[standing[i]], sorted)]
<1>1. DOMAIN tiles = 1 .. Len(tiles)
  BY DEF Listed
<1>2. PICK places : /\ ListsChosen(Len(tiles), chosen, places)
                    /\ visible = [i \in 1 .. Len(places) |-> tiles[places[i]]]
                    /\ Listed(visible)
                    /\ Len(visible) = Len(places)
  <2> HIDE DEF chosen
  <2> QED
    BY Kept
<1>3. there = [i \in DOMAIN standing |->
                  K!Tile(visible[standing[i]], at[standing[i]], sorted)]
  BY DEF K!Place
<1> HIDE DEF there, visible, chosen
<1>4. n \in Nat /\ DOMAIN visible = 1 .. n
  BY <1>2 DEF Listed
<1>5. Len(sizes) = n /\ \A i \in 1 .. n : sizes[i] = visible[i].size
  <2>1. sizes = [i \in 1 .. n |-> sizes[i]]
    BY <1>4
  <2> QED
    BY <1>4, <2>1, ListsAre
<1> HIDE DEF sizes
<1>6. PICK filled : Stands(sizes, rows, n, at, filled)
  BY <1>4, <1>5, PackStands
<1>7. ListsChosen(n, K!Placed(at), standing)
  BY <1>4, InOrderLists
<1>8. /\ standing \in Seq(Nat) /\ Len(standing) \in Nat
      /\ DOMAIN standing = 1 .. Len(standing) /\ DOMAIN at = 1 .. n
  BY <1>6, <1>7 DEF ListsChosen, Stands
<1>9. \A k \in 1 .. Len(standing) : standing[k] \in 1 .. n /\ at[standing[k]] # K!NoSpot
  BY <1>7 DEF ListsChosen, K!Placed
<1> HIDE DEF at, standing, n
<1>10. Listed(there) /\ Len(there) = Len(standing)
  <2>1. there = [k \in 1 .. Len(standing) |-> there[k]]
    BY <1>3, <1>8
  <2> QED
    BY <1>8, <2>1, ListsAre
<1>11. \A k \in 1 .. Len(there) : /\ there[k].tile = visible[standing[k]]
                                  /\ there[k].at = at[standing[k]]
                                  /\ there[k].tile.size = sizes[standing[k]]
  <2> SUFFICES ASSUME NEW k \in 1 .. Len(there)
               PROVE  /\ there[k].tile = visible[standing[k]]
                      /\ there[k].at = at[standing[k]]
    BY <1>5, <1>9, <1>10
  <2>1. there[k] = K!Tile(visible[standing[k]], at[standing[k]], sorted)
    BY <1>3, <1>8, <1>10
  <2> QED
    BY <2>1 DEF K!Tile
<1>12. K!Sound(there, rows)
  <2>1. DOMAIN there = 1 .. Len(there)
    BY <1>10 DEF Listed
  <2>2. ASSUME NEW k \in 1 .. Len(there)
        PROVE  K!Cells(there[k].at, there[k].tile.size) \subseteq K!Grid(rows)
    <3>1. at[standing[k]] \in K!Spots(sizes[standing[k]], rows)
      BY <1>6, <1>9, <1>10 DEF Stands
    <3> QED
      BY <1>11, <3>1 DEF K!Spots
  <2>3. ASSUME NEW j \in 1 .. Len(there), NEW k \in 1 .. Len(there), j # k
        PROVE  K!Cells(there[j].at, there[j].tile.size)
                 \cap K!Cells(there[k].at, there[k].tile.size) = {}
    <3>1. standing[j] # standing[k]
      BY <1>7, <1>10, <2>3 DEF ListsChosen
    <3>2. K!Cells(at[standing[j]], sizes[standing[j]])
            \cap K!Cells(at[standing[k]], sizes[standing[k]]) = {}
      BY <1>6, <1>9, <1>10, <3>1 DEF Stands
    <3> QED
      BY <1>11, <3>2
  <2> QED
    BY <2>1, <2>2, <2>3 DEF K!Sound
<1>13. ASSUME NEW i \in 1 .. Len(tiles), K!HasData(tiles[i], sorted),
              \A k \in 1 .. Len(there) : there[k].tile # tiles[i],
              NEW s \in K!Spots(tiles[i].size, rows)
       PROVE  \E c \in K!Cells(s, tiles[i].size) :
                \E k \in 1 .. Len(there) : c \in K!Cells(there[k].at, there[k].tile.size)
  <2>1. PICK j \in 1 .. Len(places) : places[j] = i
    <3>1. i \in chosen
      BY <1>1, <1>13 DEF chosen
    <3> QED
      BY <1>2, <3>1 DEF ListsChosen
  <2>2. j \in 1 .. n /\ visible[j] = tiles[i] /\ sizes[j] = tiles[i].size
    BY <1>2, <1>5, <2>1 DEF n
  <2>3. at[j] = K!NoSpot
    <3> SUFFICES ASSUME at[j] # K!NoSpot PROVE FALSE
      OBVIOUS
    <3>1. j \in K!Placed(at)
      BY <1>8, <2>2 DEF K!Placed
    <3>2. PICK k \in 1 .. Len(standing) : standing[k] = j
      BY <1>7, <2>2, <3>1 DEF ListsChosen
    <3>3. there[k].tile = tiles[i]
      BY <1>10, <1>11, <2>2, <3>2
    <3> QED
      BY <1>10, <1>13, <3>3
  <2>4. PICK c \in K!Cells(s, sizes[j]) : c \in filled
    <3>1. s \in K!Spots(sizes[j], rows)
      BY <1>13, <2>2
    <3>2. K!Cells(s, sizes[j]) \cap filled # {}
      BY <1>6, <2>2, <2>3, <3>1 DEF Stands
    <3> QED
      BY <3>2
  <2>5. PICK m \in 1 .. n : at[m] # K!NoSpot /\ c \in K!Cells(at[m], sizes[m])
    BY <1>6, <2>4 DEF Stands
  <2>6. m \in K!Placed(at)
    BY <1>8, <2>5 DEF K!Placed
  <2>7. PICK k \in 1 .. Len(standing) : standing[k] = m
    BY <1>7, <2>5, <2>6 DEF ListsChosen
  <2>8. c \in K!Cells(there[k].at, there[k].tile.size)
    BY <1>10, <1>11, <2>5, <2>7
  <2> QED
    BY <1>10, <2>2, <2>4, <2>7, <2>8
<1> QED
  BY <1>10, <1>12, <1>13 DEF there

-----------------------------------------------------------------------------
(* Cards: the wildcards.                                                     *)

\* The function in FlattenSeq obeys its definition.
LEMMA FlattenUnfolds ==
  ASSUME NEW seqs, Len(seqs) \in Nat \ {0}
  PROVE  \E flat : /\ flat[1] = seqs[1]
                   /\ \A k \in 2 .. Len(seqs) : flat[k] = flat[k - 1] \o seqs[k]
                   /\ K!FlattenSeq(seqs) = flat[Len(seqs)]
<1> DEFINE n == Len(seqs)
           next(f, k) == IF k = 1 THEN seqs[k] ELSE f[k - 1] \o seqs[k]
           Runs(f, m) == f = [k \in 1 .. m |-> next(f, k)]
           Reached == {m \in Nat : \E f : Runs(f, m)}
<1>1. 0 \in Reached
  <2> DEFINE f == [k \in 1 .. 0 |-> <<>>]
  <2>1. \A k \in 1 .. 0 : FALSE
    OBVIOUS
  <2>2. Runs(f, 0)
    BY <2>1
  <2> HIDE DEF f, Runs
  <2>3. \E h : Runs(h, 0)
    BY <2>2
  <2> QED
    BY <2>3
<1>2. ASSUME NEW m \in Nat, m \in Reached PROVE m + 1 \in Reached
  <2>1. PICK f : Runs(f, m)
    BY <1>2
  <2> DEFINE g == [k \in 1 .. m + 1 |-> next(f, k)]
  <2> HIDE DEF next
  <2>2. \A k \in 1 .. m : f[k] = next(f, k) /\ k \in 1 .. m + 1
    BY <2>1
  <2>3. \A k \in 1 .. m : g[k] = f[k]
    BY <2>2
  <2>4. \A k \in 1 .. m + 1 : k = 1 \/ k - 1 \in 1 .. m
    OBVIOUS
  <2>5. \A k \in 1 .. m + 1 : next(f, k) = next(g, k)
    BY <2>3, <2>4 DEF next
  <2>6. Runs(g, m + 1)
    BY <2>5
  <2> HIDE DEF g, Runs
  <2>7. \E h : Runs(h, m + 1)
    BY <2>6
  <2> QED
    BY <2>7
<1>3. n \in Reached
  <2> HIDE DEF Reached
  <2> QED
    BY <1>1, <1>2, Counting
<1> DEFINE flat == CHOOSE f : Runs(f, n)
<1>4. Runs(flat, n)
  <2> HIDE DEF Runs
  <2> QED
    BY <1>3
<1>5. K!FlattenSeq(seqs) = flat[n]
  BY DEF K!FlattenSeq
<1> HIDE DEF flat
<1>6. \A k \in 1 .. n : flat[k] = next(flat, k)
  <2> HIDE DEF next
  <2> QED
    BY <1>4
<1>7. flat[1] = seqs[1] /\ \A k \in 2 .. n : flat[k] = flat[k - 1] \o seqs[k]
  <2>1. 1 \in 1 .. n /\ \A k \in 2 .. n : k \in 1 .. n /\ k # 1
    OBVIOUS
  <2> QED
    BY <1>6, <2>1
<1> QED
  BY <1>5, <1>7

\* What a field can be called, and a tile that names one.
AnyName == STRING \cup {K!NativeFields[i] : i \in DOMAIN K!NativeFields}

AnyTile == [kind : STRING, field : AnyName, device : Nat, size : STRING,
            missing : STRING, url : BOOLEAN]

\* A sequence of some is one of more.
LEMMA SeqWiden ==
  ASSUME NEW set, NEW more, set \subseteq more
  PROVE  Seq(set) \subseteq Seq(more)
OBVIOUS

\* Every text is a name, and every tile of a layout a tile.
LEMMA AnyIsMore == Seq(K!LaidTile) \subseteq Seq(AnyTile) /\ Seq(STRING) \subseteq Seq(AnyName)
<1>1. K!LaidTile \subseteq AnyTile
  BY DEF K!LaidTile, AnyTile, AnyName
<1>2. STRING \subseteq AnyName
  BY DEF AnyName
<1> QED
  BY <1>1, <1>2, SeqWiden

\* Where some tiles are of a field.
With(s, f) == {i \in 1 .. Len(s) : s[i].field = f}

\* The places with a name can be counted.
LEMMA WithFinite ==
  ASSUME NEW s, Len(s) \in Nat, NEW f
  PROVE  IsFiniteSet(With(s, f)) /\ Cardinality(With(s, f)) \in Nat
<1>1. With(s, f) \in SUBSET (1 .. Len(s))
  BY DEF With
<1>2. IsFiniteSet(1 .. Len(s))
  BY FS_Interval
<1>3. IsFiniteSet(With(s, f))
  BY <1>1, <1>2, FS_Subset
<1> QED
  BY <1>3, FS_CardinalityType

\* One more tile, or more of other fields.
LEMMA WithMore ==
  ASSUME NEW s \in Seq(AnyTile), NEW f, NEW q \in Seq(AnyTile),
         (\A i \in 1 .. Len(q) : q[i].field # f) \/ Len(q) = 1
  PROVE  /\ s \o q \in Seq(AnyTile)
         /\ (\A i \in 1 .. Len(q) : q[i].field # f) =>
              Cardinality(With(s \o q, f)) = Cardinality(With(s, f))
         /\ Cardinality(With(s \o q, f)) <= Cardinality(With(s, f)) + 1
<1> DEFINE r == s \o q
<1>1. /\ r \in Seq(AnyTile) /\ Len(r) = Len(s) + Len(q)
      /\ \A i \in 1 .. Len(s) : r[i] = s[i]
      /\ \A i \in 1 .. Len(q) : r[Len(s) + i] = q[i]
      /\ Len(s) \in Nat /\ Len(q) \in Nat
  OBVIOUS
<1> HIDE DEF r
<1>2. \A i \in 1 .. Len(r) : i \in 1 .. Len(s) \/ (i - Len(s) \in 1 .. Len(q) /\ i = Len(s) + (i - Len(s)))
  BY <1>1
<1>3. \A i \in 1 .. Len(s) : i \in 1 .. Len(r)
  BY <1>1
<1>4. IsFiniteSet(With(s, f)) /\ Cardinality(With(s, f)) \in Nat
  BY <1>1, WithFinite
<1>5. ASSUME \A i \in 1 .. Len(q) : q[i].field # f
      PROVE  Cardinality(With(r, f)) = Cardinality(With(s, f))
  <2>1. With(r, f) = With(s, f)
    BY <1>1, <1>2, <1>3, <1>5 DEF With
  <2> QED
    BY <2>1
<1>6. ASSUME Len(q) = 1 PROVE Cardinality(With(r, f)) <= Cardinality(With(s, f)) + 1
  <2>1. With(r, f) \in SUBSET (With(s, f) \cup {Len(s) + 1})
    <3>1. \A i \in 1 .. Len(r) : i \in 1 .. Len(s) \/ i = Len(s) + 1
      BY <1>1, <1>6
    <3> QED
      BY <1>1, <3>1 DEF With
  <2>2. /\ IsFiniteSet(With(s, f) \cup {Len(s) + 1})
        /\ Cardinality(With(s, f) \cup {Len(s) + 1}) \in {Cardinality(With(s, f)), Cardinality(With(s, f)) + 1}
    BY <1>4, FS_AddElement
  <2>3. /\ IsFiniteSet(With(r, f))
        /\ Cardinality(With(r, f)) <= Cardinality(With(s, f) \cup {Len(s) + 1})
    BY <2>1, <2>2, FS_Subset
  <2>4. Cardinality(With(r, f)) \in Nat
    BY <2>3, FS_CardinalityType
  <2> QED
    BY <1>4, <2>2, <2>3, <2>4
<1> QED
  BY <1>1, <1>4, <1>5, <1>6 DEF r

\* Fields as fieldsFor lists them.
Offered(some) == Listed(some) /\ \A i \in 1 .. Len(some) : some[i].key \in AnyName

\* Every part of a layout is a list of tiles, and one that names a field has at most as
\* many of it on the card.
LEMMA ExpandHolds ==
  ASSUME NEW tiles \in Seq(AnyTile), NEW offer, Offered(offer)
  PROVE  /\ K!Expand(tiles, offer) \in Seq(AnyTile)
         /\ \A t \in K!ToSet(tiles) : K!Sanitize(t) /\ t.field # K!Wildcard =>
              K!Count(K!Expand(tiles, offer), t.field) <= K!Count(tiles, t.field)
<1> DEFINE chosen == {i \in DOMAIN tiles : K!Sanitize(tiles[i])}
           clean == K!Keep(tiles, chosen)
           named == {t.field : t \in K!ToSet(clean)} \ {K!Wildcard}
           other == {i \in DOMAIN offer : offer[i].key \notin named}
           unnamed == K!Keep(offer, other)
           one(t) == IF t.field # K!Wildcard THEN <<t>>
                     ELSE [i \in DOMAIN unnamed |-> [t EXCEPT !.field = unnamed[i].key]]
           parts == [i \in DOMAIN clean |-> one(clean[i])]
           n == Len(clean)
<1>1. PICK places : /\ ListsChosen(Len(tiles), chosen, places)
                    /\ clean = [i \in 1 .. Len(places) |-> tiles[places[i]]]
                    /\ Listed(clean)
                    /\ n = Len(places)
  <2> HIDE DEF chosen
  <2>1. Listed(tiles)
    BY SeqsAre
  <2> QED
    BY <2>1, Kept
<1>2. n \in Nat /\ DOMAIN clean = 1 .. n
  BY <1>1 DEF Listed
<1>3. \A i \in 1 .. n : /\ places[i] \in 1 .. Len(tiles) /\ places[i] \in chosen
                        /\ clean[i] = tiles[places[i]] /\ clean[i] \in AnyTile
  <2>1. \A i \in 1 .. Len(tiles) : tiles[i] \in AnyTile
    OBVIOUS
  <2> HIDE DEF chosen, clean
  <2> QED
    BY <1>1, <2>1 DEF ListsChosen
<1>4. PICK spots : /\ ListsChosen(Len(offer), other, spots)
                   /\ unnamed = [i \in 1 .. Len(spots) |-> offer[spots[i]]]
                   /\ Listed(unnamed)
                   /\ Len(unnamed) = Len(spots)
  <2> HIDE DEF other
  <2> QED
    BY Kept DEF Offered
<1>5. \A i \in 1 .. Len(unnamed) : unnamed[i].key \in AnyName /\ unnamed[i].key \notin named
  <2> HIDE DEF unnamed, named
  <2>1. \A i \in 1 .. Len(unnamed) : /\ spots[i] \in 1 .. Len(offer) /\ spots[i] \in other
                                     /\ unnamed[i] = offer[spots[i]]
    BY <1>4 DEF ListsChosen
  <2> QED
    BY <2>1 DEF Offered
<1>6. Len(unnamed) \in Nat /\ DOMAIN unnamed = 1 .. Len(unnamed)
  BY <1>4 DEF Listed
<1>7. K!Expand(tiles, offer) = K!FlattenSeq(parts)
  BY DEF K!Expand
<1> HIDE DEF clean, chosen, named, other, unnamed
<1>8. Len(parts) = n /\ DOMAIN parts = 1 .. n /\ \A i \in 1 .. n : parts[i] = one(clean[i])
  <2>1. parts = [i \in 1 .. n |-> parts[i]]
    BY <1>2
  <2> QED
    BY <1>2, <2>1, ListsAre
<1> HIDE DEF parts
<1>9. ASSUME NEW t \in AnyTile
      PROVE  /\ one(t) \in Seq(AnyTile)
             /\ t.field # K!Wildcard => one(t) = <<t>>
             /\ t.field = K!Wildcard => \A i \in 1 .. Len(one(t)) : one(t)[i].field \notin named
  <2>1. CASE t.field # K!Wildcard
    BY <2>1
  <2>2. CASE t.field = K!Wildcard
    <3> DEFINE r == [i \in 1 .. Len(unnamed) |-> [t EXCEPT !.field = unnamed[i].key]]
    <3>1. \A i \in 1 .. Len(unnamed) : r[i] \in AnyTile /\ r[i].field = unnamed[i].key
      BY <1>5 DEF AnyTile
    <3>2. one(t) = r
      BY <1>6, <2>2
    <3>3. r = [i \in 1 .. Len(unnamed) |-> r[i]]
      OBVIOUS
    <3> HIDE DEF r, one
    <3>4. r \in Seq(AnyTile) /\ Len(r) = Len(unnamed)
      BY <1>6, <3>1, <3>3
    <3> QED
      BY <1>5, <2>2, <3>1, <3>2, <3>4
  <2> QED
    BY <2>1, <2>2
<1> HIDE DEF one
<1> DEFINE At(k, f) == {i \in 1 .. k : clean[i].field = f}
           Good(k, s) == /\ s \in Seq(AnyTile)
                         /\ \A f \in named : Cardinality(With(s, f)) <= Cardinality(At(k, f))
<1>10. \A k \in Nat, f \in AnyName : IsFiniteSet(At(k, f)) /\ Cardinality(At(k, f)) \in Nat
  <2> TAKE k \in Nat, f \in AnyName
  <2>1. At(k, f) \in SUBSET (1 .. k)
    OBVIOUS
  <2>2. IsFiniteSet(1 .. k)
    BY FS_Interval
  <2> HIDE DEF At
  <2>3. IsFiniteSet(At(k, f))
    BY <2>1, <2>2, FS_Subset
  <2> QED
    BY <2>3, FS_CardinalityType
<1>11. \A f \in named : f \in AnyName /\ f # K!Wildcard
  <2>1. \A i \in 1 .. n : clean[i].field \in AnyName
    BY <1>3 DEF AnyTile
  <2> QED
    BY <1>2, <2>1 DEF named, K!ToSet
<1>12. Good(0, <<>>)
  <2>1. \A f \in named : With(<<>>, f) = {} /\ At(0, f) = {}
    BY DEF With
  <2> HIDE DEF At
  <2>2. ASSUME NEW f \in named PROVE Cardinality(With(<<>>, f)) <= Cardinality(At(0, f))
    <3>1. With(<<>>, f) = {} /\ At(0, f) = {}
      BY <2>1
    <3>2. Cardinality(With(<<>>, f)) = 0 /\ Cardinality(At(0, f)) = 0
      BY <3>1, FS_EmptySet, Zenon
    <3> HIDE DEF With
    <3> QED
      BY <3>2
  <2> QED
    BY <2>2
<1>13. ASSUME NEW k \in Nat, k + 1 <= n, NEW s, Good(k, s) PROVE Good(k + 1, s \o one(clean[k + 1]))
  <2> DEFINE t == clean[k + 1]
             q == one(t)
  <2>1. t \in AnyTile
    BY <1>2, <1>3, <1>13
  <2>2. /\ q \in Seq(AnyTile)
        /\ t.field # K!Wildcard => q = <<t>>
        /\ t.field = K!Wildcard => \A i \in 1 .. Len(q) : q[i].field \notin named
    BY <1>9, <2>1
  <2> HIDE DEF t, q, At
  <2>3. s \in Seq(AnyTile)
    BY <1>13
  <2>4. s \o q \in Seq(AnyTile)
    BY <2>2, <2>3
  <2>5. ASSUME NEW f \in named PROVE Cardinality(With(s \o q, f)) <= Cardinality(At(k + 1, f))
    <3>1. /\ Cardinality(With(s, f)) <= Cardinality(At(k, f))
          /\ Cardinality(With(s, f)) \in Nat /\ Cardinality(With(s \o q, f)) \in Nat
      <4>1. Len(s) \in Nat /\ Len(s \o q) \in Nat
        BY <2>3, <2>4
      <4>2. Cardinality(With(s, f)) \in Nat /\ Cardinality(With(s \o q, f)) \in Nat
        BY <4>1, WithFinite
      <4> QED
        BY <1>13, <4>2
    <3>2. k + 1 \in 1 .. k + 1 /\ k + 1 \notin 1 .. k /\ \A i \in 1 .. k + 1 : i = k + 1 \/ i \in 1 .. k
      OBVIOUS
    <3>3. IsFiniteSet(At(k, f)) /\ Cardinality(At(k, f)) \in Nat
      BY <1>10, <1>11
    <3>4. CASE t.field = f
      <4>1. At(k + 1, f) = At(k, f) \cup {k + 1} /\ k + 1 \notin At(k, f)
        BY <3>2, <3>4 DEF At, t
      <4>2. Cardinality(At(k + 1, f)) = Cardinality(At(k, f)) + 1
        BY <3>3, <4>1, FS_AddElement
      <4>3. Len(q) = 1
        BY <1>11, <2>2, <3>4
      <4>4. Cardinality(With(s \o q, f)) <= Cardinality(With(s, f)) + 1
        BY <2>2, <2>3, <4>3, WithMore
      <4> QED
        BY <3>1, <3>3, <4>2, <4>4
    <3>5. CASE t.field # f
      <4>1. At(k + 1, f) = At(k, f)
        BY <3>2, <3>5 DEF At, t
      <4>2. \A i \in 1 .. Len(q) : q[i].field # f
        <5>1. CASE t.field # K!Wildcard
          <6>1. q = <<t>>
            BY <2>2, <5>1
          <6> QED
            BY <3>5, <6>1
        <5>2. CASE t.field = K!Wildcard
          BY <2>2, <5>2
        <5> QED
          BY <5>1, <5>2
      <4>3. Cardinality(With(s \o q, f)) = Cardinality(With(s, f))
        BY <2>2, <2>3, <4>2, WithMore
      <4> QED
        BY <3>1, <4>1, <4>3
    <3> QED
      BY <3>4, <3>5
  <2> QED
    BY <2>4, <2>5 DEF q, t
<1>14. Good(n, K!FlattenSeq(parts))
  <2>1. CASE n = 0
    <3>1. K!FlattenSeq(parts) = parts
      BY <1>8, <2>1 DEF K!FlattenSeq
    <3>2. parts = <<>>
      BY <1>8, <2>1 DEF parts
    <3> HIDE DEF Good
    <3> QED
      BY <1>12, <2>1, <3>1, <3>2
  <2>2. CASE n # 0
    <3>1. PICK flat : /\ flat[1] = parts[1]
                      /\ \A k \in 2 .. n : flat[k] = flat[k - 1] \o parts[k]
                      /\ K!FlattenSeq(parts) = flat[n]
      <4>1. Len(parts) \in Nat \ {0}
        BY <1>2, <1>8, <2>2
      <4> QED
        BY <1>8, <4>1, FlattenUnfolds
    <3> DEFINE Reached == {k \in Nat : k + 1 <= n => Good(k + 1, flat[k + 1])}
    <3>2. 0 \in Reached
      <4>1. 1 \in 1 .. n /\ parts[1] = one(clean[1]) /\ clean[1] \in AnyTile
        BY <1>2, <1>3, <1>8, <2>2
      <4>2. one(clean[1]) \in Seq(AnyTile)
        BY <1>9, <4>1
      <4>3. <<>> \o one(clean[1]) = one(clean[1])
        BY <4>2
      <4> HIDE DEF Good
      <4>4. 0 \in Nat /\ 0 + 1 <= n /\ 0 + 1 = 1
        BY <1>2, <2>2
      <4>5. Good(0 + 1, <<>> \o one(clean[0 + 1]))
        BY <1>12, <1>13, <4>4, Zenon
      <4> QED
        BY <3>1, <4>1, <4>3, <4>4, <4>5
    <3>3. ASSUME NEW k \in Nat, k \in Reached PROVE k + 1 \in Reached
      <4> SUFFICES ASSUME (k + 1) + 1 <= n PROVE Good((k + 1) + 1, flat[(k + 1) + 1])
        OBVIOUS
      <4> HIDE DEF Good
      <4>1. k + 1 <= n /\ k + 1 \in Nat /\ (k + 1) + 1 \in 2 .. n /\ ((k + 1) + 1) - 1 = k + 1
            /\ (k + 1) + 1 \in 1 .. n
        BY <1>2
      <4>2. Good(k + 1, flat[k + 1])
        BY <3>3, <4>1
      <4>3. flat[(k + 1) + 1] = flat[k + 1] \o one(clean[(k + 1) + 1])
        BY <1>8, <3>1, <4>1
      <4> QED
        BY <1>13, <4>1, <4>2, <4>3
    <3>4. n - 1 \in Reached
      <4>1. n - 1 \in Nat
        BY <1>2, <2>2
      <4> HIDE DEF Reached
      <4> QED
        BY <3>2, <3>3, <4>1, Counting
    <3>5. n - 1 + 1 = n
      BY <1>2
    <3> HIDE DEF Good
    <3> QED
      BY <1>2, <3>1, <3>4, <3>5
  <2> QED
    BY <2>1, <2>2
<1>15. ASSUME NEW f \in named
       PROVE  K!Count(K!Expand(tiles, offer), f) <= K!Count(tiles, f)
  <2> DEFINE own == K!Expand(tiles, offer)
  <2>1. own \in Seq(AnyTile) /\ Cardinality(With(own, f)) <= Cardinality(At(n, f))
    BY <1>7, <1>14
  <2> HIDE DEF own
  <2>2. DOMAIN own = 1 .. Len(own) /\ DOMAIN tiles = 1 .. Len(tiles)
    BY <2>1
  <2>3. K!Count(own, f) = Cardinality(With(own, f)) /\ K!Count(tiles, f) = Cardinality(With(tiles, f))
    BY <2>2, CardsCardinality DEF K!Count, With
  <2>4. Cardinality(At(n, f)) <= Cardinality(With(tiles, f))
    <3> DEFINE g == [i \in At(n, f) |-> places[i]]
    <3>1. g \in Injection(At(n, f), With(tiles, f))
      <4>1. \A i \in At(n, f) : g[i] \in With(tiles, f)
        BY <1>3 DEF With
      <4>2. \A i, j \in At(n, f) : g[i] = g[j] => i = j
        BY <1>1 DEF ListsChosen
      <4>3. g \in [At(n, f) -> With(tiles, f)]
        BY <4>1
      <4> HIDE DEF g, At
      <4> QED
        BY <4>2, <4>3 DEF Injection, IsInjective
    <3> HIDE DEF g, At
    <3>2. IsFiniteSet(With(tiles, f))
      BY WithFinite
    <3> QED
      BY <3>1, <3>2, FS_Injection
  <2>5. Cardinality(With(own, f)) \in Nat /\ Cardinality(With(tiles, f)) \in Nat
    <3>1. Len(own) \in Nat /\ Len(tiles) \in Nat
      BY <2>1
    <3> QED
      BY <3>1, WithFinite
  <2>6. Cardinality(At(n, f)) \in Nat
    <3> HIDE DEF At
    <3> QED
      BY <1>2, <1>10, <1>11
  <2> HIDE DEF At
  <2> QED
    BY <2>1, <2>3, <2>4, <2>5, <2>6 DEF own
<1>16. ASSUME NEW t \in K!ToSet(tiles), K!Sanitize(t), t.field # K!Wildcard
       PROVE  t.field \in named
  <2>1. PICK i \in 1 .. Len(tiles) : tiles[i] = t
    BY DEF K!ToSet
  <2>2. i \in chosen
    BY <1>16, <2>1 DEF chosen
  <2>3. PICK k \in 1 .. n : places[k] = i
    BY <1>1, <2>2 DEF ListsChosen
  <2>4. clean[k] = t
    BY <1>3, <2>1, <2>3
  <2> QED
    BY <1>2, <1>16, <2>4 DEF named, K!ToSet
<1> HIDE DEF At
<1> QED
  BY <1>7, <1>14, <1>15, <1>16

-----------------------------------------------------------------------------
(* Cards: the grid of an owner who has laid out none, and the layout that counts. *)

\* Of finitely many numbers one is the least.
LEMMA LeastUpTo ==
  ASSUME NEW n \in Nat, NEW f \in [0 .. n -> Int]
  PROVE  \E i \in 0 .. n : \A j \in 0 .. n : f[i] <= f[j]
<1> DEFINE Least(k, i) == i \in 0 .. k /\ \A j \in 0 .. k : f[i] <= f[j]
           Reached == {k \in Nat : k <= n => \E i \in 0 .. n : Least(k, i)}
<1>1. \A i \in 0 .. n : f[i] \in Int
  OBVIOUS
<1>2. 0 \in Reached
  <2>1. 0 \in 0 .. n /\ Least(0, 0)
    BY <1>1
  <2> HIDE DEF Least
  <2> QED
    BY <2>1
<1>3. ASSUME NEW k \in Nat, k \in Reached PROVE k + 1 \in Reached
  <2> SUFFICES ASSUME k + 1 <= n PROVE \E i \in 0 .. n : Least(k + 1, i)
    OBVIOUS
  <2>1. PICK i \in 0 .. n : Least(k, i)
    <3> HIDE DEF Least
    <3> QED
      BY <1>3
  <2>2. k + 1 \in 0 .. n /\ \A j \in 0 .. k + 1 : j = k + 1 \/ j \in 0 .. k
    OBVIOUS
  <2>3. CASE f[k + 1] <= f[i]
    <3>1. \A j \in 0 .. k + 1 : f[k + 1] <= f[j]
      <4>1. f[k + 1] \in Int /\ f[i] \in Int /\ \A j \in 0 .. k : f[j] \in Int /\ f[i] <= f[j]
        BY <1>1, <2>1, <2>2
      <4>2. \A j \in 0 .. k : f[k + 1] <= f[j]
        BY <2>3, <4>1
      <4> QED
        BY <2>2, <4>1, <4>2
    <3>2. Least(k + 1, k + 1)
      BY <2>2, <3>1
    <3> HIDE DEF Least
    <3> QED
      BY <2>2, <3>2
  <2>4. CASE ~ (f[k + 1] <= f[i])
    <3>1. Least(k + 1, i)
      BY <1>1, <2>1, <2>2, <2>4
    <3> HIDE DEF Least
    <3> QED
      BY <3>1
  <2> QED
    BY <2>3, <2>4
<1>4. n \in Reached
  <2> HIDE DEF Reached
  <2> QED
    BY <1>2, <1>3, Counting
<1>5. PICK i \in 0 .. n : Least(n, i)
  <2> HIDE DEF Least
  <2> QED
    BY <1>4
<1> QED
  BY <1>5

\* What is kept of a sequence is one of the same kind.
LEMMA KeptSeq ==
  ASSUME NEW set, NEW s \in Seq(set), NEW chosen
  PROVE  K!Keep(s, chosen) \in Seq(set)
<1>1. Listed(s) /\ \A i \in 1 .. Len(s) : s[i] \in set
  BY SeqsAre
<1>2. PICK places : /\ ListsChosen(Len(s), chosen, places)
                    /\ K!Keep(s, chosen) = [i \in 1 .. Len(places) |-> s[places[i]]]
                    /\ Listed(K!Keep(s, chosen))
                    /\ Len(K!Keep(s, chosen)) = Len(places)
  BY <1>1, Kept
<1>3. Len(places) \in Nat /\ \A i \in 1 .. Len(places) : s[places[i]] \in set
  BY <1>1, <1>2 DEF ListsChosen, Listed
<1> QED
  BY <1>2, <1>3

\* The fields a device offers are a list.
LEMMA FieldsOffered ==
  ASSUME NEW d, d.custom \in Seq(STRING)
  PROVE  Offered(K!FieldsFor(d)) /\ Offered(K!DetailFields(d))
<1> DEFINE measured == {i \in DOMAIN K!NativeFields : K!NativeFields[i] \in DOMAIN d.shape}
           own == {i \in DOMAIN d.custom : d.custom[i] \in DOMAIN d.shape \ K!NativeFieldKeys}
           keys == K!Keep(K!NativeFields, measured) \o K!Keep(d.custom, own)
           all == K!FieldsFor(d)
           wanted == {i \in DOMAIN all : all[i].key \notin {"active_app", "active_window"}}
<1>1. K!NativeFields \in Seq(AnyName) /\ d.custom \in Seq(AnyName)
  <2>1. K!NativeFields = [i \in 1 .. 10 |-> K!NativeFields[i]]
    BY DEF K!NativeFields
  <2>2. \A i \in 1 .. 10 : K!NativeFields[i] \in AnyName
    BY <2>1 DEF AnyName
  <2>3. d.custom \in Seq(AnyName)
    BY AnyIsMore
  <2> DEFINE ten == K!NativeFields
  <2>4. ten = [i \in 1 .. 10 |-> ten[i]] /\ \A i \in 1 .. 10 : ten[i] \in AnyName
    BY <2>1, <2>2
  <2> HIDE DEF ten
  <2>5. ten \in Seq(AnyName)
    BY <2>4
  <2> QED
    BY <2>3, <2>5 DEF ten
<1>2. keys \in Seq(AnyName)
  <2> HIDE DEF measured, own
  <2>1. K!Keep(K!NativeFields, measured) \in Seq(AnyName) /\ K!Keep(d.custom, own) \in Seq(AnyName)
    BY <1>1, KeptSeq
  <2> QED
    BY <2>1
<1>3. all = [i \in DOMAIN keys |-> [key |-> keys[i], shape |-> d.shape[keys[i]]]]
  BY DEF K!FieldsFor
<1> HIDE DEF keys, all
<1>4. Len(keys) \in Nat /\ DOMAIN keys = 1 .. Len(keys) /\ \A i \in 1 .. Len(keys) : keys[i] \in AnyName
  BY <1>2
<1>5. Listed(all) /\ Len(all) = Len(keys)
  <2>1. all = [i \in 1 .. Len(keys) |-> all[i]]
    BY <1>3, <1>4
  <2> QED
    BY <1>4, <2>1, ListsAre
<1>6. \A i \in 1 .. Len(all) : all[i].key \in AnyName
  BY <1>3, <1>4, <1>5
<1>7. Offered(all)
  BY <1>5, <1>6 DEF Offered
<1>8. K!DetailFields(d) = K!Keep(all, wanted)
  BY DEF K!DetailFields, all
<1>9. Offered(K!Keep(all, wanted))
  <2> HIDE DEF wanted
  <2>1. PICK places : /\ ListsChosen(Len(all), wanted, places)
                      /\ K!Keep(all, wanted) = [i \in 1 .. Len(places) |-> all[places[i]]]
                      /\ Listed(K!Keep(all, wanted))
                      /\ Len(K!Keep(all, wanted)) = Len(places)
    BY <1>5, Kept
  <2>2. \A i \in 1 .. Len(places) : K!Keep(all, wanted)[i] = all[places[i]] /\ places[i] \in 1 .. Len(all)
    BY <2>1 DEF ListsChosen
  <2> QED
    BY <1>6, <2>1, <2>2 DEF Offered
<1> QED
  BY <1>7, <1>8, <1>9 DEF all

\* A growth is a list of tiles.
LEMMA GrownListed ==
  ASSUME NEW tiles, Listed(tiles), NEW heroes, NEW widen
  PROVE  Listed(K!Grown(tiles, heroes, widen))
<1> DEFINE of(shape) == K!InOrder(Len(tiles), {i \in DOMAIN tiles : tiles[i].shape = shape})
           gauges == of("ring") \o of("number")
           grow(i) == CASE \E k \in DOMAIN gauges : k <= heroes /\ gauges[k] = i -> "2x2"
                        [] widen /\ i = K!Min(K!ToSet(of("text")) \cup {Len(tiles) + 1}) -> "4x1"
                        [] OTHER -> tiles[i].size
           out == [i \in DOMAIN tiles |-> [tiles[i] EXCEPT !.size = grow(i)]]
           sized(size) == K!Keep(out, {i \in DOMAIN out : out[i].size = size})
<1>1. K!Grown(tiles, heroes, widen) = sized("2x2") \o sized("2x1") \o sized("1x1") \o sized("4x1")
  BY DEF K!Grown
<1>2. DOMAIN tiles = 1 .. Len(tiles) /\ Len(tiles) \in Nat
  BY DEF Listed
<1>3. out = [i \in 1 .. Len(tiles) |-> out[i]]
  <2> HIDE DEF grow
  <2> QED
    BY <1>2
<1> HIDE DEF out
<1> DEFINE set == {out[i] : i \in 1 .. Len(tiles)}
<1>4. out \in Seq(set)
  BY <1>2, <1>3
<1> HIDE DEF set
<1>5. ASSUME NEW size PROVE sized(size) \in Seq(set)
  BY <1>4, KeptSeq
<1>6. sized("2x2") \in Seq(set) /\ sized("2x1") \in Seq(set)
      /\ sized("1x1") \in Seq(set) /\ sized("4x1") \in Seq(set)
  BY <1>5
<1> HIDE DEF sized
<1>7. K!Grown(tiles, heroes, widen) \in Seq(set)
  BY <1>1, <1>6
<1> QED
  BY <1>7, SeqsAre

\* The empty cells of a grid are so many.
LEMMA EmptyIsInt ==
  ASSUME NEW sizes, Len(sizes) \in Nat
  PROVE  LET at == K!Pack(sizes, K!DetailRows)
         IN  K!EmptyCells(sizes, at) \in Int /\ K!Cardinality(K!Placed(at)) \in Int
<1> DEFINE at == K!Pack(sizes, K!DetailRows)
           n == Len(sizes)
           used == {rows \in 0 .. K!DetailRows : K!Taken(sizes, at) \subseteq K!Grid(rows)}
<1>1. PICK filled : Stands(sizes, K!DetailRows, n, at, filled)
  BY PackStands
<1> HIDE DEF at
<1>2. DOMAIN at = 1 .. n
  BY <1>1 DEF Stands
<1>3. K!DetailRows \in Nat
  BY DEF K!DetailRows
<1>4. K!Taken(sizes, at) \subseteq K!Grid(K!DetailRows)
  <2>1. \A i \in K!Placed(at) : i \in 1 .. n /\ at[i] # K!NoSpot
    BY <1>2 DEF K!Placed
  <2>2. \A i \in K!Placed(at) : at[i] \in K!Spots(sizes[i], K!DetailRows)
    BY <1>1, <2>1 DEF Stands
  <2> QED
    BY <2>2 DEF K!Taken, K!Spots
<1>5. IsFiniteSet(K!Taken(sizes, at)) /\ Cardinality(K!Taken(sizes, at)) \in Nat
  <2>1. IsFiniteSet(0 .. K!Columns - 1) /\ IsFiniteSet(0 .. K!DetailRows - 1)
    <3>1. 0 \in Int /\ K!Columns - 1 \in Int /\ K!DetailRows - 1 \in Int
      BY DEF K!Columns, K!DetailRows
    <3> QED
      BY <3>1, FS_Interval
  <2>2. IsFiniteSet((0 .. K!Columns - 1) \X (0 .. K!DetailRows - 1))
    BY <2>1, FS_Product
  <2>3. IsFiniteSet(K!Grid(K!DetailRows))
    BY <2>2 DEF K!Grid
  <2>4. IsFiniteSet(K!Taken(sizes, at))
    BY <1>4, <2>3, FS_Subset
  <2> QED
    BY <2>4, FS_CardinalityType
<1>6. K!Min(used) \in Nat
  <2>1. used \subseteq Nat
    BY <1>3
  <2>2. used # {}
    BY <1>3, <1>4
  <2> HIDE DEF used
  <2> QED
    BY <2>1, <2>2, FirstOf DEF K!Min
<1>7. K!EmptyCells(sizes, at) = K!Min(used) * K!Columns - K!Cardinality(K!Taken(sizes, at))
  BY DEF K!EmptyCells
<1>8. K!EmptyCells(sizes, at) \in Int
  <2> HIDE DEF used
  <2> QED
    BY <1>5, <1>6, <1>7, CardsCardinality DEF K!Columns
<1>9. K!Cardinality(K!Placed(at)) \in Int
  <2>1. K!Placed(at) \in SUBSET (1 .. n) /\ IsFiniteSet(1 .. n)
    BY <1>2, FS_Interval DEF K!Placed
  <2>2. IsFiniteSet(K!Placed(at))
    BY <2>1, FS_Subset
  <2> QED
    BY <2>2, FS_CardinalityType, CardsCardinality
<1> QED
  BY <1>8, <1>9 DEF at

\* The standard grid is a list of tiles.
LEMMA StandardListed ==
  ASSUME NEW offer, Offered(offer)
  PROVE  Listed(K!StandardDetail(offer))
<1> DEFINE tiles == [i \in DOMAIN offer |-> K!StandardTile(offer[i])]
           candidates == {[heroes |-> h, widen |-> w, tiles |-> K!Grown(tiles, h, w)] :
                             h \in 0 .. K!MaxHeroes, w \in BOOLEAN}
           sizes(c) == [i \in DOMAIN c.tiles |-> c.tiles[i].size]
           at(c) == K!Pack(sizes(c), K!DetailRows)
           score(c) == 10 * (Len(tiles) + 1) * K!EmptyCells(sizes(c), at(c))
                       + 10 * (Len(tiles) - K!Cardinality(K!Placed(at(c))))
                       + 2 * c.heroes + (IF c.widen THEN 3 ELSE 0)
           best(c) == \A o \in candidates : score(c) <= score(o)
           choice == CHOOSE c \in candidates : best(c)
<1>1. DOMAIN offer = 1 .. Len(offer) /\ Len(offer) \in Nat
  BY DEF Offered, Listed
<1>2. Listed(tiles) /\ Len(tiles) = Len(offer)
  <2>1. tiles = [i \in 1 .. Len(offer) |-> tiles[i]]
    BY <1>1
  <2> QED
    BY <1>1, <2>1, ListsAre
<1>3. K!StandardDetail(offer) = choice.tiles
  BY DEF K!StandardDetail
<1> HIDE DEF tiles
<1>4. ASSUME NEW c \in candidates
      PROVE  c.heroes \in 0 .. K!MaxHeroes /\ c.widen \in BOOLEAN /\ Listed(c.tiles)
  BY <1>2, GrownListed
<1>5. ASSUME NEW c \in candidates PROVE score(c) \in Int
  <2>1. Len(sizes(c)) \in Nat
    <3>1. DOMAIN c.tiles = 1 .. Len(c.tiles) /\ Len(c.tiles) \in Nat
      BY <1>4 DEF Listed
    <3>2. sizes(c) = [i \in 1 .. Len(c.tiles) |-> sizes(c)[i]]
      BY <3>1
    <3> HIDE DEF sizes
    <3> QED
      BY <3>1, <3>2, ListsAre
  <2> HIDE DEF sizes
  <2>2. K!EmptyCells(sizes(c), at(c)) \in Int /\ K!Cardinality(K!Placed(at(c))) \in Int
    BY <2>1, EmptyIsInt
  <2>3. c.heroes \in Int /\ Len(tiles) \in Int
    BY <1>1, <1>2, <1>4 DEF K!MaxHeroes
  <2>4. 10 * (Len(tiles) + 1) * K!EmptyCells(sizes(c), at(c)) \in Int
    BY <2>2, <2>3
  <2>5. 10 * (Len(tiles) - K!Cardinality(K!Placed(at(c)))) \in Int
    BY <2>2, <2>3
  <2>6. 2 * c.heroes \in Int /\ (IF c.widen THEN 3 ELSE 0) \in Int
    BY <2>3
  <2> HIDE DEF at
  <2> DEFINE holes == 10 * (Len(tiles) + 1) * K!EmptyCells(sizes(c), at(c))
             outside == 10 * (Len(tiles) - K!Cardinality(K!Placed(at(c))))
             grow == 2 * c.heroes
             wide == IF c.widen THEN 3 ELSE 0
  <2>7. score(c) = holes + outside + grow + wide
    OBVIOUS
  <2>8. holes \in Int /\ outside \in Int /\ grow \in Int /\ wide \in Int
    BY <2>4, <2>5, <2>6
  <2> HIDE DEF holes, outside, grow, wide, score
  <2> QED
    BY <2>7, <2>8
<1> DEFINE tried(i) == [heroes |-> i \div 2, widen |-> i % 2 = 1,
                        tiles |-> K!Grown(tiles, i \div 2, i % 2 = 1)]
           f == [i \in 0 .. 7 |-> score(tried(i))]
<1>6. \A i \in 0 .. 7 : tried(i) \in candidates
  <2>1. \A h \in 0 .. K!MaxHeroes, w \in BOOLEAN :
           [heroes |-> h, widen |-> w, tiles |-> K!Grown(tiles, h, w)] \in candidates
    OBVIOUS
  <2>2. \A i \in 0 .. 7 : i \div 2 \in 0 .. K!MaxHeroes
    BY DEF K!MaxHeroes
  <2> HIDE DEF candidates
  <2> QED
    BY <2>1, <2>2, Zenon
<1>7. \A c \in candidates : \E i \in 0 .. 7 : c = tried(i)
  <2> SUFFICES ASSUME NEW h \in 0 .. K!MaxHeroes, NEW w \in BOOLEAN
               PROVE  \E i \in 0 .. 7 : i \div 2 = h /\ (i % 2 = 1) = w
    OBVIOUS
  <2>1. h \in 0 .. 3
    BY DEF K!MaxHeroes
  <2>2. CASE w
    <3>1. 2 * h + 1 \in 0 .. 7 /\ (2 * h + 1) \div 2 = h /\ (2 * h + 1) % 2 = 1
      BY <2>1
    <3> QED
      BY <2>2, <3>1
  <2>3. CASE ~ w
    <3>1. 2 * h \in 0 .. 7 /\ (2 * h) \div 2 = h /\ (2 * h) % 2 = 0
      BY <2>1
    <3> QED
      BY <2>3, <3>1
  <2> QED
    BY <2>2, <2>3
<1> HIDE DEF candidates, score, tried
<1>8. f \in [0 .. 7 -> Int]
  BY <1>5, <1>6
<1>9. PICK i \in 0 .. 7 : \A j \in 0 .. 7 : f[i] <= f[j]
  <2> HIDE DEF f
  <2> QED
    BY <1>8, LeastUpTo
<1>10. best(tried(i))
  BY <1>7, <1>9
<1>11. choice \in candidates
  <2> HIDE DEF best
  <2> QED
    BY <1>6, <1>10
<1> QED
  BY <1>3, <1>4, <1>11

\* The layout that counts is one that is sent.
LEMMA LayoutSent ==
  ASSUME NEW n \in Nat, NEW sorted, DOMAIN sorted = 1 .. n,
         \A i \in 1 .. n : sorted[i].layout # NoLayout => sorted[i].layout.updated \in Nat,
         K!Layout(sorted) # NoLayout
  PROVE  \E i \in 1 .. n : sorted[i].layout # NoLayout /\ K!Layout(sorted) = sorted[i].layout
<1> DEFINE with == {i \in DOMAIN sorted : sorted[i].layout # NoLayout}
           latest == {i \in with :
                        \A j \in with : sorted[j].layout.updated <= sorted[i].layout.updated}
           f == [i \in 0 .. n |-> IF i \in with THEN 0 - sorted[i].layout.updated ELSE 1]
<1>1. with # {} /\ K!Layout(sorted) = sorted[K!Min(latest)].layout
  BY DEF K!Layout
<1>2. \A i \in with : i \in 1 .. n /\ i \in 0 .. n /\ sorted[i].layout.updated \in Nat
  OBVIOUS
<1>3. f \in [0 .. n -> Int]
  BY <1>2
<1>4. PICK i \in 0 .. n : \A j \in 0 .. n : f[i] <= f[j]
  <2> HIDE DEF f
  <2> QED
    BY <1>3, LeastUpTo
<1>5. \A j \in with : f[j] = 0 - sorted[j].layout.updated /\ j \in 0 .. n
  BY <1>2
<1>6. i \in with
  <2> SUFFICES ASSUME i \notin with PROVE FALSE
    OBVIOUS
  <2>1. PICK j \in with : TRUE
    BY <1>1
  <2>2. f[i] = 1
    BY <2>1
  <2> HIDE DEF f, with
  <2> QED
    BY <1>2, <1>4, <1>5, <2>1, <2>2
<1>7. i \in latest
  <2>1. ASSUME NEW j \in with PROVE sorted[j].layout.updated <= sorted[i].layout.updated
    <3> HIDE DEF f, with
    <3> QED
      BY <1>2, <1>4, <1>5, <1>6
  <2> HIDE DEF with
  <2> QED
    BY <1>6, <2>1
<1>8. K!Min(latest) \in latest
  <2>1. latest \subseteq Nat
    BY <1>2
  <2> HIDE DEF latest
  <2> QED
    BY <1>7, <2>1, FirstOf DEF K!Min
<1> QED
  BY <1>1, <1>2, <1>8

\* What the devices that speak for the account send is as it should be.
LEMMA SortedDevices ==
  ASSUME NEW all \in Accounts, NEW devs \in K!Orders(all)
  PROVE  LET n == Cardinality(Live(all))
             sorted == K!SortDevices(devs)
         IN  /\ n \in Nat /\ DOMAIN sorted = 1 .. n
             /\ n = 0 => sorted = <<>>
             /\ \A i \in 1 .. n :
                  /\ sorted[i].custom \in Seq(STRING)
                  /\ sorted[i].layout # NoLayout =>
                       /\ sorted[i].layout.updated \in Nat
                       /\ sorted[i].layout.row \in Seq(AnyTile)
                       /\ sorted[i].layout.detail \in Seq(AnyTile)
<1> DEFINE n == Cardinality(Live(all))
           sorted == K!SortDevices(devs)
<1>1. n \in Nat
  BY LiveTold, FS_CardinalityType DEF Told
<1>2. sorted \in [1 .. n -> Live(all)]
  BY SortsLive DEF Lined
<1> HIDE DEF n, sorted
<1>3. n = 0 => sorted = <<>>
  <2>1. ASSUME n = 0 PROVE sorted \in Seq(Live(all)) /\ Len(sorted) = 0
    BY <1>2, <2>1
  <2> QED
    BY <2>1
<1>4. ASSUME NEW i \in 1 .. n
      PROVE  /\ sorted[i].custom \in Seq(STRING)
             /\ sorted[i].layout # NoLayout =>
                  /\ sorted[i].layout.updated \in Nat
                  /\ sorted[i].layout.row \in Seq(AnyTile)
                  /\ sorted[i].layout.detail \in Seq(AnyTile)
  <2>1. sorted[i] \in all
    BY <1>2 DEF Live
  <2> DEFINE d == sorted[i]
  <2> HIDE DEF d
  <2>2. /\ d.custom \in Seq(STRING)
        /\ d.layout # NoLayout => /\ d.layout.updated \in Nat
                                  /\ {d.layout.row, d.layout.detail} \subseteq Seq(K!LaidTile)
    <3>1. d \in all
      BY <2>1 DEF d
    <3> QED
      BY <3>1, DevicesAssumption DEF K!AccountsAssumption
  <2>3. d.layout # NoLayout => d.layout.row \in Seq(AnyTile) /\ d.layout.detail \in Seq(AnyTile)
    BY <2>2, AnyIsMore
  <2> QED
    BY <2>2, <2>3 DEF d
<1> QED
  BY <1>1, <1>2, <1>3, <1>4 DEF n, sorted

\* An empty surface is sound.
LEMMA NothingSound == \A rows : K!Sound(<<>>, rows)
  BY DEF K!Sound

\* A card holds what fits, in its place, for whatever the devices send.
LEMMA CardIsSound ==
  ASSUME NEW all \in Accounts, devices \in K!Orders(all), card = K!Card(devices)
  PROVE  CardHolds
<1> DEFINE sorted == K!SortDevices(devices)
           n == Cardinality(Live(all))
           chosen == K!Layout(sorted)
           offer == K!DetailFields(sorted[1])
           row == IF chosen = NoLayout THEN <<>> ELSE K!Expand(chosen.row, offer)
           own == IF chosen = NoLayout THEN <<>> ELSE K!Expand(chosen.detail, offer)
           detail == IF own = <<>> THEN K!StandardDetail(offer) ELSE own
           free == K!Grid(K!DetailRows) \ UNION {K!Cells(t.at, t.tile.size) : t \in K!ToSet(card.detail)}
           Fits == \A t \in K!ToSet(own) :
                     K!HasData(t, sorted) /\ (\A there \in K!ToSet(card.detail) : there.tile # t) =>
                       \A at \in 0 .. K!Columns * K!DetailRows - 1 : ~ (K!Cells(at, t.size) \subseteq free)
           Names == \A t \in K!ToSet(chosen.detail) : K!Sanitize(t) /\ t.field # K!Wildcard =>
                      K!Count(own, t.field) <= K!Count(chosen.detail, t.field)
<1>1. /\ n \in Nat /\ DOMAIN sorted = 1 .. n
      /\ n = 0 => sorted = <<>>
      /\ \A i \in 1 .. n :
           /\ sorted[i].custom \in Seq(STRING)
           /\ sorted[i].layout # NoLayout =>
                /\ sorted[i].layout.updated \in Nat
                /\ sorted[i].layout.row \in Seq(AnyTile)
                /\ sorted[i].layout.detail \in Seq(AnyTile)
  BY SortedDevices
<1>2. card = IF sorted = <<>> \/ sorted[1].hides THEN K!Blank
             ELSE [row |-> K!Place(row, K!RowRows, sorted),
                   detail |-> K!Place(detail, K!DetailRows, sorted)]
  BY DEF K!Card
<1>3. SUFFICES /\ K!Sound(card.row, K!RowRows) /\ K!Sound(card.detail, K!DetailRows)
               /\ sorted # <<>> /\ chosen # NoLayout /\ ~ sorted[1].hides => Fits /\ Names
  BY DEF CardHolds, K!CardHolds
<1> HIDE DEF sorted, n
<1>4. CASE sorted = <<>> \/ sorted[1].hides
  <2>1. card.row = <<>> /\ card.detail = <<>>
    BY <1>2, <1>4 DEF K!Blank
  <2> QED
    BY <1>4, <2>1, NothingSound
<1>5. CASE sorted # <<>> /\ ~ sorted[1].hides
  <2>1. 1 \in 1 .. n
    BY <1>1, <1>5
  <2>2. Offered(offer)
    BY <1>1, <2>1, FieldsOffered
  <2> HIDE DEF offer, chosen
  <2>3. chosen # NoLayout => chosen.row \in Seq(AnyTile) /\ chosen.detail \in Seq(AnyTile)
    <3> SUFFICES ASSUME chosen # NoLayout
                 PROVE  chosen.row \in Seq(AnyTile) /\ chosen.detail \in Seq(AnyTile)
      OBVIOUS
    <3>1. PICK i \in 1 .. n : sorted[i].layout # NoLayout /\ chosen = sorted[i].layout
      BY <1>1, LayoutSent DEF chosen
    <3> QED
      BY <1>1, <3>1
  <2>4. row \in Seq(AnyTile) /\ own \in Seq(AnyTile)
    BY <2>2, <2>3, ExpandHolds
  <2>5. chosen # NoLayout => own = K!Expand(chosen.detail, offer)
    OBVIOUS
  <2> HIDE DEF row, own
  <2>6. Listed(row) /\ Listed(own) /\ Listed(detail)
    <3>1. Listed(row) /\ Listed(own)
      BY <2>4, SeqsAre
    <3>2. Listed(K!StandardDetail(offer))
      BY <2>2, StandardListed
    <3> QED
      BY <3>1, <3>2
  <2>7. card.row = K!Place(row, K!RowRows, sorted) /\ card.detail = K!Place(detail, K!DetailRows, sorted)
    BY <1>2, <1>5
  <2> HIDE DEF detail
  <2>8. /\ K!Sound(card.row, K!RowRows) /\ K!Sound(card.detail, K!DetailRows)
        /\ Listed(card.detail)
        /\ \A i \in 1 .. Len(detail) :
             K!HasData(detail[i], sorted) /\ (\A k \in 1 .. Len(card.detail) : card.detail[k].tile # detail[i]) =>
               \A s \in K!Spots(detail[i].size, K!DetailRows) : \E c \in K!Cells(s, detail[i].size) :
                 \E k \in 1 .. Len(card.detail) :
                   c \in K!Cells(card.detail[k].at, card.detail[k].tile.size)
    <3> DEFINE laid(tiles, rows) == K!Place(tiles, rows, sorted)
    <3>1. K!Sound(laid(row, K!RowRows), K!RowRows)
      BY <2>6, PlaceHolds
    <3>2. /\ K!Sound(laid(detail, K!DetailRows), K!DetailRows)
          /\ Listed(laid(detail, K!DetailRows))
          /\ \A i \in 1 .. Len(detail) :
               /\ K!HasData(detail[i], sorted)
               /\ \A k \in 1 .. Len(laid(detail, K!DetailRows)) :
                    laid(detail, K!DetailRows)[k].tile # detail[i]
               => \A s \in K!Spots(detail[i].size, K!DetailRows) :
                    \E c \in K!Cells(s, detail[i].size) :
                      \E k \in 1 .. Len(laid(detail, K!DetailRows)) :
                        c \in K!Cells(laid(detail, K!DetailRows)[k].at,
                                     laid(detail, K!DetailRows)[k].tile.size)
      BY <2>6, PlaceHolds
    <3>3. card.row = laid(row, K!RowRows) /\ card.detail = laid(detail, K!DetailRows)
      BY <2>7
    <3> HIDE DEF laid
    <3> QED
      BY <3>1, <3>2, <3>3, Zenon
  <2>9. Fits
    <3> SUFFICES ASSUME NEW t \in K!ToSet(own), K!HasData(t, sorted),
                        \A there \in K!ToSet(card.detail) : there.tile # t,
                        NEW at \in 0 .. K!Columns * K!DetailRows - 1,
                        K!Cells(at, t.size) \subseteq free
                 PROVE  FALSE
      OBVIOUS
    <3>1. DOMAIN own = 1 .. Len(own) /\ DOMAIN card.detail = 1 .. Len(card.detail)
      BY <2>6, <2>8 DEF Listed
    <3>2. PICK i \in 1 .. Len(own) : own[i] = t
      BY <3>1 DEF K!ToSet
    <3>3. own # <<>>
      BY <3>1, <3>2
    <3>4. detail = own
      BY <3>3 DEF detail
    <3>5. \A k \in 1 .. Len(card.detail) : card.detail[k] \in K!ToSet(card.detail)
      BY <3>1 DEF K!ToSet
    <3>6. at \in K!Spots(t.size, K!DetailRows)
      BY DEF K!Spots
    <3>7. PICK c \in K!Cells(at, t.size) :
             \E k \in 1 .. Len(card.detail) :
               c \in K!Cells(card.detail[k].at, card.detail[k].tile.size)
      <4>1. i \in 1 .. Len(detail) /\ detail[i] = t
        BY <3>2, <3>4
      <4>2. \A k \in 1 .. Len(card.detail) : card.detail[k].tile # detail[i]
        BY <3>5, <4>1
      <4>3. K!HasData(detail[i], sorted)
        BY <4>1
      <4>4. \A s \in K!Spots(detail[i].size, K!DetailRows) : \E c \in K!Cells(s, detail[i].size) :
               \E k \in 1 .. Len(card.detail) :
                 c \in K!Cells(card.detail[k].at, card.detail[k].tile.size)
        BY <2>8, <4>1, <4>2, <4>3
      <4> QED
        BY <3>6, <4>1, <4>4
    <3>8. c \in UNION {K!Cells(o.at, o.tile.size) : o \in K!ToSet(card.detail)}
      BY <3>5, <3>7
    <3> QED
      BY <3>7, <3>8
  <2>10. chosen # NoLayout => Names
    BY <2>2, <2>3, <2>5, ExpandHolds
  <2> HIDE DEF Fits, Names
  <2> QED
    BY <2>8, <2>9, <2>10
<1> QED
  BY <1>4, <1>5

\* For any devices an account may have, whatever layouts they send: every tile of a
\* card stands on its grid beside the others, one that is left out does not fit in what
\* is left, and a wildcard repeats no field a tile names (expandWildcards, pack and
\* place of cardlayout.go).
THEOREM CardsCardHolds == K!Spec => []CardHolds
<1>1. CardsInv => CardHolds
  BY CardIsSound DEF CardsInv
<1> QED
  BY <1>1, CardsInvHolds, PTL
=============================================================================
