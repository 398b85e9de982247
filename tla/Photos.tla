------------------------------- MODULE Photos -------------------------------
(***************************************************************************)
(* The photo an account shares with its room: stored by the server as a    *)
(* file and a row (server/src/app/modules/photo), announced over the       *)
(* websocket, and fetched and cached by a client that shows it (client/    *)
(* internal/app/app.go, client/internal/photo).                            *)
(*                                                                         *)
(* One sharing account with several devices, one client.  The photos are   *)
(* numbered in the order of their created_at; photo n is the id n and the  *)
(* bytes n.  The client is a member of the room throughout.                *)
(***************************************************************************)
EXTENDS Integers

CONSTANTS Poster,     \* slots for the POST requests in flight
          Fetcher,    \* the goroutines of the client that run cachePhoto
          Poller,     \* the one that polls; the others serve announcements
          MaxPhotos,  \* bound on the photos posted
          MaxFailures \* bound on the requests that fail and the client's restarts

PollerAssumption == Poller \in Fetcher
MaxPhotosAssumption == MaxPhotos \in Nat
MaxFailuresAssumption == MaxFailures \in Nat

VARIABLES file,    \* the account's file on the server: whose bytes
          row,     \* the account's row in photo_shares: which id
          posted,  \* how many photos there have been
          expired, \* the photos up to this one have expired
          post,    \* the POST requests: the photo and what is to be done with it
          wire,    \* the announcements the client has not read
          fetch,   \* what each fetcher is at
          disk,    \* the client's cache: by id, the bytes of the file (0: no file)
          shown,   \* photo.Store: the id that is shown (0: none)
          failures

serverVars == <<file, row, posted, post>>
clientVars == <<fetch, disk, shown>>
vars == <<file, row, posted, expired, post, wire, fetch, disk, shown, failures>>

Photo == 1 .. MaxPhotos
Partial == -1  \* the bytes of a file whose writing was cut short
Ready == [step |-> "ready", id |-> 0, bytes |-> 0]

TypeOK ==
    /\ file \in 0 .. posted
    /\ row \in 0 .. posted
    /\ posted \in 0 .. MaxPhotos
    /\ expired \in 0 .. posted
    /\ post \in [Poster -> [step : {"none", "row", "announce"}, id : 0 .. MaxPhotos]]
    /\ wire \in SUBSET Photo
    /\ fetch \in [Fetcher -> [step : {"ready", "stat", "select", "read", "write", "prune", "update"},
                              id : 0 .. MaxPhotos, bytes : 0 .. MaxPhotos]]
    /\ disk \in [Photo -> Partial .. MaxPhotos]
    /\ shown \in 0 .. MaxPhotos
    /\ failures \in 0 .. MaxFailures

NoPost == [step |-> "none", id |-> 0]

Init ==
    /\ file = 0 /\ row = 0 /\ posted = 0 /\ expired = 0
    /\ post = [p \in Poster |-> NoPost]
    /\ wire = {}
    /\ fetch = [f \in Fetcher |-> Ready]
    /\ disk = [n \in Photo |-> 0]
    /\ shown = 0
    /\ failures = 0

Failure == failures < MaxFailures /\ failures' = failures + 1

-----------------------------------------------------------------------------
\* The server: PostPhoto.

\* Mutant: the row is written before the file.
SaveFileLater(p) ==
    /\ post[p] = NoPost
    /\ posted < MaxPhotos
    /\ posted' = posted + 1
    /\ row' = posted + 1
    /\ post' = [post EXCEPT ![p] = [step |-> "row", id |-> posted + 1]]
    /\ UNCHANGED <<file, expired, wire, clientVars, failures>>

\* Mutant: a post gives way to one that is under way.
SaveFileUnlessBusy(p) ==
    /\ post[p] = NoPost
    /\ posted < MaxPhotos
    /\ posted' = posted + 1
    /\ file' = IF \E q \in Poster : post[q].step = "row" THEN file ELSE posted + 1
    /\ post' = [post EXCEPT ![p] = [step |-> "row", id |-> posted + 1]]
    /\ UNCHANGED <<row, expired, wire, clientVars, failures>>

\* PhotoStore.save up to the first await: an id, and the account's one file is
\* replaced.
SaveFile(p) ==
    /\ post[p] = NoPost
    /\ posted < MaxPhotos
    /\ posted' = posted + 1
    /\ file' = posted + 1
    /\ post' = [post EXCEPT ![p] = [step |-> "row", id |-> posted + 1]]
    /\ UNCHANGED <<row, expired, wire, clientVars, failures>>

\* The upsert.
SaveRow(p) ==
    /\ post[p].step = "row"
    /\ row' = post[p].id
    /\ post' = [post EXCEPT ![p].step = "announce"]
    /\ UNCHANGED <<file, posted, expired, wire, clientVars, failures>>

\* The upsert fails: the file stays.
SaveRowFails(p) ==
    /\ post[p].step = "row"
    /\ Failure
    /\ post' = [post EXCEPT ![p] = NoPost]
    /\ UNCHANGED <<file, row, posted, expired, wire, clientVars>>

\* publish_photo; the announcement is lost if the client is not connected.
Announce(p) ==
    /\ post[p].step = "announce"
    /\ wire' \in {wire, wire \cup {post[p].id}}
    /\ post' = [post EXCEPT ![p] = NoPost]
    /\ UNCHANGED <<file, row, posted, expired, clientVars, failures>>

\* expires_at passes; photos expire in the order they were made.
Expire ==
    /\ expired < posted
    /\ expired' = expired + 1
    /\ UNCHANGED <<serverVars, wire, clientVars, failures>>

-----------------------------------------------------------------------------
\* The client: cachePhoto in several goroutines.

At(f, step) == fetch[f].step = step
Go(f, step) == fetch' = [fetch EXCEPT ![f].step = step]
Leave(f) == fetch' = [fetch EXCEPT ![f] = Ready]
Start(f, n) == fetch' = [fetch EXCEPT ![f] = [step |-> "stat", id |-> n, bytes |-> 0]]

\* handlePhotoStatus.  What has expired is not looked at.
Announced(f, n) ==
    /\ At(f, "ready") /\ f # Poller
    /\ n \in wire
    /\ wire' = wire \ {n}
    /\ IF n > expired THEN Start(f, n) ELSE UNCHANGED fetch
    /\ UNCHANGED <<serverVars, expired, disk, shown, failures>>

\* refreshPhotos: the room's list, at startup and every photoPoll.
Poll ==
    /\ At(Poller, "ready")
    /\ IF row > expired THEN Start(Poller, row) ELSE UNCHANGED fetch
    /\ UNCHANGED <<serverVars, expired, wire, disk, shown, failures>>

\* Mutant: what is cached is taken to be shown.
StatLeaves(f) ==
    /\ At(f, "stat")
    /\ IF disk[fetch[f].id] # 0 THEN Leave(f) ELSE Go(f, "select")
    /\ UNCHANGED <<serverVars, expired, wire, disk, shown, failures>>

\* os.Stat: a file that is there is not fetched.
Stat(f) ==
    /\ At(f, "stat")
    /\ Go(f, IF disk[fetch[f].id] # 0 THEN "update" ELSE "select")
    /\ UNCHANGED <<serverVars, expired, wire, disk, shown, failures>>

\* FetchPhotoBlob, on the server: read_blob looks the row up ...
Select(f) ==
    /\ At(f, "select")
    /\ IF row = fetch[f].id /\ row > expired THEN Go(f, "read") ELSE Leave(f)
    /\ UNCHANGED <<serverVars, expired, wire, disk, shown, failures>>

\* ... gives its connection back, and reads the file.
Read(f) ==
    /\ At(f, "read")
    /\ fetch' = [fetch EXCEPT ![f].step = "write", ![f].bytes = file]
    /\ UNCHANGED <<serverVars, expired, wire, disk, shown, failures>>

FetchFails(f) ==
    /\ fetch[f].step \in {"select", "read"}
    /\ Failure
    /\ Leave(f)
    /\ UNCHANGED <<serverVars, expired, wire, disk, shown>>

WriteFile(f) ==
    /\ At(f, "write")
    /\ disk' = [disk EXCEPT ![fetch[f].id] = fetch[f].bytes]
    /\ Go(f, "prune")
    /\ UNCHANGED <<serverVars, expired, wire, shown, failures>>

\* prunePhotoFiles: the account's other files go, older or not.
Prune(f) ==
    /\ At(f, "prune")
    /\ disk' = [n \in Photo |-> IF n = fetch[f].id THEN disk[n] ELSE 0]
    /\ Go(f, "update")
    /\ UNCHANGED <<serverVars, expired, wire, shown, failures>>

\* Store.Update: the last to come is shown.
Update(f) ==
    /\ At(f, "update")
    /\ shown' = fetch[f].id
    /\ Leave(f)
    /\ UNCHANGED <<serverVars, expired, wire, disk, failures>>

\* Store.Snapshot: what has expired is not shown any more.
Snapshot ==
    /\ shown # 0 /\ shown <= expired
    /\ shown' = 0
    /\ UNCHANGED <<serverVars, expired, wire, fetch, disk, failures>>

\* The client starts anew: its files are still there, those it was writing cut
\* short.
RestartClient ==
    /\ Failure
    /\ \E torn \in SUBSET {fetch[f].id : f \in {g \in Fetcher : At(g, "write")}} :
          disk' = [n \in Photo |-> IF n \in torn THEN Partial ELSE disk[n]]
    /\ fetch' = [f \in Fetcher |-> Ready]
    /\ shown' = 0
    /\ wire' = {}
    /\ UNCHANGED <<serverVars, expired>>

Serve(p) == SaveRow(p) \/ SaveRowFails(p) \/ Announce(p)

Cache(f) ==
    \/ Stat(f) \/ Select(f) \/ Read(f) \/ FetchFails(f)
    \/ WriteFile(f) \/ Prune(f) \/ Update(f)

Next ==
    \/ \E p \in Poster : SaveFile(p) \/ Serve(p)
    \/ \E f \in Fetcher : Cache(f) \/ \E n \in Photo : Announced(f, n)
    \/ Poll \/ Expire \/ Snapshot \/ RestartClient

Spec == Init /\ [][Next]_vars

\* Requests are answered, goroutines run, and the client polls.
Fairness ==
    /\ \A p \in Poster : WF_vars(Serve(p))
    /\ \A f \in Fetcher : WF_vars(Cache(f)) /\ WF_vars(\E n \in Photo : Announced(f, n))
    /\ WF_vars(Poll)
    /\ WF_vars(Snapshot)

FairSpec == Spec /\ Fairness
=============================================================================
