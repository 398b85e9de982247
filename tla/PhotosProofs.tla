---------------------------- MODULE PhotosProofs ----------------------------
(***************************************************************************)
(* A photo that is listed is served, and an id never gets older bytes, for *)
(* any number of posts, fetches, failures and restarts.                    *)
(*                                                                         *)
(* Neither holds by itself.  The row is written some steps after the file, *)
(* by a post that does not look again, so what keeps the row behind the    *)
(* file is that every post in flight has written its file already          *)
(* (PostsAreServed).  A fetch selects the row, and reads the file some     *)
(* steps later, and writes it later still; what keeps it from bringing     *)
(* older bytes is that files only get newer, so each stage remembers a     *)
(* bound of the one before (FetchesAreNew).                                *)
(***************************************************************************)
EXTENDS PhotosProperties, TLAPS

\* A post that is under way has written its file.
PostsAreServed == \A p \in Poster : post[p].step # "none" => post[p].id \in 1 .. file

\* A fetch past its SELECT finds, and has read, a file as new as its id.
FetchesAreNew ==
    \A f \in Fetcher :
        /\ At(f, "read") => fetch[f].id <= file
        /\ At(f, "write") => fetch[f].id <= fetch[f].bytes
        /\ fetch[f].step # "ready" => fetch[f].id \in Photo

IInv == TypeOK /\ ListedIsServed /\ NeverOlder /\ PostsAreServed /\ FetchesAreNew

LEMMA InitInv == ASSUME MaxPhotosAssumption, MaxFailuresAssumption, Init PROVE IInv
  BY DEF Init, IInv, TypeOK, ListedIsServed, NeverOlder, PostsAreServed, FetchesAreNew, NoPost,
         Ready, Photo, At, Partial, MaxPhotosAssumption, MaxFailuresAssumption

\* Types are preserved by every step.
LEMMA TypeInductive ==
  ASSUME PollerAssumption, MaxPhotosAssumption, MaxFailuresAssumption,
         TypeOK, PostsAreServed, [Next]_vars
  PROVE  TypeOK'
<1>a. file \in 0 .. MaxPhotos /\ row \in 0 .. MaxPhotos
  BY DEF TypeOK, MaxPhotosAssumption
<1>b. \A n \in Photo : n \in 0 .. MaxPhotos
  BY DEF Photo
<1>c. 0 .. MaxPhotos \subseteq Partial .. MaxPhotos /\ Partial \in Partial .. MaxPhotos
  BY DEF Partial, MaxPhotosAssumption
<1>d. 0 \in 0 .. MaxPhotos
  BY DEF MaxPhotosAssumption
<1> USE <1>a, <1>b, <1>c, <1>d
    DEF TypeOK, At, Go, Leave, Ready, NoPost, MaxPhotosAssumption, MaxFailuresAssumption,
        serverVars, clientVars
<1>1. ASSUME NEW p \in Poster, SaveFile(p) PROVE TypeOK'
  BY SMTT(30), <1>1 DEF SaveFile
<1>2. ASSUME NEW p \in Poster, SaveRow(p) PROVE TypeOK'
  <2>1. post[p].id \in 0 .. posted
    BY <1>2 DEF SaveRow, PostsAreServed
  <2>2. post' \in [Poster -> [step : {"none", "row", "announce"}, id : 0 .. MaxPhotos]]
    BY <1>2 DEF SaveRow
  <2> QED BY <1>2, <2>1, <2>2 DEF SaveRow
<1>3. ASSUME NEW p \in Poster, SaveRowFails(p) \/ Announce(p) PROVE TypeOK'
  <2>1. post[p].step # "none" => post[p].id \in Photo
    BY DEF PostsAreServed, Photo
  <2> QED BY <1>3, <2>1 DEF SaveRowFails, Announce, Failure
<1>4. ASSUME NEW f \in Fetcher, NEW n \in Photo, Announced(f, n) PROVE TypeOK'
  BY SMTT(30), <1>4 DEF Announced, Start
<1>5. ASSUME NEW f \in Fetcher, Stat(f) \/ Select(f) \/ Read(f) PROVE TypeOK'
  <2>1. fetch' \in [Fetcher -> [step : {"ready", "stat", "select", "read", "write", "prune", "update"},
                                id : 0 .. MaxPhotos, bytes : 0 .. MaxPhotos]]
    <3>1. CASE Stat(f)
      BY SMTT(30), <3>1 DEF Stat
    <3>2. CASE Select(f)
      BY <3>2 DEF Select
    <3>3. CASE Read(f)
      <4>1. [fetch[f] EXCEPT !.step = "write", !.bytes = file]
               \in [step : {"ready", "stat", "select", "read", "write", "prune", "update"},
                   id : 0 .. MaxPhotos, bytes : 0 .. MaxPhotos]
        OBVIOUS
      <4>2. fetch' = [fetch EXCEPT ![f] = [fetch[f] EXCEPT !.step = "write", !.bytes = file]]
        BY <3>3 DEF Read
      <4> QED BY <4>1, <4>2
    <3> QED BY <1>5, <3>1, <3>2, <3>3
  <2> QED BY <1>5, <2>1 DEF Stat, Select, Read
<1>6. ASSUME NEW f \in Fetcher, WriteFile(f) \/ Prune(f) \/ Update(f) PROVE TypeOK'
  <2>1. disk' \in [Photo -> Partial .. MaxPhotos]
    BY <1>6 DEF WriteFile, Prune, Update
  <2>2. fetch' \in [Fetcher -> [step : {"ready", "stat", "select", "read", "write", "prune", "update"},
                                id : 0 .. MaxPhotos, bytes : 0 .. MaxPhotos]]
    BY <1>6 DEF WriteFile, Prune, Update
  <2>3. shown' \in 0 .. MaxPhotos
    BY <1>6 DEF WriteFile, Prune, Update
  <2> QED BY <1>6, <2>1, <2>2, <2>3 DEF WriteFile, Prune, Update
<1>7. ASSUME NEW f \in Fetcher, FetchFails(f) PROVE TypeOK'
  BY <1>7 DEF FetchFails, Failure
<1>8. CASE Poll
  BY <1>8 DEF Poll, Start, PollerAssumption
<1>9. CASE Expire \/ Snapshot
  BY <1>9 DEF Expire, Snapshot
<1>10. CASE RestartClient
  BY <1>10 DEF RestartClient, Failure
<1>11. CASE UNCHANGED vars
  BY <1>11 DEF vars
<1> QED
  BY <1>1, <1>2, <1>3, <1>4, <1>5, <1>6, <1>7, <1>8, <1>9, <1>10, <1>11 DEF Next, Serve, Cache

\* Files only get newer.
LEMMA FilesGetNewer ==
  ASSUME TypeOK, [Next]_vars
  PROVE  file' \in Nat /\ file <= file'
<1>1. ASSUME NEW p \in Poster, SaveFile(p) PROVE file' \in Nat /\ file <= file'
  BY <1>1 DEF SaveFile, TypeOK
<1>2. CASE UNCHANGED file
  BY <1>2 DEF TypeOK
<1> QED
  BY <1>1, <1>2 DEF Next, vars, Serve, SaveRow, SaveRowFails, Announce, Cache, Stat, Select, Read,
     FetchFails, WriteFile, Prune, Update, Announced, Poll, Expire, Snapshot, RestartClient,
     serverVars

\* What is safe stays safe, whichever step is taken.
LEMMA SafetyInductive ==
  ASSUME PollerAssumption, MaxPhotosAssumption, IInv, TypeOK', [Next]_vars
  PROVE  ListedIsServed' /\ NeverOlder' /\ PostsAreServed' /\ FetchesAreNew'
<1> USE DEF IInv
<1> DEFINE Safe == ListedIsServed /\ NeverOlder /\ PostsAreServed /\ FetchesAreNew
<1>a. file' \in Nat /\ file <= file'
  BY FilesGetNewer
<1>1. ASSUME NEW p \in Poster, SaveFile(p) \/ Serve(p) PROVE Safe'
  <2>1. UNCHANGED <<fetch, disk>>
    BY <1>1 DEF SaveFile, Serve, SaveRow, SaveRowFails, Announce, clientVars
  <2>2. NeverOlder' /\ FetchesAreNew'
    BY <1>a, <2>1 DEF TypeOK, NeverOlder, FetchesAreNew, At
  <2>3. row' <= file'
    BY <1>1, <1>a DEF SaveFile, Serve, SaveRow, SaveRowFails, Announce, TypeOK, ListedIsServed,
       PostsAreServed
  <2>4. \A q \in Poster : q # p => post'[q] = post[q]
    BY <1>1 DEF SaveFile, Serve, SaveRow, SaveRowFails, Announce, TypeOK
  <2>5. post'[p].step # "none" => post'[p].id \in 1 .. file'
    BY <1>1 DEF SaveFile, Serve, SaveRow, SaveRowFails, Announce, TypeOK, NoPost, PostsAreServed
  <2>6. PostsAreServed'
    BY <1>a, <2>4, <2>5 DEF TypeOK, PostsAreServed
  <2> QED BY <2>2, <2>3, <2>6 DEF ListedIsServed
<1>2. ASSUME UNCHANGED <<file, row, post>> PROVE ListedIsServed' /\ PostsAreServed'
  BY <1>2 DEF ListedIsServed, PostsAreServed
<1>3. ASSUME NEW f \in Fetcher, UNCHANGED <<file, row, post>>,
             \A g \in Fetcher : g # f => fetch'[g] = fetch[g],
             \/ fetch'[f] = Ready
             \/ fetch'[f].step \notin {"ready", "read", "write"} /\ fetch'[f].id \in Photo
             \/ fetch'[f].step = "read" /\ fetch'[f].id \in Photo /\ fetch'[f].id <= file
             \/ fetch'[f].step = "write" /\ fetch'[f].id \in Photo /\ fetch'[f].id <= fetch'[f].bytes
      PROVE  FetchesAreNew'
  BY <1>3 DEF FetchesAreNew, At, Ready
<1>4. ASSUME NEW f \in Fetcher, Cache(f) \/ (f = Poller /\ Poll) \/ (\E n \in Photo : Announced(f, n))
      PROVE  Safe'
  <2>1. UNCHANGED <<file, row, post>>
    BY <1>4 DEF Cache, Stat, Select, Read, FetchFails, WriteFile, Prune, Update, Announced, Poll,
       serverVars
  <2>2. \A g \in Fetcher : g # f => fetch'[g] = fetch[g]
    BY <1>4 DEF Cache, Stat, Select, Read, FetchFails, WriteFile, Prune, Update, Announced, Poll,
       Start, Go, Leave, TypeOK
  <2>3. fetch[f].step # "ready" => fetch[f].id \in Photo
    BY DEF FetchesAreNew
  <2>4. FetchesAreNew'
    <3>1. CASE \E n \in Photo : Announced(f, n)
      BY <1>3, <2>1, <2>2, <3>1 DEF Announced, Start, TypeOK, At, Ready, FetchesAreNew
    <3>2. CASE f = Poller /\ Poll
      <4>1. row > expired => row \in Photo
        BY DEF TypeOK, Photo, MaxPhotosAssumption
      <4> QED BY <1>3, <2>1, <2>2, <3>2, <4>1 DEF Poll, Start, TypeOK, At, Ready, FetchesAreNew
    <3>3. CASE Select(f)
      BY <1>3, <2>1, <2>2, <2>3, <3>3 DEF Select, Go, Leave, TypeOK, At, ListedIsServed
    <3>4. CASE Read(f)
      BY <1>3, <2>1, <2>2, <2>3, <3>4 DEF Read, TypeOK, At, FetchesAreNew
    <3>5. CASE Stat(f) \/ WriteFile(f) \/ Prune(f)
      BY <1>3, <2>1, <2>2, <2>3, <3>5 DEF Stat, WriteFile, Prune, Go, TypeOK, At
    <3>6. CASE FetchFails(f) \/ Update(f)
      BY <1>3, <2>1, <2>2, <3>6 DEF FetchFails, Update, Leave, TypeOK
    <3> QED BY <1>4, <3>1, <3>2, <3>3, <3>4, <3>5, <3>6 DEF Cache
  <2>5. NeverOlder'
    <3>1. CASE WriteFile(f)
      <4>1. fetch[f].id \in Photo /\ fetch[f].id <= fetch[f].bytes
        BY <2>3, <3>1 DEF WriteFile, FetchesAreNew, At
      <4> QED BY <3>1, <4>1 DEF WriteFile, NeverOlder, TypeOK, Photo
    <3>2. CASE Prune(f)
      BY <3>2 DEF Prune, NeverOlder, TypeOK, Photo
    <3>3. CASE UNCHANGED disk
      BY <3>3 DEF NeverOlder
    <3> QED
      BY <1>4, <3>1, <3>2, <3>3 DEF Cache, Stat, Select, Read, FetchFails, Update, Announced, Poll
  <2> QED BY <1>2, <2>1, <2>4, <2>5
<1>5. CASE Expire \/ Snapshot
  BY <1>2, <1>5 DEF Expire, Snapshot, serverVars, clientVars, NeverOlder, FetchesAreNew, At
<1>6. CASE RestartClient
  <2>1. UNCHANGED <<file, row, post>> /\ fetch' = [f \in Fetcher |-> Ready]
    BY <1>6 DEF RestartClient, serverVars
  <2>2. PICK torn : disk' = [n \in Photo |-> IF n \in torn THEN Partial ELSE disk[n]]
    BY <1>6 DEF RestartClient
  <2>3. NeverOlder'
    BY <2>2 DEF NeverOlder, Partial, Photo
  <2>4. FetchesAreNew'
    BY <2>1 DEF FetchesAreNew, At, Ready
  <2> QED BY <1>2, <2>1, <2>3, <2>4
<1>7. CASE UNCHANGED vars
  BY <1>7 DEF vars, ListedIsServed, NeverOlder, PostsAreServed, FetchesAreNew, At
<1>8. CASE Poll
  BY <1>4, <1>8 DEF PollerAssumption
<1> QED BY <1>1, <1>4, <1>5, <1>6, <1>7, <1>8 DEF Next

LEMMA StepInv ==
  ASSUME PollerAssumption, MaxPhotosAssumption, MaxFailuresAssumption, IInv, [Next]_vars
  PROVE  IInv'
  BY TypeInductive, SafetyInductive DEF IInv

LEMMA Invariance ==
  ASSUME PollerAssumption, MaxPhotosAssumption, MaxFailuresAssumption
  PROVE  Spec => []IInv
  BY InitInv, StepInv, PTL DEF Spec

\* Types: the client's ids and bytes are those of photos that were posted.
THEOREM PhotosTypeOK ==
  ASSUME PollerAssumption, MaxPhotosAssumption, MaxFailuresAssumption
  PROVE  Spec => []TypeOK
<1>1. IInv => TypeOK BY DEF IInv
<1> QED BY <1>1, Invariance, PTL

\* A photo that is listed can be had, however posts overlap and fail half way.
THEOREM PhotosListedIsServed ==
  ASSUME PollerAssumption, MaxPhotosAssumption, MaxFailuresAssumption
  PROVE  Spec => []ListedIsServed
<1>1. IInv => ListedIsServed BY DEF IInv
<1> QED BY <1>1, Invariance, PTL

\* What the client keeps for an id is never an older photo, whatever its fetches
\* overtake, and wherever a restart cuts their files short.
THEOREM PhotosNeverOlder ==
  ASSUME PollerAssumption, MaxPhotosAssumption, MaxFailuresAssumption
  PROVE  Spec => []NeverOlder
<1>1. IInv => NeverOlder BY DEF IInv
<1> QED BY <1>1, Invariance, PTL
=============================================================================
