-------------------------- MODULE PhotosProperties --------------------------
(***************************************************************************)
(* What a shared photo has to look like at the other end.                  *)
(***************************************************************************)
EXTENDS Photos

\* A photo that is listed can be had: posts that overlap and posts that fail half
\* way leave the file at least as new as the row.
ListedIsServed == row <= file

\* What the client keeps for an id is never an older photo.
NeverOlder == \A n \in Photo : disk[n] \notin 1 .. n - 1

\* When the account's photo stays what it is, the client comes to show that one
\* and to keep its file, however its fetches overtake each other, fail, and prune
\* each other's files.
Converges ==
    \A n \in Photo :
        <>[](row = n /\ n > expired) => <>[](shown = n /\ disk[n] # 0)
=============================================================================
