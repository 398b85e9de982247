---------------------------- MODULE SingleFlight ----------------------------
(***************************************************************************)
(* What a cache in front of a server promises: for each key one request at *)
(* a time, and statistics that never give way to older ones.  The body of  *)
(* an error may take their place, which then goes to statistics at least   *)
(* as new.                                                                 *)
(***************************************************************************)
EXTENDS Integers

CONSTANTS Key,
          Zeroed   \* what the body of an error is read as

VARIABLES
    truth,  \* how new the server's values are
    busy,   \* the keys that are being asked for
    value,  \* what is kept for each key: how new it is, or Zeroed; 0 before the first
    newest  \* how new the newest statistics are that were ever kept

Init ==
    /\ truth = 1 /\ busy = {}
    /\ value = [k \in Key |-> 0] /\ newest = [k \in Key |-> 0]

Advance == truth' = truth + 1 /\ UNCHANGED <<busy, value, newest>>

Ask(k) == k \notin busy /\ busy' = busy \cup {k} /\ UNCHANGED <<truth, value, newest>>

\* The request fails, brings the body of an error, or statistics.
Land(k) ==
    /\ k \in busy /\ busy' = busy \ {k}
    /\ \/ UNCHANGED <<value, newest>>
       \/ value' = [value EXCEPT ![k] = Zeroed] /\ UNCHANGED newest
       \/ \E v \in newest[k]..truth : /\ value' = [value EXCEPT ![k] = v]
                                      /\ newest' = [newest EXCEPT ![k] = v]
    /\ UNCHANGED truth

Next == Advance \/ \E k \in Key : Ask(k) \/ Land(k)

Spec == Init /\ [][Next]_<<truth, busy, value, newest>>
=============================================================================
