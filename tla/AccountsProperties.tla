------------------------- MODULE AccountsProperties -------------------------
(***************************************************************************)
(* What a session and a revocation are worth.                              *)
(***************************************************************************)
EXTENDS Accounts

\* A revocation is the last word: no request that arrives after it changes
\* anything on the authority of the revoked device, be it by its token or by a
\* link code it has handed out; such a request never gets to its writing step.
RevokedHasNoSay ==
    \A p \in Request :
        req[p] # Idle /\ req[p].late => req[p].step \notin {"sign", "update", "device", "find"}

\* Only devices of the same account revoke a device, whoever asks.
RevokeStaysHome ==
    [][\A d \in revoked' \ revoked :
          \E p \in Request :
             /\ req[p] # Idle /\ req'[p] = Idle
             /\ req[p].op = "revoke"
             /\ owner[req[p].by] = owner[d]]_vars

\* Whoever has a session has a room: although the account and its room are
\* written by two transactions, and everything may fail in between, no session
\* is ever answered for an account without one.
SessionHasRoom == \A d \in Device : session[d] # "roomless"
=============================================================================
