------------------------- MODULE EndpointProperties -------------------------
(***************************************************************************)
(* What must hold of the connections of a room.                            *)
(***************************************************************************)
EXTENDS Endpoint

\* Losing access is felt within AUTHZ_RECHECK: however the removal or the
\* revocation falls between the checks of the handshake, the SELECTs of the
\* watcher and the frames in flight, a connection whose watcher has not failed is
\* never open for longer than that to a device that may no longer be in the room.
CutWithinRecheck ==
    \A c \in Conn :
        Phase(c) = "open" /\ conn[c].watch # "off" =>
            cutFor[conn[c].device] <= Recheck /\ cutFor[AccountOf[conn[c].device]] <= Recheck

\* Nor does such a device speak: a snapshot that waited for the name of its
\* account while its connection was cut is still published, but not later than
\* AUTHZ_RECHECK after the access was lost, as long as no SELECT has failed.
SilentWhenCut ==
    [][\A d \in Device :
          last'[d].n > last[d].n /\ dbErrors = 0 =>
             cutFor[d] <= Recheck /\ cutFor[AccountOf[d]] <= Recheck]_vars

\* The hub holds exactly the subscriptions of connections that are not over,
\* whatever the order in which their three tasks start, fail and are cancelled: a
\* subscription belongs to a connection of the same device that somebody will end,
\* and an open connection whose forwarding task has started has one, even while the
\* device's previous connection is still ending.
NoOrphanSubscriber ==
    \A c \in Conn :
        /\ sub[c] # NoSub =>
            /\ Phase(c) \in {"open", "closed", "ended"}
            /\ sub[c].device = conn[c].device
            /\ conn[c].fwd \in {"on", "closing"}
        /\ Phase(c) = "open" /\ conn[c].fwd # "new" => sub[c] # NoSub

\* A connection that is over leaves the hub.
SubscriptionEnds ==
    \A c \in Conn : (Phase(c) = "closed") ~> (sub[c] = NoSub)
=============================================================================
