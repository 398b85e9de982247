------------------------- MODULE SamplerProperties -------------------------
(***************************************************************************)
(* What the sampler must not lose.                                         *)
(***************************************************************************)
EXTENDS Sampler

\* The newest snapshot of every device is somewhere until the sampler is
\* stopped: in the buffer, else in the batch that is being written, else in the
\* table.  A batch that is put back may neither be lost nor hide what came
\* while it was being written.
NewestKept ==
    Looping =>
        \A d \in Device :
            latest[d] = IF buffer[d] # 0 THEN buffer[d]
                        ELSE IF pending[d] # 0 THEN pending[d]
                        ELSE rows[d]

\* An orderly stop stores all that was taken in before it, provided that the
\* last batch gets through and none was being written when the stop came.
StopKeepsAll ==
    phase = "down" /\ harm = {} => \A d \in Device : rows[d] >= owed[d]

\* "buffer must retain data when the write fails" (test_sampler.py), also when
\* what ends the write is the stop itself: only a crash and a last batch that
\* fails may cost anything.
RetainsData ==
    phase = "down" /\ harm \subseteq {"cancelled"} => \A d \in Device : rows[d] >= owed[d]

\* What is taken in is stored sooner or later, or the process ends first.
Persisted ==
    \A d \in Device, n \in 1 .. MaxPuts :
        (Looping /\ latest[d] = n) ~> (rows[d] >= n \/ ~Looping)
=============================================================================
