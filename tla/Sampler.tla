------------------------------ MODULE Sampler ------------------------------
(***************************************************************************)
(* The buffer between the snapshots of a room and their table              *)
(* (server/src/app/modules/presence/infrastructure/sampler.py), from the   *)
(* start of the process to its shutdown (bootstrap/lifespan.py).           *)
(*                                                                         *)
(* The sections under the sampler's lock do not await, so the lock is      *)
(* never waited for and each section is one step.  The only await with     *)
(* something at stake is save_batch.                                       *)
(***************************************************************************)
EXTENDS Integers

CONSTANTS Device,   \* the devices that publish
          MaxPuts,  \* bound on the snapshots taken in
          MaxErrors \* bound on the batches that fail

ASSUME MaxPutsAssumption == MaxPuts \in Nat
ASSUME MaxErrorsAssumption == MaxErrors \in Nat

VARIABLES phase,   \* how far the process is
          buffer,  \* _buffer: by device, the snapshot that waits (0: none)
          pending, \* the batch save_batch is given (0: not in it)
          rows,    \* the table: by device, the last snapshot stored
          latest,  \* history: by device, the last snapshot this process took
          owed,    \* history: latest, when the sampler was stopped
          harm,    \* history: what has gone wrong since the process started
          puts,    \* history: how many snapshots there have been; numbers them
          errors   \* how many batches have failed

samplerVars == <<phase, buffer, pending, rows, latest, owed, harm, puts, errors>>

\* "up"; "closing": in close_all_ws; "cancelling": the loop is told to end;
\* "stopped": it has; "flushing": the last batch is written; "down".
Phases == {"up", "closing", "cancelling", "stopped", "flushing", "down"}
Stamped == [Device -> Nat]
NoBatch == [d \in Device |-> 0]

Looping == phase \in {"up", "closing"}
Writing == pending # NoBatch

\* Types, and whose batch it is: the loop's or the last flush's.
SamplerTypes ==
    /\ phase \in Phases
    /\ buffer \in Stamped
    /\ pending \in Stamped
    /\ rows \in Stamped
    /\ latest \in Stamped
    /\ owed \in Stamped
    /\ harm \in SUBSET {"crash", "failed", "cancelled"}
    /\ puts \in 0 .. MaxPuts
    /\ errors \in 0 .. MaxErrors
    /\ Writing => Looping \/ phase \in {"cancelling", "flushing"}
    /\ phase = "flushing" => Writing

SamplerInit ==
    /\ phase = "up"
    /\ buffer = NoBatch /\ pending = NoBatch
    /\ rows = NoBatch /\ latest = NoBatch /\ owed = NoBatch
    /\ harm = {}
    /\ puts = 0 /\ errors = 0

\* put.  A connection that was taking a snapshot in when it was closed still
\* hands it over, whatever the shutdown has got to.
PutSnapshot(d) ==
    /\ phase # "down"
    /\ puts < MaxPuts
    /\ puts' = puts + 1
    /\ buffer' = [buffer EXCEPT ![d] = puts + 1]
    /\ latest' = [latest EXCEPT ![d] = puts + 1]
    /\ UNCHANGED <<phase, pending, rows, owed, harm, errors>>

\* _flush, up to save_batch: the buffer becomes the batch.
Take ==
    /\ pending' = buffer
    /\ buffer' = NoBatch

\* The loop wakes after its interval.
Flush ==
    /\ Looping /\ ~Writing
    /\ buffer # NoBatch
    /\ Take
    /\ UNCHANGED <<phase, rows, latest, owed, harm, puts, errors>>

Stored == [d \in Device |-> IF pending[d] # 0 THEN pending[d] ELSE rows[d]]

\* After the last batch the pool is closed and the process ends.
AfterSave == IF phase = "flushing" THEN "down" ELSE phase

Saved ==
    /\ phase \in {"up", "closing", "flushing"} /\ Writing
    /\ rows' = Stored
    /\ pending' = NoBatch
    /\ phase' = AfterSave
    /\ UNCHANGED <<buffer, latest, owed, harm, puts, errors>>

\* Mutant: what is put back replaces what came in the meantime.
RequeuedOver == [d \in Device |-> IF pending[d] # 0 THEN pending[d] ELSE buffer[d]]

\* Mutant: what could not be stored is forgotten.
RequeuedNot == buffer

\* setdefault: what came in the meantime is newer.
Requeued == [d \in Device |-> IF buffer[d] # 0 THEN buffer[d] ELSE pending[d]]

\* save_batch raises: the batch was not stored, or only the answer got lost.
SaveFails ==
    /\ phase \in {"up", "closing", "flushing"} /\ Writing
    /\ errors < MaxErrors
    /\ errors' = errors + 1
    /\ rows' \in {rows, Stored}
    /\ buffer' = Requeued
    /\ pending' = NoBatch
    /\ phase' = AfterSave
    /\ harm' = IF phase = "flushing" THEN harm \cup {"failed"} ELSE harm
    /\ UNCHANGED <<latest, owed, puts>>

-----------------------------------------------------------------------------
\* Shutdown.

CloseSockets ==
    /\ phase = "up"
    /\ phase' = "closing"
    /\ UNCHANGED <<buffer, pending, rows, latest, owed, harm, puts, errors>>

\* stop, up to await self._task.
StopSampler ==
    /\ phase = "closing"
    /\ phase' = "cancelling"
    /\ owed' = latest
    /\ UNCHANGED <<buffer, pending, rows, latest, harm, puts, errors>>

\* The loop is cancelled in its sleep, or in save_batch: CancelledError is not
\* an Exception, so the batch is not put back; it may have got through.
LoopCancelled ==
    /\ phase = "cancelling"
    /\ phase' = "stopped"
    /\ pending' = NoBatch
    /\ rows' \in {rows, Stored}
    /\ harm' = IF Writing THEN harm \cup {"cancelled"} ELSE harm
    /\ UNCHANGED <<buffer, latest, owed, puts, errors>>

\* Mutant: the sampler stops without a last flush.
NoLastFlush ==
    /\ phase = "stopped"
    /\ phase' = "down"
    /\ UNCHANGED <<buffer, pending, rows, latest, owed, harm, puts, errors>>

\* stop, after the loop: the last flush.
LastFlush ==
    /\ phase = "stopped"
    /\ Take
    /\ phase' = IF buffer = NoBatch THEN "down" ELSE "flushing"
    /\ UNCHANGED <<rows, latest, owed, harm, puts, errors>>

\* The process dies.
Crash ==
    /\ phase # "down"
    /\ phase' = "down"
    /\ rows' \in {rows, Stored}
    /\ buffer' = NoBatch
    /\ pending' = NoBatch
    /\ harm' = harm \cup {"crash"}
    /\ UNCHANGED <<latest, owed, puts, errors>>

Restart ==
    /\ phase = "down"
    /\ phase' = "up"
    /\ buffer' = NoBatch
    /\ latest' = rows
    /\ owed' = NoBatch
    /\ harm' = {}
    /\ UNCHANGED <<pending, rows, puts, errors>>

SamplerNext ==
    \/ \E d \in Device : PutSnapshot(d)
    \/ Flush \/ Saved \/ SaveFails
    \/ CloseSockets \/ StopSampler \/ LoopCancelled \/ LastFlush
    \/ Crash \/ Restart

SamplerSpec == SamplerInit /\ [][SamplerNext]_samplerVars

\* The loop sleeps for a bounded time, the database answers, and a shutdown
\* that has begun goes on.
SamplerFairness ==
    /\ WF_samplerVars(Flush)
    /\ WF_samplerVars(Saved \/ SaveFails)
    /\ WF_samplerVars(StopSampler \/ LoopCancelled \/ LastFlush)

FairSampler == SamplerSpec /\ SamplerFairness
=============================================================================
