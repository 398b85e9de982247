--------------------------- MODULE SamplerProofs ---------------------------
(***************************************************************************)
(* NoBatch the sampler has taken in gets lost on the way to the table, for *)
(* any number of devices, snapshots and failing batches.                   *)
(***************************************************************************)
EXTENDS SamplerProperties, TLAPS

\* The numbers of the snapshots never get ahead of the counter.
Counted ==
    \A d \in Device :
        \A n \in {latest[d], owed[d], rows[d], buffer[d], pending[d]} : n <= puts

\* What the sampler owes at each stage of a stop.  While the loop is told to
\* end and writes, nothing is claimed: that batch may be gone.
Owed ==
    harm = {} =>
        /\ phase \in {"cancelling", "stopped"} /\ ~Writing =>
              \A d \in Device : owed[d] <= IF buffer[d] # 0 THEN buffer[d] ELSE rows[d]
        /\ phase = "flushing" =>
              \A d \in Device : owed[d] <= IF pending[d] # 0 THEN pending[d] ELSE rows[d]
        /\ phase = "down" => \A d \in Device : owed[d] <= rows[d]

IInv == SamplerTypes /\ NewestKept /\ Counted /\ Owed

USE MaxPutsAssumption, MaxErrorsAssumption

LEMMA InitInv == SamplerInit => IInv
  BY DEF SamplerInit, IInv, SamplerTypes, NewestKept, Counted, Owed, Phases, Stamped, NoBatch, Looping, Writing

LEMMA PutInv == ASSUME IInv, NEW d \in Device, PutSnapshot(d) PROVE IInv'
  BY SMTT(30) DEF PutSnapshot, IInv, SamplerTypes, NewestKept, Counted, Owed, Phases, Stamped, NoBatch, Looping, Writing

LEMMA FlushInv == ASSUME IInv, Flush PROVE IInv'
  BY SMTT(30) DEF Flush, Take, IInv, SamplerTypes, NewestKept, Counted, Owed, Phases, Stamped, NoBatch, Looping, Writing

LEMMA SavedInv == ASSUME IInv, Saved PROVE IInv'
  BY SMTT(30) DEF Saved, Stored, AfterSave, IInv, SamplerTypes, NewestKept, Counted, Owed, Phases, Stamped, NoBatch, Looping, Writing

LEMMA SaveFailsInv == ASSUME IInv, SaveFails PROVE IInv'
  BY SMTT(30) DEF SaveFails, Stored, Requeued, AfterSave, IInv, SamplerTypes, NewestKept, Counted, Owed, Phases, Stamped, NoBatch, Looping, Writing

LEMMA StopInv == ASSUME IInv, CloseSockets \/ StopSampler \/ LoopCancelled \/ LastFlush PROVE IInv'
  <1>1. CASE CloseSockets
    BY <1>1 DEF CloseSockets, IInv, SamplerTypes, NewestKept, Counted, Owed, Phases, Stamped, NoBatch, Looping, Writing
  <1>2. CASE StopSampler
    BY <1>2 DEF StopSampler, IInv, SamplerTypes, NewestKept, Counted, Owed, Phases, Stamped, NoBatch, Looping, Writing
  <1>3. CASE LoopCancelled
    BY <1>3 DEF LoopCancelled, Stored, IInv, SamplerTypes, NewestKept, Counted, Owed, Phases, Stamped, NoBatch, Looping, Writing
  <1>4. CASE LastFlush
    BY <1>4 DEF LastFlush, Take, IInv, SamplerTypes, NewestKept, Counted, Owed, Phases, Stamped, NoBatch, Looping, Writing
  <1> QED BY <1>1, <1>2, <1>3, <1>4

LEMMA CrashInv == ASSUME IInv, Crash \/ Restart PROVE IInv'
  <1>1. CASE Crash
    BY <1>1 DEF Crash, Stored, IInv, SamplerTypes, NewestKept, Counted, Owed, Phases, Stamped, NoBatch, Looping, Writing
  <1>2. CASE Restart
    BY <1>2 DEF Restart, IInv, SamplerTypes, NewestKept, Counted, Owed, Phases, Stamped, NoBatch, Looping, Writing
  <1> QED BY <1>1, <1>2

LEMMA StepInv == IInv /\ [SamplerNext]_samplerVars => IInv'
  <1> SUFFICES ASSUME IInv, [SamplerNext]_samplerVars PROVE IInv'
    OBVIOUS
  <1>1. CASE SamplerNext
    BY <1>1, PutInv, FlushInv, SavedInv, SaveFailsInv, StopInv, CrashInv DEF SamplerNext
  <1>2. CASE UNCHANGED samplerVars
    BY <1>2 DEF samplerVars, IInv, SamplerTypes, NewestKept, Counted, Owed, Looping, Writing
  <1> QED BY <1>1, <1>2

LEMMA Invariance == SamplerSpec => []IInv
  BY InitInv, StepInv, PTL DEF SamplerSpec

\* Types, and that a batch always has a writer.
THEOREM SamplerTypeOK == SamplerSpec => []SamplerTypes
  <1>1. IInv => SamplerTypes BY DEF IInv
  <1> QED BY <1>1, Invariance, PTL

\* The newest snapshot of every device is in the buffer, in the batch or stored,
\* however batches fail and snapshots arrive in between.
THEOREM SamplerNewestKept == SamplerSpec => []NewestKept
  <1>1. IInv => NewestKept BY DEF IInv
  <1> QED BY <1>1, Invariance, PTL

\* An orderly stop that interrupts no write and whose own write gets through
\* stores everything taken in before it.
THEOREM SamplerStopKeepsAll == SamplerSpec => []StopKeepsAll
  <1>1. IInv => StopKeepsAll
    BY DEF IInv, Owed, StopKeepsAll, SamplerTypes, Stamped
  <1> QED BY <1>1, Invariance, PTL
=============================================================================
