------------------------------- MODULE MCLink -------------------------------
(***************************************************************************)
(* The way of a status, on small instances: from a session of the phone to *)
(* the server (the link), and from there to the table (the sampler).       *)
(*                                                                         *)
(* The two share nothing in this model, so one run checks each of them on  *)
(* its own: a behaviour is one of the part it has chosen, and the other    *)
(* part stays where it started.                                            *)
(***************************************************************************)
EXTENDS LinkProperties, SamplerProperties

VARIABLE part

InitOfPart ==
    /\ part \in {"link", "sampler"}
    /\ Init /\ (part # "link" => ~file)
    /\ SamplerInit

NextOfPart ==
    \/ part = "link" /\ Next /\ UNCHANGED <<part, samplerVars>>
    \/ part = "sampler" /\ SamplerNext /\ UNCHANGED <<part, vars>>

\* The fairness of each part, in the behaviours of that part.
LinkFairness ==
    /\ \A t \in Thread : SF_vars(part = "link" /\ Proceed(t))
    /\ WF_vars(part = "link" /\ Check)
    /\ SF_vars(part = "link" /\ Beat) /\ SF_vars(part = "link" /\ ResetPolicy)
    /\ \A c \in Slot : /\ WF_vars(part = "link" /\ PingFails(c))
                       /\ WF_vars(part = "link" /\ PingDrops(c))

FairnessOfSampler ==
    /\ WF_samplerVars(part = "sampler" /\ Flush)
    /\ WF_samplerVars(part = "sampler" /\ (Saved \/ SaveFails))
    /\ WF_samplerVars(part = "sampler" /\ (StopSampler \/ LoopCancelled \/ LastFlush))

SpecOfPart ==
    /\ InitOfPart /\ [][NextOfPart]_<<part, vars, samplerVars>>
    /\ LinkFairness /\ FairnessOfSampler
=============================================================================
