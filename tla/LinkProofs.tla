----------------------------- MODULE LinkProofs -----------------------------
(***************************************************************************)
(* One connection at a time, nothing bare once the switch has returned,    *)
(* and no status after a newer one: for any number of calls, failures and  *)
(* connections.                                                            *)
(*                                                                         *)
(* Each rests on something a goroutine knows while it is at some step:     *)
(* whoever dials is the only one to do so and there is no connection       *)
(* (Dialling); who has a status to send has the current one, for nobody    *)
(* publishes another while the mutex is held (Holding); and the store of   *)
(* the session says what the file says, but for the moment SetIncognito    *)
(* takes between writing the one and renewing the other (Following).       *)
(***************************************************************************)
EXTENDS LinkProperties, TLAPS

\* Who dials found no connection, and nobody makes one meanwhile.
Dialling ==
    /\ \A t \in Thread : job[t].at = "dial" => conn = NoConn
    /\ job["app"].at = "dial" => job["loop"].at = "off" /\ job["beat"].at = "off"
    /\ job["beat"].at # "dial"

\* A status on its way is the current one, and the room has seen no later one.
Holding ==
    /\ \A t \in Thread :
          /\ job[t].frame # Nothing => job[t].frame.n = current
          /\ job[t].at = "send" => job[t].frame # Nothing
    /\ shown.n <= current
    /\ current <= wishes

\* The store of the session hides when the file does.
Following == job["app"].at # "reset" /\ file => policy

IInv == TypeOK /\ OneLink /\ StaysHidden /\ Dialling /\ Holding /\ Following

USE MaxWishesAssumption, MaxTroublesAssumption, SlotAssumption

\* The state of a goroutine.
Job == [at : Step, conn : Slot \cup {NoConn}, frame : Status, on : BOOLEAN, restoring : BOOLEAN]

-----------------------------------------------------------------------------
(* What the pieces of the actions do to the goroutines. *)

LEMMA AtIsJob == \A step \in Step : At(step) \in Job
  BY DEF At, Job, Status, Nothing, Step, NoConn

\* A goroutine that rests has nothing to send.
LEMMA Resting ==
  ASSUME NEW t \in Thread
  PROVE  /\ Rest(t) \in Job
         /\ Rest(t).frame = Nothing
         /\ Rest(t).at = IF t = "loop" THEN "check" ELSE "idle"
  BY DEF Rest, At, Job, Status, Nothing, Step, NoConn, Thread

LEMMA DoneJobs ==
  ASSUME TypeOK, NEW t \in Thread, Done(t)
  PROVE  /\ job' \in [Thread -> Job]
         /\ job'[t] = Rest(t)
         /\ \A u \in Thread : u # t => job'[u] = IF job[u].at = "off" THEN Rest(u) ELSE job[u]
  BY Resting DEF Done, TypeOK, Job

LEMMA GoJobs ==
  ASSUME TypeOK, NEW t \in Thread, NEW j \in Job, Go(t, j)
  PROVE  /\ job' \in [Thread -> Job]
         /\ job'[t] = j
         /\ \A u \in Thread : u # t => job'[u] = job[u]
  BY DEF Go, TypeOK, Job

\* Drop leaves no connection that was the current one.
LEMMA DropLinks ==
  ASSUME TypeOK, OneLink, NEW p \in [Slot -> {"off", "on", "drop"}], Drop(p)
  PROVE  /\ conn' = NoConn
         /\ \A c \in Slot : link'[c] = "gone"
         /\ link' \in [Slot -> {"up", "stale", "gone"}]
         /\ pinger' \in [Slot -> {"off", "on", "drop"}]
         /\ troubles' \in 0 .. MaxTroubles
  BY DEF Drop, TypeOK, OneLink, NoTrouble, Trouble

\* What an offer comes to: nothing is being sent, and then t sends this status or rests.
LEMMA Offering ==
  ASSUME TypeOK, NEW t \in Thread, NEW n \in 0 .. MaxWishes, NEW hidden \in BOOLEAN,
         NEW due \in BOOLEAN, Offer(t, n, hidden, due)
  PROVE  /\ \A u \in Thread : job[u].frame = Nothing
         /\ gate' \in Status
         /\ job' \in [Thread -> Job]
         /\ \A u \in Thread : u # t => \/ job'[u] = job[u]
                                       \/ job[u].at = "off" /\ job'[u] = Rest(u)
         /\ \/ job'[t] = Rest(t)
            \/ /\ n # 0 /\ job'[t].at = "send"
               /\ job'[t].frame = [n |-> n, hidden |-> hidden]
<1> DEFINE s == [n |-> n, hidden |-> hidden]
           sending == [At("send") EXCEPT !.conn = conn, !.frame = s]
<1>1. \A u \in Thread : job[u].frame = Nothing
  BY DEF Offer, PublishFree
<1>2. s \in Status /\ gate' \in Status
  BY DEF Offer, Status, TypeOK
<1>3. sending \in Job /\ sending.at = "send" /\ sending.frame = s
  BY <1>2 DEF At, Job, Step, TypeOK, Nothing
<1>4. CASE Done(t)
  BY <1>1, <1>2, <1>4, DoneJobs
<1>5. CASE n # 0 /\ Go(t, sending)
  BY <1>1, <1>2, <1>3, <1>5, GoJobs
<1> QED BY <1>4, <1>5 DEF Offer

-----------------------------------------------------------------------------
LEMMA InitInv == Init => IInv
<1> SUFFICES ASSUME Init PROVE IInv
  OBVIOUS
<1>1. TypeOK
  BY AtIsJob DEF Init, TypeOK, Step, Job, Status, Nothing
<1>2. \A t \in Thread : job[t].frame = Nothing /\ job[t].at = IF t = "app" THEN "dial" ELSE "off"
  BY DEF Init, At
<1>3. OneLink /\ StaysHidden /\ Dialling /\ Following
  BY <1>2 DEF Init, OneLink, StaysHidden, Dialling, Following, Thread
<1>4. Holding
  BY <1>2 DEF Init, Holding, Nothing
<1> QED BY <1>1, <1>3, <1>4 DEF IInv


\* Types are preserved by every step.
LEMMA TypeInductive == TypeOK /\ OneLink /\ Holding /\ [Next]_vars => TypeOK'
<1> SUFFICES ASSUME TypeOK, OneLink, Holding, [Next]_vars PROVE TypeOK'
  OBVIOUS
<1> USE DEF netVars, statusVars
<1>a. /\ pinger \in [Slot -> {"off", "on", "drop"}]
      /\ \A c \in Slot : [pinger EXCEPT ![c] = "off"] \in [Slot -> {"off", "on", "drop"}]
  BY DEF TypeOK
<1>b. \A p \in Policy : p \in BOOLEAN
  BY DEF Policy, TypeOK
<1>c. \A step \in Step : At(step) \in Job
  BY AtIsJob
<1>d. \A t \in Thread, step \in Step : [job[t] EXCEPT !.at = step] \in Job
  BY DEF TypeOK, Job
<1>1. ASSUME NEW t \in Thread, Send(t) PROVE TypeOK'
  <2>1. job' \in [Thread -> Job]
    BY <1>1, DoneJobs DEF Send
  <2>2. shown' \in Status /\ troubles' \in 0 .. MaxTroubles
    BY <1>1 DEF Send, NoTrouble, Trouble, TypeOK
  <2> QED BY <1>1, <2>1, <2>2 DEF Send, TypeOK, Job
<1>2. ASSUME NEW t \in Thread, LookUp(t) PROVE TypeOK'
  <2>1. conn # NoConn => [job[t] EXCEPT !.at = "flag", !.conn = conn] \in Job
    <3>1. job[t] \in Job /\ conn \in Slot \cup {NoConn}
      BY DEF TypeOK, Job
    <3> QED BY <3>1 DEF Job, Step
  <2>2. job' \in [Thread -> Job]
    BY <1>2, <1>c, <2>1, DoneJobs, GoJobs DEF LookUp, Step
  <2> QED BY <1>2, <2>2 DEF LookUp, TypeOK, Job
<1>3. ASSUME NEW t \in Thread, SendListen(t) PROVE TypeOK'
  <2>1. job' \in [Thread -> Job]
    BY <1>3, <1>c, DoneJobs, GoJobs DEF SendListen, Step
  <2>2. heard' \in [Slot -> BOOLEAN]
    BY <1>3 DEF SendListen, TypeOK
  <2> QED BY <1>3, <2>1, <2>2 DEF SendListen, TypeOK, Job
<1>4. ASSUME NEW t \in Thread, Fails(t) PROVE TypeOK'
  <2>1. job' \in [Thread -> Job]
    BY <1>4, <1>d, GoJobs DEF Fails, Step
  <2> QED BY <1>4, <2>1 DEF Fails, TypeOK, Job
<1>5. ASSUME NEW t \in Thread, DropConn(t) PROVE TypeOK'
  <2>1. job' \in [Thread -> Job]
    BY <1>5, <1>c, DoneJobs, GoJobs DEF DropConn, Step
  <2> QED BY <1>5, <1>a, <2>1, DropLinks DEF DropConn, TypeOK, Job
<1>6. ASSUME NEW t \in Thread, Dial(t) \/ DialFails(t) PROVE TypeOK'
  <2>1. job' \in [Thread -> Job]
    BY <1>6, <1>c, DoneJobs, GoJobs DEF Dial, DialFails, Step
  <2>2. conn' \in Slot \cup {NoConn} /\ link' \in [Slot -> {"up", "stale", "gone"}]
    BY <1>6 DEF Dial, DialFails, TypeOK
  <2>3. pinger' \in [Slot -> {"off", "on", "drop"}] /\ heard' \in [Slot -> BOOLEAN]
    BY <1>6 DEF Dial, DialFails, TypeOK
  <2>4. troubles' \in 0 .. MaxTroubles
    BY <1>6 DEF Dial, DialFails, Trouble, TypeOK
  <2> QED BY <1>6, <2>1, <2>2, <2>3, <2>4 DEF Dial, DialFails, TypeOK, Job
<1>7. ASSUME NEW t \in Thread, Restore(t) PROVE TypeOK'
  <2>1. [At("listen") EXCEPT !.restoring = TRUE] \in Job
    BY <1>c DEF Job, Step
  <2>2. job' \in [Thread -> Job]
    BY <1>7, <1>c, <2>1, GoJobs DEF Restore, Step
  <2> QED BY <1>7, <2>2 DEF Restore, TypeOK, Job
<1>8. ASSUME NEW t \in Thread, NEW p \in Policy, policy' = p,
             Offer(t, current, p, TRUE) \/ Offer(t, current, p, FALSE),
             UNCHANGED <<netVars, heard, shown, listening, current, file, wishes, troubles>>
      PROVE  TypeOK'
  <2>1. job' \in [Thread -> Job] /\ gate' \in Status
    <3>1. p \in BOOLEAN /\ current \in 0 .. MaxWishes
      BY <1>b DEF TypeOK
    <3>2. CASE Offer(t, current, p, TRUE)
      BY <3>1, <3>2, Offering
    <3>3. CASE Offer(t, current, p, FALSE)
      BY <3>1, <3>3, Offering
    <3> QED BY <1>8, <3>2, <3>3
  <2> QED BY <1>8, <1>b, <2>1 DEF TypeOK, Job
<1>9. ASSUME NEW t \in Thread, RestoreStatus(t) PROVE TypeOK'
  BY <1>8, <1>9 DEF RestoreStatus
<1>10. CASE Beat
  BY <1>8, <1>10 DEF Beat, Thread
<1>11. CASE ResetPolicy
  <2>1. file \in Policy
    BY DEF Policy
  <2> QED BY <1>8, <1>11, <2>1 DEF ResetPolicy, Thread
<1>12. CASE Check
  <2>1. conn # NoConn => [At("read") EXCEPT !.conn = conn] \in Job
    BY <1>c DEF TypeOK, Job, Step
  <2>2. job' \in [Thread -> Job]
    BY <1>12, <1>c, <2>1, GoJobs DEF Check, Step, Thread
  <2> QED BY <1>12, <2>2 DEF Check, TypeOK, Job
<1>13. ASSUME NEW c \in Slot, PingFails(c) \/ PingDrops(c) \/ Break(c) PROVE TypeOK'
  <2>1. CASE PingFails(c)
    BY <2>1 DEF PingFails, TypeOK
  <2>2. CASE PingDrops(c)
    BY <1>a, <2>2, DropLinks DEF PingDrops, TypeOK
  <2>3. CASE Break(c)
    <3>1. link' \in [Slot -> {"up", "stale", "gone"}] /\ troubles' \in 0 .. MaxTroubles
      BY <2>3 DEF Break, Trouble, TypeOK
    <3> QED BY <2>3, <3>1 DEF Break, TypeOK
  <2> QED BY <1>13, <2>1, <2>2, <2>3
<1>14. ASSUME NEW on \in BOOLEAN, SetListening(on) PROVE TypeOK'
  <2>1. [At("listen") EXCEPT !.on = on] \in Job
    BY <1>c DEF Job, Step
  <2>2. job' \in [Thread -> Job] /\ wishes' \in 0 .. MaxWishes
    BY <1>14, <2>1, GoJobs DEF SetListening, Wish, Thread, TypeOK
  <2> QED BY <1>14, <2>2 DEF SetListening, TypeOK, Job
<1>15. ASSUME NEW on \in BOOLEAN, SetIncognito(on) PROVE TypeOK'
  <2>1. job' \in [Thread -> Job] /\ wishes' \in 0 .. MaxWishes
    BY <1>15, <1>c, GoJobs DEF SetIncognito, Wish, Thread, TypeOK, Step
  <2> QED BY <1>15, <2>1 DEF SetIncognito, TypeOK, Job
<1>16. CASE Publish
  <2>1. current' \in 0 .. MaxWishes /\ wishes' \in 0 .. MaxWishes
    BY <1>16 DEF Publish, Wish, TypeOK, Holding
  <2>2. policy' \in BOOLEAN
    BY <1>16, <1>b DEF Publish
  <2>3. job' \in [Thread -> Job] /\ gate' \in Status
    BY <1>16, <2>1, <2>2, Offering DEF Publish, Thread
  <2> QED BY <1>16, <2>1, <2>2, <2>3 DEF Publish, TypeOK, Job
<1>17. CASE Kick
  <2>1. wishes' \in 0 .. MaxWishes
    BY <1>17 DEF Kick, Wish, TypeOK
  <2> QED BY <1>17, <1>a, <2>1, DropLinks DEF Kick, TypeOK
<1>18. CASE UNCHANGED vars
  BY <1>18 DEF vars, TypeOK
<1> QED
  BY <1>1, <1>2, <1>3, <1>4, <1>5, <1>6, <1>7, <1>9, <1>10, <1>11, <1>12, <1>13, <1>14, <1>15,
     <1>16, <1>17, <1>18 DEF Next, Proceed

-----------------------------------------------------------------------------
(* The safety properties. *)

\* A goroutine that is started has nothing to send, and does not dial.
LEMMA Started ==
  ASSUME NEW t \in Thread
  PROVE  Rest(t).frame = Nothing /\ Rest(t).at \notin {"send", "dial", "off", "reset"}
  BY Resting

LEMMA OneLinkInductive == IInv /\ [Next]_vars => OneLink'
<1> SUFFICES ASSUME IInv, [Next]_vars PROVE OneLink'
  OBVIOUS
<1> USE DEF IInv, netVars
<1>1. ASSUME NEW t \in Thread, Dial(t) PROVE OneLink'
  BY <1>1 DEF Dial, OneLink, Dialling, TypeOK
<1>2. ASSUME NEW p \in [Slot -> {"off", "on", "drop"}], Drop(p) PROVE OneLink'
  BY <1>2, DropLinks DEF OneLink
<1>3. ASSUME NEW c \in Slot, PingDrops(c) PROVE OneLink'
  BY <1>2, <1>3 DEF PingDrops, TypeOK
<1>4. ASSUME NEW t \in Thread, DropConn(t) PROVE OneLink'
  BY <1>2, <1>4 DEF DropConn, TypeOK
<1>5. CASE Kick
  BY <1>2, <1>5 DEF Kick, TypeOK
<1>6. ASSUME NEW c \in Slot, Break(c) PROVE OneLink'
  BY <1>6 DEF Break, OneLink, TypeOK
<1>7. CASE UNCHANGED <<conn, link>>
  BY <1>7 DEF OneLink
<1> QED
  BY <1>1, <1>3, <1>4, <1>5, <1>6, <1>7
     DEF Next, vars, Proceed, Send, LookUp, SendListen, Fails, Restore, RestoreStatus, DialFails,
         Check, Beat, PingFails, SetListening, SetIncognito, Publish, ResetPolicy

\* Steps that leave the statuses on their way alone, or let go of one.
LEMMA QuietStep ==
  ASSUME IInv,
         \A u \in Thread : \/ job'[u] = job[u]
                           \/ job[u].at = "off" /\ job'[u] = Rest(u)
                           \/ /\ job'[u].frame = Nothing /\ job'[u].at \notin {"send", "dial"}
                              /\ u = "app" => job["app"].at # "reset"
                           \/ /\ job'[u].frame = job[u].frame /\ job'[u].at \notin {"send", "dial"}
                              /\ job[u].at # "reset",
         \A u \in Thread : job'[u].at = "dial" => conn' = NoConn,
         job'["app"].at = "dial" => job'["loop"].at = "off" /\ job'["beat"].at = "off",
         UNCHANGED <<current, file, policy>>, shown'.n \in 0 .. current, wishes' \in {wishes, wishes + 1}
  PROVE  StaysHidden' /\ Dialling' /\ Holding' /\ Following'
<1> USE DEF IInv
<1>1. \A u \in Thread : job'[u].frame # Nothing => job'[u].frame = job[u].frame
  BY Started
<1>2. \A u \in Thread : job'[u].at = "send" => job'[u].frame # Nothing
  BY Started DEF Holding
<1>3. job'["app"].at # "reset" => job["app"].at # "reset"
  BY Started DEF Thread
<1>4. StaysHidden' /\ Following'
  BY <1>1, <1>3 DEF StaysHidden, Following
<1>5. Holding'
  BY <1>1, <1>2 DEF Holding, TypeOK
<1>6. Dialling'
  BY Started DEF Dialling, Thread
<1> QED BY <1>4, <1>5, <1>6

\* The same for a goroutine that is done, or goes on to a step without a status.
LEMMA QuietDone ==
  ASSUME IInv, NEW t \in Thread, job[t].at \notin {"off", "reset"},
         Done(t), conn' \in {conn, NoConn},
         UNCHANGED <<current, file, policy>>, shown'.n \in 0 .. current, wishes' \in {wishes, wishes + 1}
  PROVE  StaysHidden' /\ Dialling' /\ Holding' /\ Following'
<1>1. job'[t] = Rest(t)
  BY DoneJobs DEF IInv
<1>2. \A u \in Thread : u # t => job'[u] = IF job[u].at = "off" THEN Rest(u) ELSE job[u]
  BY DoneJobs DEF IInv
<1>3. \A u \in Thread : job'[u].at = "dial" => job[u].at = "dial" /\ u # t
  BY <1>1, <1>2, Started
<1>4. job'["app"].at # "dial"
  <2>1. job["app"].at = "dial" => t = "app"
    BY DEF IInv, Dialling, Thread, TypeOK
  <2> QED BY <1>3, <2>1 DEF Thread
<1> QED
  BY <1>1, <1>2, <1>3, <1>4, Started, QuietStep DEF IInv, Dialling

LEMMA QuietGo ==
  ASSUME IInv, NEW t \in Thread, job[t].at \notin {"off", "reset"}, NEW j \in Job,
         j.frame \in {Nothing, job[t].frame}, j.at \notin {"send", "dial"},
         Go(t, j), conn' \in {conn, NoConn} \/ \A u \in Thread : u # t => job[u].at # "dial",
         UNCHANGED <<current, file, policy>>, shown'.n \in 0 .. current, wishes' \in {wishes, wishes + 1}
  PROVE  StaysHidden' /\ Dialling' /\ Holding' /\ Following'
<1>1. job'[t] = j /\ \A u \in Thread : u # t => job'[u] = job[u]
  BY GoJobs DEF IInv
<1>2. job'["app"].at # "dial"
  <2>1. job["app"].at = "dial" => t = "app"
    BY DEF IInv, Dialling, Thread, TypeOK
  <2> QED BY <1>1, <2>1 DEF Thread
<1> QED
  BY <1>1, <1>2, QuietStep DEF IInv, Dialling

\* What an offer preserves, when the status that is current now is offered as the
\* store of the session wants it.
LEMMA OfferSafe ==
  ASSUME IInv, NEW t \in Thread, job[t].at \notin {"off", "dial"},
         NEW n \in 0 .. MaxWishes, NEW hidden \in BOOLEAN, NEW due \in BOOLEAN,
         Offer(t, n, hidden, due), current' = n, policy' = hidden,
         file /\ (job["app"].at # "reset" \/ t = "app") => hidden,
         current <= n, n <= wishes', UNCHANGED <<file, shown, conn>>
  PROVE  StaysHidden' /\ Dialling' /\ Holding' /\ Following'
<1> USE DEF IInv
<1>1. \A u \in Thread : job[u].frame = Nothing
  BY Offering
<1>2. \A u \in Thread : u # t => \/ job'[u] = job[u]
                                 \/ job[u].at = "off" /\ job'[u] = Rest(u)
  BY Offering
<1>3. \/ job'[t] = Rest(t)
      \/ /\ n # 0 /\ job'[t].at = "send"
         /\ job'[t].frame = [n |-> n, hidden |-> hidden]
  BY Offering
<1>4. \A u \in Thread : job'[u].at = "dial" => job[u].at = "dial"
  BY <1>2, <1>3, Started
<1>5. Dialling'
  <2>1. job["app"].at # "dial"
    BY DEF Dialling, Thread
  <2> QED BY <1>4, <2>1 DEF Dialling, Thread
<1>6. job'["app"].at # "reset" => job["app"].at # "reset" \/ t = "app"
  BY <1>2, Started DEF Thread
<1>7. \A u \in Thread : job'[u].frame # Nothing =>
           u = t /\ job'[u].frame = [n |-> n, hidden |-> hidden]
  BY <1>1, <1>2, <1>3, Started
<1>8. StaysHidden' /\ Following'
  BY <1>6, <1>7 DEF StaysHidden, Following
<1>9. \A u \in Thread : job'[u].at = "send" => job'[u].frame # Nothing
  BY <1>2, <1>3, Started DEF Holding, Nothing
<1>10. Holding'
  BY <1>7, <1>9 DEF Holding, TypeOK, Status
<1> QED BY <1>5, <1>8, <1>10

LEMMA SafetyInductive ==
  IInv /\ TypeOK' /\ [Next]_vars => StaysHidden' /\ Dialling' /\ Holding' /\ Following'
<1> SUFFICES ASSUME IInv, TypeOK', [Next]_vars
             PROVE  StaysHidden' /\ Dialling' /\ Holding' /\ Following'
  OBVIOUS
<1> DEFINE Safe == StaysHidden /\ Dialling /\ Holding /\ Following
<1> USE DEF netVars, statusVars
<1>a. TypeOK /\ shown.n \in 0 .. current
  BY DEF IInv, TypeOK, Holding, Status
<1>b. \A t \in Thread : job[t].at = "send" => job[t].frame.n = current
  BY DEF IInv, Holding
<1>c. \A step \in Step : At(step) \in Job /\ At(step).frame = Nothing /\ At(step).at = step
  BY AtIsJob DEF At
<1>1. ASSUME NEW t \in Thread, Send(t) PROVE Safe'
  <2>1. shown'.n \in 0 .. current
    BY <1>1, <1>a, <1>b DEF Send, TypeOK
  <2> QED BY <1>1, <2>1, QuietDone DEF Send
<1>2. ASSUME NEW t \in Thread, LookUp(t) PROVE Safe'
  <2>1. CASE Done(t)
    BY <1>2, <1>a, <2>1, QuietDone DEF LookUp
  <2>2. CASE Go(t, At("offer"))
    BY <1>2, <1>a, <1>c, <2>2, QuietGo DEF LookUp, Step
  <2>3. CASE conn # NoConn /\ Go(t, [job[t] EXCEPT !.at = "flag", !.conn = conn])
    <3>1. job[t] \in Job /\ conn \in Slot \cup {NoConn}
      BY <1>a DEF TypeOK, Job
    <3>2. [job[t] EXCEPT !.at = "flag", !.conn = conn] \in Job
      BY <3>1 DEF Job, Step
    <3> QED BY <1>2, <1>a, <2>3, <3>1, <3>2, QuietGo DEF LookUp, Job
  <2> QED BY <1>2, <2>1, <2>2, <2>3 DEF LookUp
<1>3. ASSUME NEW t \in Thread, SendListen(t) PROVE Safe'
  <2>1. CASE Done(t)
    BY <1>3, <1>a, <2>1, QuietDone DEF SendListen
  <2>2. CASE Go(t, At("offer"))
    BY <1>3, <1>a, <1>c, <2>2, QuietGo DEF SendListen, Step
  <2> QED BY <1>3, <2>1, <2>2 DEF SendListen
<1>4. ASSUME NEW t \in Thread, Fails(t) PROVE Safe'
  <2> DEFINE j == [job[t] EXCEPT !.at = "drop"]
  <2>1. j \in Job /\ j.at = "drop" /\ j.frame = job[t].frame
    <3>1. job[t] \in Job
      BY <1>a DEF TypeOK, Job
    <3> QED BY <3>1 DEF Job, Step
  <2>2. /\ Go(t, j) /\ job[t].at \notin {"off", "reset"}
        /\ conn' = conn /\ UNCHANGED <<current, file, policy, shown, wishes>>
    BY <1>4 DEF Fails
  <2> HIDE DEF j
  <2> QED BY <1>a, <2>1, <2>2, QuietGo
<1>5. ASSUME NEW t \in Thread, DropConn(t) PROVE Safe'
  <2>1. conn' = NoConn
    BY <1>5 DEF DropConn, Drop
  <2>2. CASE Done(t)
    BY <1>5, <1>a, <2>1, <2>2, QuietDone DEF DropConn
  <2>3. CASE Go(t, At("offer"))
    BY <1>5, <1>a, <1>c, <2>1, <2>3, QuietGo DEF DropConn, Step
  <2> QED BY <1>5, <2>2, <2>3 DEF DropConn
<1>6. ASSUME NEW t \in Thread, Dial(t) PROVE Safe'
  <2>1. \A u \in Thread : u # t => job[u].at # "dial"
    BY <1>6 DEF Dial, IInv, Dialling, Thread
  <2> QED BY <1>6, <1>a, <1>c, <2>1, QuietGo DEF Dial, Step
<1>7. ASSUME NEW t \in Thread, DialFails(t) PROVE Safe'
  BY <1>7, <1>a, QuietDone DEF DialFails
<1>8. ASSUME NEW t \in Thread, Restore(t) PROVE Safe'
  <2>1. /\ [At("listen") EXCEPT !.restoring = TRUE] \in Job
        /\ [At("listen") EXCEPT !.restoring = TRUE].frame = Nothing
        /\ [At("listen") EXCEPT !.restoring = TRUE].at = "listen"
    BY <1>c DEF Job, Step
  <2> QED BY <1>8, <1>a, <1>c, <2>1, QuietGo DEF Restore, Step
<1>9. ASSUME NEW t \in Thread, RestoreStatus(t) PROVE Safe'
  <2>1. policy' \in BOOLEAN /\ (file /\ job["app"].at # "reset" => policy')
    BY <1>9, <1>a DEF RestoreStatus, Policy, IInv, Following, TypeOK
  <2>2. (job[t].at = "offer" /\ t # "app") \/ job["app"].at # "reset"
    BY <1>9 DEF RestoreStatus
  <2>3. Offer(t, current, policy', TRUE) /\ current' = current /\ current <= wishes'
    BY <1>9 DEF RestoreStatus, IInv, Holding
  <2>4. current \in 0 .. MaxWishes /\ current <= current
    BY <1>a DEF TypeOK
  <2>5. UNCHANGED <<file, shown, conn>> /\ job[t].at = "offer"
    BY <1>9 DEF RestoreStatus
  <2> QED BY <2>1, <2>2, <2>3, <2>4, <2>5, OfferSafe
<1>10. CASE Beat
  <2>1. policy' \in BOOLEAN /\ (file /\ job["app"].at # "reset" => policy')
    BY <1>10, <1>a DEF Beat, Policy, IInv, Following, TypeOK
  <2>2. Offer("beat", current, policy', TRUE) /\ current' = current /\ current <= wishes'
    BY <1>10 DEF Beat, IInv, Holding
  <2>3. current \in 0 .. MaxWishes /\ current <= current
    BY <1>a DEF TypeOK
  <2>4. UNCHANGED <<file, shown, conn>> /\ job["beat"].at = "idle"
    BY <1>10 DEF Beat
  <2> QED BY <2>1, <2>2, <2>3, <2>4, OfferSafe DEF Thread
<1>11. CASE ResetPolicy
  <2>1. Offer("app", current, file, FALSE) /\ current' = current /\ current <= wishes'
    BY <1>11 DEF ResetPolicy, IInv, Holding
  <2>2. current \in 0 .. MaxWishes /\ current <= current /\ file \in BOOLEAN
    BY <1>a DEF TypeOK
  <2>3. UNCHANGED <<file, shown, conn>> /\ policy' = file /\ job["app"].at = "reset"
    BY <1>11 DEF ResetPolicy
  <2> QED BY <2>1, <2>2, <2>3, OfferSafe DEF Thread
<1>12. CASE Publish
  <2>1. policy' \in BOOLEAN /\ (file => policy')
    BY <1>12, <1>a DEF Publish, Idle, Policy, IInv, Following, TypeOK
  <2>2. current' = current + 1 /\ wishes' = wishes + 1 /\ current <= wishes
    BY <1>12 DEF Publish, Wish, IInv, Holding
  <2>3. Offer("app", current + 1, policy', FALSE) /\ UNCHANGED <<file, shown, conn>>
    BY <1>12, <2>2 DEF Publish
  <2>4. current + 1 \in 0 .. MaxWishes /\ current <= current + 1 /\ current + 1 <= wishes'
    BY <1>12, <1>a, <2>2 DEF Publish, Wish, TypeOK
  <2>5. job["app"].at = "idle"
    BY <1>12 DEF Publish, Idle
  <2> QED BY <2>1, <2>2, <2>3, <2>4, <2>5, OfferSafe DEF Thread
<1>13. CASE Check
  <2>1. CASE conn = NoConn
    <3>1. job'["loop"] = At("dial") /\ \A u \in Thread : u # "loop" => job'[u] = job[u]
      BY <1>13, <1>a, <1>c, <2>1, GoJobs DEF Check, Thread, Step
    <3>2. job["app"].at # "dial"
      BY <1>13 DEF Check, IInv, Dialling
    <3>3. Dialling'
      BY <1>13, <2>1, <3>1, <3>2, <1>c DEF Check, IInv, Dialling, Thread, Step
    <3>4. StaysHidden' /\ Holding' /\ Following'
      BY <1>13, <3>1, <1>c DEF Check, IInv, StaysHidden, Holding, Following, Thread, Step
    <3> QED BY <3>3, <3>4
  <2>2. CASE conn # NoConn
    <3>1. [At("read") EXCEPT !.conn = conn] \in Job
      BY <1>a, <1>c DEF TypeOK, Job, Step
    <3>2. [At("read") EXCEPT !.conn = conn].frame = Nothing /\ [At("read") EXCEPT !.conn = conn].at = "read"
      BY DEF At
    <3> QED BY <1>13, <1>a, <2>2, <3>1, <3>2, QuietGo DEF Check, Thread
  <2> QED BY <2>1, <2>2
<1>14. ASSUME NEW on \in BOOLEAN, SetListening(on) PROVE Safe'
  <2>1. /\ [At("listen") EXCEPT !.on = on] \in Job
        /\ [At("listen") EXCEPT !.on = on].frame = Nothing
        /\ [At("listen") EXCEPT !.on = on].at = "listen"
    BY <1>c DEF Job, Step
  <2> QED BY <1>14, <1>a, <2>1, QuietGo DEF SetListening, Idle, Wish, Thread
<1>15. ASSUME NEW on \in BOOLEAN, SetIncognito(on) PROVE Safe'
  <2>1. job'["app"] = At("reset") /\ \A u \in Thread : u # "app" => job'[u] = job[u]
    BY <1>15, <1>a, <1>c, GoJobs DEF SetIncognito, Thread, Step
  <2>2. StaysHidden' /\ Following'
    BY <2>1, <1>c DEF StaysHidden, Following, Step
  <2>3. Dialling' /\ Holding'
    BY <1>15, <1>a, <2>1, <1>c DEF SetIncognito, Wish, IInv, Dialling, Holding, TypeOK, Thread, Step
  <2> QED BY <2>2, <2>3
<1>16. ASSUME UNCHANGED <<current, file, policy, shown, job>>, conn' \in {conn, NoConn},
              wishes' \in {wishes, wishes + 1}
       PROVE  Safe'
  BY <1>16, <1>a DEF IInv, StaysHidden, Dialling, Holding, Following, TypeOK
<1>17. CASE Kick
  BY <1>16, <1>17 DEF Kick, Drop, Wish
<1>18. ASSUME NEW c \in Slot, PingFails(c) \/ PingDrops(c) \/ Break(c) PROVE Safe'
  BY <1>16, <1>18 DEF PingFails, PingDrops, Break, Drop
<1>19. CASE UNCHANGED vars
  BY <1>16, <1>19 DEF vars
<1> QED
  BY <1>1, <1>2, <1>3, <1>4, <1>5, <1>6, <1>7, <1>8, <1>9, <1>10, <1>11, <1>12, <1>13, <1>14,
     <1>15, <1>17, <1>18, <1>19 DEF Next, Proceed

LEMMA Invariance == Spec => []IInv
<1>1. IInv /\ [Next]_vars => IInv'
  BY TypeInductive, OneLinkInductive, SafetyInductive DEF IInv
<1> QED BY InitInv, <1>1, PTL DEF Spec

-----------------------------------------------------------------------------
\* Types of the transport, the session and its goroutines.
THEOREM LinkTypeOK == Spec => []TypeOK
<1>1. IInv => TypeOK BY DEF IInv
<1> QED BY <1>1, Invariance, PTL

\* However many connections are made, dropped by whoever notices, and broken, the
\* transport never leaves one open behind its back.
THEOREM LinkOneLink == Spec => []OneLink
<1>1. IInv => OneLink BY DEF IInv
<1> QED BY <1>1, Invariance, PTL

\* From the return of SetIncognito(true) on, nothing bare is on its way, whatever the
\* reconnect and the heartbeat read a moment before.
THEOREM LinkStaysHidden == Spec => []StaysHidden
<1>1. IInv => StaysHidden BY DEF IInv
<1> QED BY <1>1, Invariance, PTL

\* The room never sees the phone go back to an older status.
THEOREM LinkNeverBack == Spec => NeverBack
<1>1. IInv /\ [Next]_vars => [shown'.n >= shown.n]_vars
  <2> SUFFICES ASSUME IInv, [Next]_vars PROVE shown'.n >= shown.n
    OBVIOUS
  <2>1. shown.n \in Nat /\ current \in Nat /\ shown.n <= current
    BY DEF IInv, TypeOK, Status, Holding
  <2>2. ASSUME NEW t \in Thread, Send(t) PROVE shown'.n >= shown.n
    BY <2>1, <2>2 DEF Send, IInv, Holding
  <2>3. CASE UNCHANGED shown
    BY <2>1, <2>3
  <2> QED
    BY <2>2, <2>3
       DEF Next, vars, Proceed, LookUp, SendListen, Fails, DropConn, Dial, Restore, RestoreStatus,
           DialFails, Check, Beat, PingFails, PingDrops, Break, SetListening, SetIncognito, Publish,
           ResetPolicy, Kick
<1> QED BY <1>1, Invariance, PTL DEF Spec, NeverBack
=============================================================================
