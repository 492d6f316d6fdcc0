-------------------------- MODULE MailQueue_proofs --------------------------
(***************************************************************************)
(* Proofs about MailQueue, for any number of mails, workers, attempts and  *)
(* stalls: the type invariant, the bound on the calls of the mailer, the   *)
(* trace of every failure, and that each step of the queue is a step of    *)
(* Outbox.                                                                 *)
(***************************************************************************)
EXTENDS MailQueue, TLAPS

(* Every call of the mailer belongs to an attempt that was counted, to a   *)
(* stall, or to the one call under way or successful.                      *)
CallsAreCounted ==
    \A m \in Mails : calls[m] = made[m] + stalls[m]
            + (IF state[m] \in {"active", "completed"} THEN 1 ELSE 0)

(* A job is failed by its last attempt or by one stall too many, never by  *)
(* both.                                                                   *)
FailsOnce ==
    \A m \in Mails :
        /\ made[m] = Attempts => state[m] = "failed"
        /\ stalls[m] = MaxStalled + 1 => state[m] = "failed" /\ made[m] < Attempts

(* A lock is held by the worker that is at work on the job.                *)
LocksAreHeld ==
    \A m \in Mails : owner[m] # None =>
        /\ state[m] = "active"
        /\ mail[owner[m]] = m
        /\ pc[owner[m]] \in Busy

(* Only posted mails are worked on and arrive; what is sent has arrived.   *)
NothingFromNothing ==
    /\ \A w \in Workers : mail[w] # None => state[mail[w]] # "absent"
    /\ \A w \in Workers : pc[w] = "sent" => mail[w] \in delivered
    /\ \A m \in delivered : state[m] # "absent"
    /\ \A m \in Mails : state[m] = "completed" => m \in delivered

IInv == TypeOK /\ CallsAreCounted /\ FailsOnce /\ LocksAreHeld
            /\ NothingFromNothing /\ FailuresAreLogged

---------------------------------------------------------------------------

(* The invariant survives every step, whatever the queue, the workers and  *)
(* the server do.                                                          *)
LEMMA InvNext ==
    ASSUME IInv, [Next]_vars
    PROVE  IInv'
PROOF
<1> USE MailAssumption DEF IInv, TypeOK, Busy, jobs, processors, log,
        Becomes, Release, Goto, Rest, Turn
<1>1. ASSUME NEW m \in Mails, SendMail(m) PROVE IInv'
  <2>1. TypeOK'
    BY <1>1 DEF SendMail, FailsOnce
  <2>2. CallsAreCounted'
    BY <1>1 DEF SendMail, CallsAreCounted, LocksAreHeld
  <2>3. FailsOnce'
    BY <1>1 DEF SendMail, FailsOnce
  <2>4. LocksAreHeld'
    BY <1>1 DEF SendMail, LocksAreHeld
  <2>5. NothingFromNothing'
    BY <1>1 DEF SendMail, NothingFromNothing, LocksAreHeld
  <2>6. FailuresAreLogged'
    BY <1>1 DEF SendMail, FailuresAreLogged, LocksAreHeld
  <2> QED BY <2>1, <2>2, <2>3, <2>4, <2>5, <2>6
<1>2. ASSUME NEW m \in Mails, Wake(m) PROVE IInv'
  <2>1. TypeOK'
    BY <1>2 DEF Wake, FailsOnce
  <2>2. CallsAreCounted'
    BY <1>2 DEF Wake, CallsAreCounted, LocksAreHeld
  <2>3. FailsOnce'
    BY <1>2 DEF Wake, FailsOnce
  <2>4. LocksAreHeld'
    BY <1>2 DEF Wake, LocksAreHeld
  <2>5. NothingFromNothing'
    BY <1>2 DEF Wake, NothingFromNothing, LocksAreHeld
  <2>6. FailuresAreLogged'
    BY <1>2 DEF Wake, FailuresAreLogged, LocksAreHeld
  <2> QED BY <2>1, <2>2, <2>3, <2>4, <2>5, <2>6
<1>3. ASSUME NEW m \in Mails, Stall(m) PROVE IInv'
  <2>1. TypeOK'
    BY <1>3 DEF Stall, FailsOnce, Unattended
  <2>2. CallsAreCounted'
    BY <1>3 DEF Stall, CallsAreCounted, LocksAreHeld, Unattended
  <2>3. FailsOnce'
    BY <1>3 DEF Stall, FailsOnce, Unattended
  <2>4. LocksAreHeld'
    BY <1>3 DEF Stall, LocksAreHeld, Unattended
  <2>5. NothingFromNothing'
    BY <1>3 DEF Stall, NothingFromNothing, LocksAreHeld, Unattended
  <2>6. FailuresAreLogged'
    BY <1>3 DEF Stall, FailuresAreLogged, LocksAreHeld, Unattended
  <2> QED BY <2>1, <2>2, <2>3, <2>4, <2>5, <2>6
<1>4. ASSUME NEW w \in Workers, NEW m \in Mails, Process(w, m) PROVE IInv'
  <2>1. TypeOK'
    BY <1>4 DEF Process, FailsOnce
  <2>2. CallsAreCounted'
    BY <1>4 DEF Process, CallsAreCounted, LocksAreHeld
  <2>3. FailsOnce'
    BY <1>4 DEF Process, FailsOnce
  <2>4. LocksAreHeld'
    BY <1>4 DEF Process, LocksAreHeld
  <2>5. NothingFromNothing'
    BY <1>4 DEF Process, NothingFromNothing, LocksAreHeld
  <2>6. FailuresAreLogged'
    BY <1>4 DEF Process, FailuresAreLogged, LocksAreHeld
  <2> QED BY <2>1, <2>2, <2>3, <2>4, <2>5, <2>6
<1>5. ASSUME NEW w \in Workers, NEW m \in Mails, Expel(w, m) PROVE IInv'
  <2>1. TypeOK'
    BY <1>5 DEF Expel, FailsOnce, Unattended
  <2>2. CallsAreCounted'
    BY <1>5 DEF Expel, CallsAreCounted, LocksAreHeld, Unattended
  <2>3. FailsOnce'
    BY <1>5 DEF Expel, FailsOnce, Unattended
  <2>4. LocksAreHeld'
    BY <1>5 DEF Expel, LocksAreHeld, Unattended
  <2>5. NothingFromNothing'
    BY <1>5 DEF Expel, NothingFromNothing, LocksAreHeld, Unattended
  <2>6. FailuresAreLogged'
    BY <1>5 DEF Expel, FailuresAreLogged, LocksAreHeld, Unattended
  <2> QED BY <2>1, <2>2, <2>3, <2>4, <2>5, <2>6
<1>6. ASSUME NEW w \in Workers, Deliver(w) PROVE IInv'
  <2>1. TypeOK'
    BY <1>6 DEF Deliver, FailsOnce
  <2>2. CallsAreCounted'
    BY <1>6 DEF Deliver, CallsAreCounted, LocksAreHeld
  <2>3. FailsOnce'
    BY <1>6 DEF Deliver, FailsOnce
  <2>4. LocksAreHeld'
    BY <1>6 DEF Deliver, LocksAreHeld
  <2>5. NothingFromNothing'
    BY <1>6 DEF Deliver, NothingFromNothing, LocksAreHeld
  <2>6. FailuresAreLogged'
    BY <1>6 DEF Deliver, FailuresAreLogged, LocksAreHeld
  <2> QED BY <2>1, <2>2, <2>3, <2>4, <2>5, <2>6
<1>7. ASSUME NEW w \in Workers, Refuse(w) PROVE IInv'
  <2>1. TypeOK'
    BY <1>7 DEF Refuse, FailsOnce
  <2>2. CallsAreCounted'
    BY <1>7 DEF Refuse, CallsAreCounted, LocksAreHeld
  <2>3. FailsOnce'
    BY <1>7 DEF Refuse, FailsOnce
  <2>4. LocksAreHeld'
    BY <1>7 DEF Refuse, LocksAreHeld
  <2>5. NothingFromNothing'
    BY <1>7 DEF Refuse, NothingFromNothing, LocksAreHeld
  <2>6. FailuresAreLogged'
    BY <1>7 DEF Refuse, FailuresAreLogged, LocksAreHeld
  <2> QED BY <2>1, <2>2, <2>3, <2>4, <2>5, <2>6
<1>8. ASSUME NEW w \in Workers, Complete(w) PROVE IInv'
  <2>1. TypeOK'
    BY <1>8 DEF Complete, FailsOnce
  <2>2. CallsAreCounted'
    BY <1>8 DEF Complete, CallsAreCounted, LocksAreHeld
  <2>3. FailsOnce'
    BY <1>8 DEF Complete, FailsOnce, LocksAreHeld
  <2>4. LocksAreHeld'
    BY <1>8 DEF Complete, LocksAreHeld
  <2>5. NothingFromNothing'
    BY <1>8 DEF Complete, NothingFromNothing, LocksAreHeld
  <2>6. FailuresAreLogged'
    BY <1>8 DEF Complete, FailuresAreLogged, LocksAreHeld
  <2> QED BY <2>1, <2>2, <2>3, <2>4, <2>5, <2>6
<1>9. ASSUME NEW w \in Workers, Fail(w) PROVE IInv'
  <2>1. TypeOK'
    BY <1>9 DEF Fail, FailsOnce, LocksAreHeld, Count
  <2>2. CallsAreCounted'
    BY <1>9 DEF Fail, CallsAreCounted, LocksAreHeld, Count
  <2>3. FailsOnce'
    BY <1>9 DEF Fail, FailsOnce, LocksAreHeld, Count
  <2>4. LocksAreHeld'
    BY <1>9 DEF Fail, LocksAreHeld, Count
  <2>5. NothingFromNothing'
    BY <1>9 DEF Fail, NothingFromNothing, LocksAreHeld, Count
  <2>6. FailuresAreLogged'
    BY <1>9 DEF Fail, FailuresAreLogged, LocksAreHeld, Count
  <2> QED BY <2>1, <2>2, <2>3, <2>4, <2>5, <2>6
<1>10. ASSUME NEW w \in Workers, OnFailed(w) PROVE IInv'
  <2>1. TypeOK'
    BY <1>10 DEF OnFailed, FailsOnce
  <2>2. CallsAreCounted'
    BY <1>10 DEF OnFailed, CallsAreCounted, LocksAreHeld
  <2>3. FailsOnce'
    BY <1>10 DEF OnFailed, FailsOnce
  <2>4. LocksAreHeld'
    BY <1>10 DEF OnFailed, LocksAreHeld
  <2>5. NothingFromNothing'
    BY <1>10 DEF OnFailed, NothingFromNothing, LocksAreHeld
  <2>6. FailuresAreLogged'
    BY <1>10 DEF OnFailed, FailuresAreLogged, LocksAreHeld
  <2> QED BY <2>1, <2>2, <2>3, <2>4, <2>5, <2>6
<1>11. ASSUME NEW w \in Workers, LoseLock(w) PROVE IInv'
  <2>1. TypeOK'
    BY <1>11 DEF LoseLock, FailsOnce
  <2>2. CallsAreCounted'
    BY <1>11 DEF LoseLock, CallsAreCounted, LocksAreHeld
  <2>3. FailsOnce'
    BY <1>11 DEF LoseLock, FailsOnce
  <2>4. LocksAreHeld'
    BY <1>11 DEF LoseLock, LocksAreHeld
  <2>5. NothingFromNothing'
    BY <1>11 DEF LoseLock, NothingFromNothing, LocksAreHeld
  <2>6. FailuresAreLogged'
    BY <1>11 DEF LoseLock, FailuresAreLogged, LocksAreHeld
  <2> QED BY <2>1, <2>2, <2>3, <2>4, <2>5, <2>6
<1>12. ASSUME NEW w \in Workers, Die(w) PROVE IInv'
  <2>1. TypeOK'
    BY <1>12 DEF Die, FailsOnce
  <2>2. CallsAreCounted'
    BY <1>12 DEF Die, CallsAreCounted, LocksAreHeld
  <2>3. FailsOnce'
    BY <1>12 DEF Die, FailsOnce
  <2>4. LocksAreHeld'
    BY <1>12 DEF Die, LocksAreHeld
  <2>5. NothingFromNothing'
    BY <1>12 DEF Die, NothingFromNothing, LocksAreHeld
  <2>6. FailuresAreLogged'
    BY <1>12 DEF Die, FailuresAreLogged, LocksAreHeld
  <2> QED BY <2>1, <2>2, <2>3, <2>4, <2>5, <2>6
<1>13. CASE UNCHANGED vars
  BY <1>13 DEF vars, CallsAreCounted, FailsOnce, LocksAreHeld,
     NothingFromNothing, FailuresAreLogged
<1> QED BY <1>1, <1>2, <1>3, <1>4, <1>5, <1>6, <1>7, <1>8, <1>9, <1>10, <1>11, <1>12, <1>13 DEF Next, Work

LEMMA InvInit ==
    ASSUME Init
    PROVE  IInv
PROOF
BY MailAssumption
DEF Init, IInv, TypeOK, Busy, CallsAreCounted, FailsOnce, LocksAreHeld,
    NothingFromNothing, FailuresAreLogged

(* The strengthened invariant holds in every state of the queue.           *)
THEOREM Invariance == Spec => []IInv
PROOF
<1>1. Init => IInv  BY InvInit
<1>2. IInv /\ [Next]_vars => IInv'  BY InvNext
<1> QED BY <1>1, <1>2, PTL DEF Spec

(* Types, among them that no more attempts and stalls are counted than the *)
(* options allow.                                                          *)
THEOREM QueueTypeCorrect == Spec => []TypeOK
PROOF
<1>1. IInv => TypeOK  BY DEF IInv
<1> QED BY <1>1, Invariance, PTL

(* The mailer is called at most Attempts + MaxStalled times for a mail.    *)
THEOREM RetriesAreBounded == Spec => []CallsAreBounded
PROOF
<1>1. ASSUME IInv PROVE CallsAreBounded
  <2> SUFFICES ASSUME NEW m \in Mails PROVE calls[m] <= Attempts + MaxStalled
    BY DEF CallsAreBounded
  <2>1. /\ made[m] \in 0..Attempts
        /\ stalls[m] \in 0..MaxStalled + 1
    BY <1>1 DEF IInv, TypeOK
  <2>2. calls[m] <= made[m] + stalls[m] + 1
    BY <1>1, <2>1, MailAssumption DEF IInv, CallsAreCounted
  <2>3. CASE state[m] = "failed"
    <3>1. calls[m] = made[m] + stalls[m]
      BY <1>1, <2>1, <2>3, MailAssumption DEF IInv, CallsAreCounted
    <3> QED BY <1>1, <2>1, <3>1, MailAssumption DEF IInv, FailsOnce
  <2>4. CASE state[m] # "failed"
    <3>1. made[m] < Attempts /\ stalls[m] <= MaxStalled
      BY <1>1, <2>1, <2>4, MailAssumption DEF IInv, FailsOnce
    <3> QED BY <1>1, <2>1, <2>2, <3>1, MailAssumption DEF IInv, TypeOK
  <2> QED BY <2>3, <2>4
<1> QED BY <1>1, Invariance, PTL

(* No mail is given up without an entry in the error log, unless a worker  *)
(* took it with it.                                                        *)
THEOREM FailuresLeaveATrace == Spec => []FailuresAreLogged
PROOF
<1>1. IInv => FailuresAreLogged  BY DEF IInv
<1> QED BY <1>1, Invariance, PTL

---------------------------------------------------------------------------

LEMMA PromiseInit ==
    ASSUME Init
    PROVE  Promise!Init
PROOF
BY DEF Init, Promise!Init, InState

(* Each step of the queue is a step of Outbox or changes nothing it sees.  *)
LEMMA PromiseNext ==
    ASSUME IInv, [Next]_vars
    PROVE  [Promise!Next]_(Promise!vars)
PROOF
<1> DEFINE Seen == <<Mails \ InState("absent"), delivered,
                     InState("completed"), InState("failed")>>
<1>0. Promise!vars = Seen /\ Promise!vars' = Seen'  BY DEF Promise!vars
<1> USE MailAssumption DEF IInv, TypeOK, Busy, jobs, processors, log,
        Becomes, Release, Goto, Rest, Turn, InState
<1>1. ASSUME NEW m \in Mails, SendMail(m) PROVE Promise!Post(m)
  BY <1>1 DEF SendMail, Promise!Post
<1>2. ASSUME NEW w \in Workers, Deliver(w)
      PROVE  mail[w] \in Mails /\ Promise!Deliver(mail[w])
  BY <1>2 DEF Deliver, Promise!Deliver, NothingFromNothing
<1>3. ASSUME NEW w \in Workers, Complete(w)
      PROVE  \/ mail[w] \in Mails /\ Promise!Settle(mail[w])
             \/ UNCHANGED Seen
  BY <1>3 DEF Complete, Promise!Settle, NothingFromNothing, LocksAreHeld
<1>4. ASSUME NEW w \in Workers, Fail(w)
      PROVE  \/ mail[w] \in Mails /\ Promise!Settle(mail[w])
             \/ UNCHANGED Seen
  BY <1>4 DEF Fail, Count, Promise!Settle, LocksAreHeld
<1>5. ASSUME NEW w \in Workers, NEW m \in Mails, Expel(w, m)
      PROVE  Promise!Settle(m)
  BY <1>5 DEF Expel, Unattended, Promise!Settle
<1>6. ASSUME NEW w \in Workers, NEW m \in Mails, Process(w, m)
      PROVE  UNCHANGED Seen
  BY <1>6 DEF Process
<1>7. ASSUME NEW w \in Workers, Refuse(w) \/ OnFailed(w) \/ LoseLock(w) \/ Die(w)
      PROVE  UNCHANGED Seen
  BY <1>7 DEF Refuse, OnFailed, LoseLock, Die
<1>8. ASSUME NEW m \in Mails, Wake(m) \/ Stall(m) PROVE UNCHANGED Seen
  BY <1>8 DEF Wake, Stall, Unattended
<1>9. ASSUME UNCHANGED vars PROVE UNCHANGED Seen
  BY <1>9 DEF vars
<1> HIDE DEF Seen, IInv, TypeOK, jobs, processors, log, Becomes, Release,
             Goto, Rest, Turn, InState
<1>10. ASSUME NEW w \in Workers, Work(w) PROVE Promise!Next \/ UNCHANGED Seen
  BY <1>10, <1>2, <1>3, <1>4, <1>5, <1>6, <1>7 DEF Work, Promise!Next
<1>11. ASSUME Next PROVE Promise!Next \/ UNCHANGED Seen
  BY <1>11, <1>1, <1>7, <1>8, <1>10 DEF Next, Promise!Next
<1> QED BY <1>0, <1>9, <1>11

(* The queue implements Outbox: nothing arrives that was not posted, and a *)
(* mail is settled once, as done only if a server took it.                 *)
THEOREM ImplementsOutbox == Spec => Promise!Spec
PROOF
<1>1. Init => Promise!Init  BY PromiseInit
<1>2. IInv /\ [Next]_vars => [Promise!Next]_(Promise!vars)  BY PromiseNext
<1> QED BY <1>1, <1>2, Invariance, PTL DEF Spec, Promise!Spec

=============================================================================
