----------------------------- MODULE MailQueue -----------------------------
(***************************************************************************)
(* The mail queue: MailService.sendMail adds a job to a BullMQ queue in    *)
(* Redis, and a MailProcessor in each worker process takes jobs and hands  *)
(* them to the mailer.  BullMQ is not part of the repository: locks,       *)
(* attempts, delays and stalled jobs are modelled as the module options    *)
(* and the processor rely on them.                                         *)
(***************************************************************************)
EXTENDS Integers

CONSTANTS
    Mails,       \* what sendMail is called for, each a job of its own
    Workers,     \* the worker processes, with one processor each
    Attempts,    \* defaultJobOptions.attempts
    MaxStalled,  \* how often a job may lose its worker (BullMQ's default: 1)
    None

ASSUME MailAssumption ==
    /\ Attempts \in Nat \ {0}
    /\ MaxStalled \in Nat
    /\ None \notin Mails \cup Workers

VARIABLES
    state,      \* state[m]: where the job of m is
    made,       \* made[m]: its attempts, counted as they end
    stalls,     \* stalls[m]: how often it lost its worker
    owner,      \* owner[m]: the worker that holds its lock
    pc,         \* pc[w]: the await the processor of w is at
    mail,       \* mail[w]: the mail of its job
    calls,      \* calls[m]: how often the mailer was called for m
    delivered,  \* the mails the SMTP server has taken
    logged,     \* the mails the error log names
    silenced    \* the mails whose failure a dying worker took with it

jobs == <<state, made, stalls, owner>>
processors == <<pc, mail>>
log == <<logged, silenced>>
vars == <<jobs, processors, calls, delivered, log>>

Busy == {"sending", "sent", "refused"}

TypeOK ==
    /\ state \in [Mails -> {"absent", "waiting", "active", "delayed",
                            "completed", "failed"}]
    /\ made \in [Mails -> 0..Attempts]
    /\ stalls \in [Mails -> 0..MaxStalled + 1]
    /\ owner \in [Mails -> Workers \cup {None}]
    /\ pc \in [Workers -> Busy \cup {"idle", "event"}]
    /\ mail \in [Workers -> Mails \cup {None}]
    /\ \A w \in Workers : pc[w] = "idle" <=> mail[w] = None
    /\ calls \in [Mails -> Nat]
    /\ delivered \in SUBSET Mails
    /\ logged \in SUBSET Mails
    /\ silenced \in SUBSET Mails

Init ==
    /\ state = [m \in Mails |-> "absent"]
    /\ made = [m \in Mails |-> 0]
    /\ stalls = [m \in Mails |-> 0]
    /\ owner = [m \in Mails |-> None]
    /\ pc = [w \in Workers |-> "idle"]
    /\ mail = [w \in Workers |-> None]
    /\ calls = [m \in Mails |-> 0]
    /\ delivered = {}
    /\ logged = {}
    /\ silenced = {}

---------------------------------------------------------------------------
(* The service and the processor.                                          *)

Becomes(m, s) == state' = [state EXCEPT ![m] = s]
Release(m) == owner' = [owner EXCEPT ![m] = None]
Goto(w, p) == pc' = [pc EXCEPT ![w] = p]
Rest(w) == Goto(w, "idle") /\ mail' = [mail EXCEPT ![w] = None]
Turn(w, m, p) == Goto(w, p) /\ mail' = [mail EXCEPT ![w] = m]

(* sendMail: the add is the handler's last await.                          *)
SendMail(m) ==
    /\ state[m] = "absent"
    /\ Becomes(m, "waiting")
    /\ UNCHANGED <<made, stalls, owner, processors, calls, delivered, log>>

(* A worker locks a waiting job and calls process, which calls the mailer. *)
Process(w, m) ==
    /\ pc[w] = "idle"
    /\ state[m] = "waiting"
    /\ Becomes(m, "active")
    /\ owner' = [owner EXCEPT ![m] = w]
    /\ Turn(w, m, "sending")
    /\ calls' = [calls EXCEPT ![m] = @ + 1]
    /\ UNCHANGED <<made, stalls, delivered, log>>

(* The server takes the mail; its answer may be lost.                      *)
Deliver(w) ==
    /\ pc[w] = "sending"
    /\ delivered' = delivered \cup {mail[w]}
    /\ \E p \in {"sent", "refused"} : Goto(w, p)
    /\ UNCHANGED <<jobs, mail, calls, log>>

(* Mutant: the mailer tries again itself (its default, without retry:      *)
(* false).                                                                 *)
RefuseAndRetry(w) ==
    /\ pc[w] = "sending"
    /\ \/ Goto(w, "refused") /\ UNCHANGED calls
       \/ calls' = [calls EXCEPT ![mail[w]] = @ + 1] /\ UNCHANGED pc
    /\ UNCHANGED <<jobs, mail, delivered, log>>

(* The server refuses the mail, or the connection fails, and sendMail      *)
(* rejects.                                                                *)
Refuse(w) ==
    /\ pc[w] = "sending"
    /\ Goto(w, "refused")
    /\ UNCHANGED <<jobs, mail, calls, delivered, log>>

(* Mutant: the job is completed by whoever has sent it.                    *)
CompleteUnlocked(w) ==
    /\ pc[w] = "sent"
    /\ Becomes(mail[w], "completed")
    /\ Release(mail[w])
    /\ Rest(w)
    /\ UNCHANGED <<made, stalls, calls, delivered, log>>

(* process returns.  A worker that has lost the lock can no longer report. *)
Complete(w) ==
    /\ pc[w] = "sent"
    /\ IF owner[mail[w]] = w
       THEN Becomes(mail[w], "completed") /\ Release(mail[w])
       ELSE UNCHANGED <<state, owner>>
    /\ Rest(w)
    /\ UNCHANGED <<made, stalls, calls, delivered, log>>

(* Mutant: one attempt too many.                                           *)
CountOneMore(m) ==
    /\ made' = [made EXCEPT ![m] = @ + 1]
    /\ Becomes(m, IF made'[m] <= Attempts THEN "delayed" ELSE "failed")
    /\ Release(m)

(* The attempt is counted, and the job delayed by the backoff or, after    *)
(* the last attempt, failed.                                               *)
Count(m) ==
    /\ made' = [made EXCEPT ![m] = @ + 1]
    /\ Becomes(m, IF made[m] + 1 < Attempts THEN "delayed" ELSE "failed")
    /\ Release(m)

(* process rejects.  The failed event is emitted after every attempt that  *)
(* could be counted.                                                       *)
Fail(w) ==
    /\ pc[w] = "refused"
    /\ IF owner[mail[w]] = w
       THEN Count(mail[w]) /\ Goto(w, "event") /\ UNCHANGED mail
       ELSE Rest(w) /\ UNCHANGED <<state, made, owner>>
    /\ UNCHANGED <<stalls, calls, delivered, log>>

(* Mutant: the event is taken to mean that every attempt was made.         *)
OnFailedExhausted(w) ==
    /\ pc[w] = "event"
    /\ logged' = IF made[mail[w]] = Attempts THEN logged \cup {mail[w]}
                                             ELSE logged
    /\ Rest(w)
    /\ UNCHANGED <<jobs, calls, delivered, silenced>>

OnFailed(w) ==
    /\ pc[w] = "event"
    /\ logged' = logged \cup {mail[w]}
    /\ Rest(w)
    /\ UNCHANGED <<jobs, calls, delivered, silenced>>

---------------------------------------------------------------------------
(* What Redis, the clock and failures do.                                  *)

(* The backoff is over.                                                    *)
Wake(m) ==
    /\ state[m] = "delayed"
    /\ Becomes(m, "waiting")
    /\ UNCHANGED <<made, stalls, owner, processors, calls, delivered, log>>

(* A worker that does not renew its lock in time loses it, and goes on.    *)
LoseLock(w) ==
    /\ pc[w] \in Busy
    /\ owner[mail[w]] = w
    /\ Release(mail[w])
    /\ UNCHANGED <<state, made, stalls, processors, calls, delivered, log>>

(* A worker process dies, and another is started in its place.             *)
Die(w) ==
    /\ pc[w] # "idle"
    /\ owner' = [m \in Mails |-> IF owner[m] = w THEN None ELSE owner[m]]
    /\ silenced' = silenced \cup
            {m \in Mails : pc[w] = "event" /\ mail[w] = m /\ state[m] = "failed"}
    /\ Rest(w)
    /\ UNCHANGED <<state, made, stalls, calls, delivered, logged>>

Unattended(m) == state[m] = "active" /\ owner[m] = None

(* An active job nobody holds is found by the stalled check and waits      *)
(* again; a stall is not an attempt.                                       *)
Stall(m) ==
    /\ Unattended(m)
    /\ stalls[m] < MaxStalled
    /\ stalls' = [stalls EXCEPT ![m] = @ + 1]
    /\ Becomes(m, "waiting")
    /\ UNCHANGED <<made, owner, processors, calls, delivered, log>>

(* A job that has stalled too often is failed by the next worker.          *)
Expel(w, m) ==
    /\ pc[w] = "idle"
    /\ Unattended(m)
    /\ stalls[m] = MaxStalled
    /\ stalls' = [stalls EXCEPT ![m] = @ + 1]
    /\ Becomes(m, "failed")
    /\ Turn(w, m, "event")
    /\ UNCHANGED <<made, owner, calls, delivered, log>>

---------------------------------------------------------------------------

Work(w) ==
    \/ \E m \in Mails : Process(w, m) \/ Expel(w, m)
    \/ Deliver(w) \/ Refuse(w) \/ Complete(w) \/ Fail(w) \/ OnFailed(w)

Next ==
    \/ \E w \in Workers : Work(w) \/ LoseLock(w) \/ Die(w)
    \/ \E m \in Mails : SendMail(m) \/ Wake(m) \/ Stall(m)

Spec == Init /\ [][Next]_vars

(* Workers go on working, delays end and the stalled check is repeated.    *)
Fairness ==
    /\ \A w \in Workers : WF_vars(Work(w))
    /\ \A m \in Mails : WF_vars(Wake(m)) /\ WF_vars(Stall(m))

FairSpec == Spec /\ Fairness

(* The queue is the one retry layer (the comment in mail.module.ts): the   *)
(* mailer is called for a mail once per attempt, and once more for each    *)
(* time its job may lose a worker, whatever dies, stalls or is delayed.    *)
CallsAreBounded == \A m \in Mails : calls[m] <= Attempts + MaxStalled

(* A mail that is given up leaves a trace (the comment above onFailed):    *)
(* the error log names it, is about to, or the worker that was to write    *)
(* the entry died.                                                         *)
FailuresAreLogged ==
    \A m \in Mails : state[m] = "failed" =>
        \/ m \in logged \cup silenced
        \/ \E w \in Workers : pc[w] = "event" /\ mail[w] = m

InState(s) == {m \in Mails : state[m] = s}

Promise == INSTANCE Outbox WITH
    posted <- Mails \ InState("absent"),
    done <- InState("completed"),
    dropped <- InState("failed")

(* The queue keeps the promise of Outbox: no mail is settled twice, none   *)
(* is taken for sent that no server took, and every mail is settled.       *)
KeepsPromise == Promise!FairSpec

=============================================================================
