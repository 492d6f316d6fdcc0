------------------------------- MODULE Outbox -------------------------------
(***************************************************************************)
(* What a handler that calls MailService.sendMail is promised: a mail that *)
(* is posted is sooner or later settled, as done when the SMTP server has  *)
(* taken it, or else as dropped; it may arrive more than once, and may     *)
(* arrive although it is dropped; nothing arrives that was not posted.     *)
(***************************************************************************)
CONSTANT Mails

VARIABLES
    posted,     \* the mails sendMail was called for
    delivered,  \* those the SMTP server has taken, once or more often
    done,       \* those the application holds to be sent
    dropped     \* those it has given up

vars == <<posted, delivered, done, dropped>>

Init ==
    /\ posted = {}
    /\ delivered = {}
    /\ done = {}
    /\ dropped = {}

Post(m) ==
    /\ m \notin posted
    /\ posted' = posted \cup {m}
    /\ UNCHANGED <<delivered, done, dropped>>

Deliver(m) ==
    /\ m \in posted
    /\ delivered' = delivered \cup {m}
    /\ UNCHANGED <<posted, done, dropped>>

Settle(m) ==
    /\ m \in posted \ (done \cup dropped)
    /\ \/ m \in delivered /\ done' = done \cup {m} /\ UNCHANGED dropped
       \/ dropped' = dropped \cup {m} /\ UNCHANGED done
    /\ UNCHANGED <<posted, delivered>>

Next == \E m \in Mails : Post(m) \/ Deliver(m) \/ Settle(m)

Spec == Init /\ [][Next]_vars

FairSpec == Spec /\ \A m \in Mails : WF_vars(Settle(m))

=============================================================================
