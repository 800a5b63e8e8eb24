----------------------------- MODULE MailDelivery -----------------------------
(***************************************************************************)
(* What the outbox promises the modules that enqueue mail, whatever the    *)
(* number of runs, crashes and slow answers behind it: a mail has one       *)
(* outcome, reported as sent only when some copy was delivered; a mail     *)
(* marked Once is delivered at most once, and only while it is pending.    *)
(***************************************************************************)
EXTENDS Naturals

CONSTANTS
  Mails,   \* the mails
  Once,    \* those that must never be delivered twice
  Limit    \* bound on the copies of any other mail

VARIABLES
  outcome, \* what the outbox reports of each mail
  copies   \* the deliveries of each mail, numbered

vars == <<outcome, copies>>

Init ==
  /\ outcome = [m \in Mails |-> "absent"]
  /\ copies  = [m \in Mails |-> {}]

Accept(m) ==
  /\ outcome[m] = "absent"
  /\ \E o \in {"pending", "dead"} : outcome' = [outcome EXCEPT ![m] = o]
  /\ UNCHANGED copies

Deliver(m) ==
  /\ outcome[m] # "absent"
  /\ m \in Once => outcome[m] = "pending" /\ copies[m] = {}
  /\ \E n \in (1..Limit) \ copies[m] : copies' = [copies EXCEPT ![m] = @ \cup {n}]
  /\ UNCHANGED outcome

Confirm(m) ==
  /\ outcome[m] = "pending"
  /\ copies[m] # {}
  /\ outcome' = [outcome EXCEPT ![m] = "sent"]
  /\ UNCHANGED copies

GiveUp(m) ==
  /\ outcome[m] = "pending"
  /\ outcome' = [outcome EXCEPT ![m] = "dead"]
  /\ UNCHANGED copies

Next == \E m \in Mails : Accept(m) \/ Deliver(m) \/ Confirm(m) \/ GiveUp(m)

Spec == Init /\ [][Next]_vars
=============================================================================
