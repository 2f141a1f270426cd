------------------------------- MODULE Notices -------------------------------
(***************************************************************************)
(* The emails about a reconfirmation window.  Publishing the final terms   *)
(* queues one job that tells every reservation the window is open; while   *)
(* it is open, an hourly job reminds those that have not reconfirmed.      *)
(*                                                                         *)
(* Both send an email and then record it in the audit log, which is all    *)
(* they know of earlier runs.  A send or a record may fail, and with it    *)
(* the run: the queue delivers the first job again until its retries are   *)
(* spent, also while a run that takes too long goes on; the second job's   *)
(* next tick is its retry.                                                 *)
(***************************************************************************)
EXTENDS Naturals, FiniteSets

CONSTANTS
  Reservations,
  Workers,        \* runs of the first job at a time
  NoOne,
  MaxAttempts,    \* deliveries before the job is a dead letter (retryLimit)
  Interval,       \* time between two reminders
  WindowEnd       \* effective_rights_end_at; final_offering_published_at is 0

VARIABLES
  contact,        \* the reservations with a contact email
  awaiting,       \* those in awaiting_reconfirmation
  now,
  job,            \* "queued", "active", "done" or "dead", and how often it was delivered
  notify,         \* the runs of the first job
  told,           \* who was sent the email that the window is open
  toldRows,       \* the audit rows of it
  remind,         \* the run of the second job
  remindedAt,     \* the time of the latest reminder on record, 0 if none
  reminders       \* the time of the run that sent the latest reminder, 0 if none

openedVars == <<job, notify, told, toldRows>>
reminderVars == <<remind, remindedAt, reminders>>
vars == <<contact, awaiting, now, openedVars, reminderVars>>

Idle == [pc |-> "idle", todo |-> {}, of |-> NoOne, at |-> 0]

Init ==
  /\ contact \in SUBSET Reservations /\ awaiting = Reservations
  /\ now = 0
  /\ job = [state |-> "queued", attempts |-> 0]
  /\ notify = [w \in Workers |-> Idle] /\ told = {} /\ toldRows = {}
  /\ remind = Idle
  /\ remindedAt = [k \in Reservations |-> 0]
  /\ reminders = [k \in Reservations |-> 0]

-----------------------------------------------------------------------------
(* NotifyReconfirmationWindowOpenedService.                                *)

getReservationsForReconfirmationWindowOpenedNotification(w) ==
  /\ job.state = "queued" /\ notify[w] = Idle
  /\ job' = [state |-> "active", attempts |-> job.attempts + 1]
  /\ notify' = [notify EXCEPT ![w] = [Idle EXCEPT !.pc = "loop", !.todo = contact \ toldRows]]
  /\ UNCHANGED <<contact, awaiting, now, told, toldRows, reminderVars>>

sendReconfirmationWindowOpenedEmail(w, k) ==
  /\ notify[w].pc = "loop" /\ k \in notify[w].todo
  /\ told' = told \cup {k}
  /\ notify' = [notify EXCEPT ![w].pc = "record", ![w].of = k]
  /\ UNCHANGED <<contact, awaiting, now, job, toldRows, reminderVars>>

recordReconfirmationWindowOpenedNotificationSent(w) ==
  /\ notify[w].pc = "record"
  /\ toldRows' = toldRows \cup {notify[w].of}
  /\ notify' = [notify EXCEPT ![w].pc = "loop", ![w].todo = @ \ {notify[w].of}, ![w].of = NoOne]
  /\ UNCHANGED <<contact, awaiting, now, job, told, reminderVars>>

\* Mutant: the row is written first.
RecordThenSend(w, k) ==
  \/ /\ notify[w].pc = "loop" /\ k \in notify[w].todo
     /\ toldRows' = toldRows \cup {k}
     /\ notify' = [notify EXCEPT ![w].pc = "record", ![w].of = k]
     /\ UNCHANGED <<contact, awaiting, now, job, told, reminderVars>>
  \/ /\ notify[w].pc = "record" /\ notify[w].of = k
     /\ told' = told \cup {k}
     /\ notify' = [notify EXCEPT ![w].pc = "loop", ![w].todo = @ \ {k}, ![w].of = NoOne]
     /\ UNCHANGED <<contact, awaiting, now, job, toldRows, reminderVars>>

Notifies(w, k) ==
  \/ sendReconfirmationWindowOpenedEmail(w, k)
  \/ notify[w].of = k /\ recordReconfirmationWindowOpenedNotificationSent(w)

\* The queue counts the delivery; its retries are limited.
Retried == [job EXCEPT !.state = IF job.attempts < MaxAttempts THEN "queued" ELSE "dead"]

Completes(w) ==
  /\ notify[w].pc = "loop" /\ notify[w].todo = {}
  /\ notify' = [notify EXCEPT ![w] = Idle]
  /\ job' = IF job.state = "active" THEN [job EXCEPT !.state = "done"] ELSE job
  /\ UNCHANGED <<contact, awaiting, now, told, toldRows, reminderVars>>

\* A send or a record fails, or the process stops.
NotifyFails(w) ==
  /\ notify[w].pc # "idle"
  /\ notify' = [notify EXCEPT ![w] = Idle]
  /\ job' = IF job.state = "active" THEN Retried ELSE job
  /\ UNCHANGED <<contact, awaiting, now, told, toldRows, reminderVars>>

\* The run takes longer than the queue waits for it.
JobExpires ==
  /\ job.state = "active"
  /\ job' = Retried
  /\ UNCHANGED <<contact, awaiting, now, notify, told, toldRows, reminderVars>>

-----------------------------------------------------------------------------
(* SendReconfirmationRemindersService.                                     *)

isReconfirmationReminderDue(last) == now < WindowEnd /\ now >= last + Interval

Due == {k \in awaiting \cap contact : isReconfirmationReminderDue(remindedAt[k])}

listReservationsAwaitingReconfirmationForReminders ==
  /\ remind = Idle /\ Due # {}
  /\ remind' = [Idle EXCEPT !.pc = "loop", !.todo = Due, !.at = now]
  /\ UNCHANGED <<contact, awaiting, now, openedVars, remindedAt, reminders>>

sendReconfirmationReminderEmail(k) ==
  /\ remind.pc = "loop" /\ k \in remind.todo
  /\ reminders' = [reminders EXCEPT ![k] = remind.at]
  /\ remind' = [remind EXCEPT !.pc = "record", !.of = k]
  /\ UNCHANGED <<contact, awaiting, now, openedVars, remindedAt>>

recordReconfirmationReminderSent ==
  /\ remind.pc = "record"
  /\ remindedAt' = [remindedAt EXCEPT ![remind.of] = remind.at]
  /\ remind' = IF remind.todo = {remind.of} THEN Idle
               ELSE [remind EXCEPT !.pc = "loop", !.todo = @ \ {remind.of}, !.of = NoOne]
  /\ UNCHANGED <<contact, awaiting, now, openedVars, reminders>>

RemindersFail ==
  /\ remind # Idle
  /\ remind' = Idle
  /\ UNCHANGED <<contact, awaiting, now, openedVars, remindedAt, reminders>>

-----------------------------------------------------------------------------
Reconfirms(k) ==
  /\ k \in awaiting
  /\ awaiting' = awaiting \ {k}
  /\ UNCHANGED <<contact, now, openedVars, reminderVars>>

Tick ==
  /\ now < WindowEnd
  /\ now' = now + 1
  /\ UNCHANGED <<contact, awaiting, openedVars, reminderVars>>

Notify(w) ==
  \/ getReservationsForReconfirmationWindowOpenedNotification(w)
  \/ \E k \in Reservations : Notifies(w, k)
  \/ Completes(w)

WindowOpened ==
  \/ \E w \in Workers : Notify(w) \/ NotifyFails(w)
  \/ JobExpires

ReminderEnds == recordReconfirmationReminderSent \/ RemindersFail

Reminders ==
  \/ listReservationsAwaitingReconfirmationForReminders
  \/ \E k \in Reservations : sendReconfirmationReminderEmail(k) \/ Reconfirms(k)
  \/ ReminderEnds
  \/ Tick

Next == WindowOpened \/ Reminders

Spec == Init /\ [][Next]_vars

\* The queue delivers what is queued and a run goes on, or ends in one of the ways above.
\* The hourly job runs again and again, and not every run of it stops before it has written
\* to a reservation it lists. Time need not pass.
Fairness ==
  /\ \A w \in Workers : WF_vars(Notify(w))
  /\ WF_vars(listReservationsAwaitingReconfirmationForReminders)
  /\ WF_vars(ReminderEnds)
  /\ \A k \in Reservations : SF_vars(sendReconfirmationReminderEmail(k))

FairSpec == Spec /\ Fairness

-----------------------------------------------------------------------------
(* Properties.                                                             *)

\* Who is due a reminder by the emails that were really sent.
Unreminded == {k \in awaiting \cap contact : isReconfirmationReminderDue(reminders[k])}

WindowIsAnnounced == contact \subseteq told \/ job.state = "dead"

\* Delivery is at least once: whatever fails between an email and its audit row, and even
\* when the queue starts a second run beside a slow one, everybody with an email address is
\* told that the window is open, or the job is on record as a dead letter; and who is due a
\* reminder gets it, unless the reservation is reconfirmed or the window closes first.
NoticesReachEveryone ==
  []<>(WindowIsAnnounced /\ Unreminded = {})
=============================================================================
