--------------------------- MODULE Notifications ---------------------------
(***************************************************************************)
(* NotificationService and NotificationRepository.  A request queues a     *)
(* notification: the row is committed as queued, and a background task,    *)
(* run after the response by the same worker, sends it and commits the     *)
(* outcome.  A worker runs the tasks of its response one after the other,  *)
(* and they are kept in memory only.                                       *)
(***************************************************************************)
EXTENDS Integers, Sequences

CONSTANTS
  Sessions,          \* the server's workers, one request each
  Answers,           \* of the providers: a subset of ProviderAnswers
  Topics,            \* what a notification is about, and whom it is for
  MaxNotifications,  \* bound: rows of the table
  NoTopic

\* How a provider's send ends: switched off or without a key; an exception of
\* the HTTP call, which may have reached the provider; a rejection; any other
\* recipient status, delivered or not; a body the client cannot take apart.
ProviderAnswers ==
  {"disabled", "error", "rejected", "accepted", "undelivered", "malformed"}

ASSUME NotificationsAssumption ==
  /\ Answers \subseteq ProviderAnswers
  /\ MaxNotifications \in Nat
  /\ NoTopic \notin Topics

\* A send that ended so counts as delivered.
Successes == {"accepted", "undelivered"}

VARIABLES
  notifications,  \* the notifications table, in the order of the inserts
  session,        \* the workers: the request or the tasks each is busy with
  sends,          \* history: how each send of a row ended, "none" if unanswered
  lost            \* history: rows no task will send: POST /notifications gives
                  \* them none, or it died with its worker

notificationVars == <<notifications, session, sends, lost>>
-----------------------------------------------------------------------------
QUEUED == "queued"
SENT   == "sent"
FAILED == "failed"
READ   == "read"

NotificationStatus  == {QUEUED, SENT, FAILED, READ}
NotificationChannel == {"in_app", "sms", "email"}

Rows == [topic : Topics, channel : NotificationChannel,
         status : NotificationStatus, sent_at : BOOLEAN, read_at : BOOLEAN]

NoRow == [topic |-> NoTopic, channel |-> "in_app", status |-> QUEUED,
          sent_at |-> FALSE, read_at |-> FALSE]

IdleSession == [step |-> "idle", tasks |-> << >>, row |-> NoRow, success |-> FALSE]

Ids == 1 .. MaxNotifications

SessionRecords ==
  [step : {"idle", "background", "loaded", "answered", "creating", "reading"},
   tasks : Seq(Ids), row : Rows \cup {NoRow}, success : BOOLEAN]

NotificationsTypeOK ==
  /\ notifications \in Seq(Rows) /\ Len(notifications) <= MaxNotifications
  /\ session \in [Sessions -> SessionRecords]
  /\ sends \in [Ids -> Seq(Answers \cup {"none"})]
  /\ lost \subseteq Ids

NotificationsInit ==
  /\ notifications = << >>
  /\ session = [s \in Sessions |-> IdleSession]
  /\ sends = [i \in Ids |-> << >>]
  /\ lost = {}
-----------------------------------------------------------------------------
\* Mutation: the task takes the latest row for its own.
CurrentIsLatest(s) == Len(notifications)

\* The row worker s is working on.
Current(s) == Head(session[s].tasks)

NewRow(topic, channel) ==
  [topic |-> topic, channel |-> channel, status |-> QUEUED,
   sent_at |-> FALSE, read_at |-> FALSE]

\* queue_sms_notification and queue_email_notification: the row is committed and
\* a task added to the response of worker s.
Queue(s, topic, channel) ==
  /\ Len(notifications) < MaxNotifications
  /\ notifications' = Append(notifications, NewRow(topic, channel))
  /\ session' = [session EXCEPT ![s].tasks = Append(@, Len(notifications) + 1),
                                ![s].step = "background"]
  /\ UNCHANGED <<sends, lost>>

\* Mutation: an attribute that was not changed is written as null.
StatusColumnNulled(db, loaded, status) == IF loaded = status THEN "null" ELSE status

\* A status is written only if it differs from the one that was read.
StatusColumn(db, loaded, status) == IF loaded = status THEN db ELSE status

\* mark_sent or mark_failed.
MarkOutcome(row, loaded, success) ==
  IF success
  THEN [row EXCEPT !.status = StatusColumn(@, loaded.status, SENT), !.sent_at = TRUE]
  ELSE [row EXCEPT !.status = StatusColumn(@, loaded.status, FAILED)]

MarkRead(row, loaded) ==
  [row EXCEPT !.status = StatusColumn(@, loaded.status, READ), !.read_at = TRUE]

\* Mutation: a task stays queued until it has succeeded.
RemainingUntilSent(s) ==
  IF session[s].success THEN Tail(session[s].tasks) ELSE session[s].tasks

\* Mutation: only the first task of a response is run.
RemainingFirstOnly(s) == << >>

Remaining(s) == Tail(session[s].tasks)

\* Worker s goes on to its next task, or to the next request.
NextTask(s, tasks) ==
  session' = [session EXCEPT ![s] =
    [IdleSession EXCEPT !.step = IF tasks = << >> THEN "idle" ELSE "background",
                        !.tasks = tasks]]
-----------------------------------------------------------------------------
\* A request that queues one notification: a receipt, a rate card, an account
\* notice, a pickup message.
Notify(s, topic, channel) ==
  /\ session[s].step = "idle"
  /\ channel # "in_app"
  /\ Queue(s, topic, channel)

\* dispatch_email_background, dispatch_sms_background: the row is read, the
\* provider called, and its answer committed.
DispatchLoad(s) ==
  /\ session[s].step = "background"
  /\ session' = [session EXCEPT ![s].step = "loaded",
                                ![s].row = notifications[Current(s)]]
  /\ UNCHANGED <<notifications, sends, lost>>

DispatchSend(s, answer) ==
  /\ session[s].step = "loaded"
  /\ answer # "malformed"
  /\ sends' = [sends EXCEPT ![Current(s)] = Append(@, answer)]
  /\ session' = [session EXCEPT ![s].step = "answered",
                                ![s].success = answer \in Successes]
  /\ UNCHANGED <<notifications, lost>>

DispatchCommit(s) ==
  /\ session[s].step = "answered"
  /\ notifications' = [notifications EXCEPT ![Current(s)] =
                         MarkOutcome(@, session[s].row, session[s].success)]
  /\ NextTask(s, Remaining(s))
  /\ UNCHANGED <<sends, lost>>

\* POST /notifications: the row is committed as queued; one for the app is
\* marked sent by a second commit, and nothing sends the others.
CreateBegin(s, topic, channel) ==
  /\ session[s].step = "idle"
  /\ Len(notifications) < MaxNotifications
  /\ notifications' = Append(notifications, NewRow(topic, channel))
  /\ session' = IF channel = "in_app"
                THEN [session EXCEPT ![s] =
                       [IdleSession EXCEPT !.step = "creating",
                                           !.tasks = <<Len(notifications) + 1>>,
                                           !.row = NewRow(topic, channel)]]
                ELSE session
  /\ lost' = IF channel = "in_app" THEN lost ELSE lost \cup {Len(notifications) + 1}
  /\ UNCHANGED sends

CreateCommit(s) ==
  /\ session[s].step = "creating"
  /\ notifications' = [notifications EXCEPT ![Current(s)] =
                         MarkOutcome(@, session[s].row, TRUE)]
  /\ NextTask(s, << >>)
  /\ UNCHANGED <<sends, lost>>

\* POST /notifications/{id}/read, at any status.
ReadBegin(s, i) ==
  /\ session[s].step = "idle"
  /\ i \in DOMAIN notifications
  /\ session' = [session EXCEPT ![s] =
       [IdleSession EXCEPT !.step = "reading", !.tasks = <<i>>,
                           !.row = notifications[i]]]
  /\ UNCHANGED <<notifications, sends, lost>>

ReadCommit(s) ==
  /\ session[s].step = "reading"
  /\ notifications' = [notifications EXCEPT ![Current(s)] = MarkRead(@, session[s].row)]
  /\ NextTask(s, << >>)
  /\ UNCHANGED <<sends, lost>>

TasksOf(s) == {session[s].tasks[i] : i \in DOMAIN session[s].tasks}

\* The worker dies, or a task raises, as one does on a malformed answer: the
\* tasks behind it are not run either.  The one it was at may have been sent.
Die(s) ==
  /\ session[s].step # "idle"
  /\ lost' = IF session[s].step = "reading" THEN lost ELSE lost \cup TasksOf(s)
  /\ sends' = IF session[s].step \in {"background", "loaded"}
              THEN [sends EXCEPT ![Current(s)] = Append(@, "none")] ELSE sends
  /\ session' = [session EXCEPT ![s] = IdleSession]
  /\ UNCHANGED notifications

Dispatch(s) ==
  \/ DispatchLoad(s)
  \/ \E answer \in Answers : DispatchSend(s, answer)
  \/ DispatchCommit(s)

NotificationsNext ==
  \E s \in Sessions :
    \/ \E topic \in Topics, channel \in NotificationChannel :
         Notify(s, topic, channel) \/ CreateBegin(s, topic, channel)
    \/ CreateCommit(s)
    \/ Dispatch(s)
    \/ \E i \in Ids : ReadBegin(s, i)
    \/ ReadCommit(s)
    \/ Die(s)

NotificationsSpec == NotificationsInit /\ [][NotificationsNext]_notificationVars
-----------------------------------------------------------------------------
\* A task for row i is still to be run or running.
Pending(i) ==
  \E s \in Sessions :
    session[s].step \in {"background", "loaded", "answered"} /\ i \in TasksOf(s)

\* A row that the app marks as sent is between its two commits.
Creating(i) == \E s \in Sessions : session[s].step = "creating" /\ i \in TasksOf(s)

\* The row tells how its sending ended.  However workers die and providers
\* answer, none is sent a second time; one that says sent was taken by its
\* provider, or is for the app; one that says failed was not, and has no time of
\* sending; and one that is queued has a task that will still send it, unless
\* its task is lost.  (What the provider then did, a row cannot know: a message
\* whose answer was lost may have arrived, one with any other recipient status
\* may not.)
OutcomeIsTrue ==
  \A i \in DOMAIN notifications :
    LET row == notifications[i]
        delivered == \E answer \in Successes : sends[i] = <<answer>>
    IN  /\ Len(sends[i]) <= 1
        /\ row.status = SENT => row.sent_at
        /\ row.sent_at => delivered \/ row.channel = "in_app"
        /\ row.status = FAILED =>
             ~row.sent_at /\ \E answer \in Answers \ Successes : sends[i] = <<answer>>
        /\ row.status = QUEUED => Pending(i) \/ Creating(i) \/ i \in lost
        /\ delivered => row.sent_at \/ Pending(i) \/ i \in lost

\* A notification keeps the time it was read at whatever is committed over it,
\* and its status read once its dispatch is over.  (While that runs, mark_sent and
\* mark_failed overwrite the status.)
ReadIsFinal ==
  [][\A i \in DOMAIN notifications :
       /\ notifications[i].read_at => notifications'[i].read_at
       /\ notifications[i].status = READ /\ ~Pending(i) /\ ~Creating(i)
            => notifications'[i].status = READ]_notificationVars
=============================================================================
