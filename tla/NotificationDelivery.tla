------------------------ MODULE NotificationDelivery ------------------------
(***************************************************************************)
(* Notifications: rule scans turn what they find in the CMDB into          *)
(* notification_events and messages of the email outbox; workers and       *)
(* administrators claim messages, send them and record the outcome in the  *)
(* message, in its event and in the email settings.                        *)
(*                                                                         *)
(* An action is one transaction, or one step between two transactions; a   *)
(* process may die between any two. One rule; messages of events carry the *)
(* event's deduplication key as their idempotency key. Times are in units  *)
(* of five minutes, kept as the time that is left.                         *)
(***************************************************************************)
EXTENDS Integers, Sequences

CONSTANTS
    Events,       \* deduplication keys of what the rule may find
    Notices,      \* messages without an event: tests, password-change notices
    Workers,      \* notification workers
    Admins,       \* administrators' requests, one at a time each
    Operations,   \* bound: what administrators do
    Situations,   \* bound: what scans find - no candidate of the rule, or one with
                  \*   recipients and a template or without
    MaxAttempts,  \* email_outbox.max_attempts
    Window,       \* events that list_notification_events returns, 500 in the code
    StaleAfter,   \* age at which a sending message is claimed again, 15 minutes
    MaxSettings   \* bound: versions of the email settings

ASSUME DeliveryAssumption ==
    /\ Events \cap Notices = {} /\ Workers \cap Admins = {}
    /\ Operations \subseteq {"evaluate", "send", "retry", "requeue", "notice", "save"}
    /\ {"skip"} \subseteq Situations
    /\ Situations \subseteq {"skip", "no_recipient", "no_template", "ready"}
    /\ MaxAttempts \in Nat \ {0} /\ Window \in Nat \ {0}
    /\ StaleAfter \in Nat \ {0} /\ MaxSettings \in Nat \ {0}

VARIABLES
    situation,   \* what a scan would find of each possible event
    due,         \* the rule's cadence allows another evaluation
    created,     \* notification_events in the order of created_at
    event,       \* their status, and whether they are linked to their message
    mail,        \* email_outbox
    settings,    \* version of the email settings: which save they are from
    proc         \* what each process is doing

rowVars == <<created, event, mail, settings>>
vars == <<situation, due, rowVars, proc>>

----------------------------------------------------------------------------
(* Data *)

Keys == Events \cup Notices
Processes == Workers \cup Admins

\* Minutes double from 5 up to 360.
LongestDelay == 72
RetryDelay(attempts) ==
    IF attempts = 0 THEN 1
    ELSE IF attempts <= 7 THEN <<1, 2, 4, 8, 16, 32, 64>>[attempts]
    ELSE LongestDelay

MaxDelay == IF LongestDelay > StaleAfter THEN LongestDelay ELSE StaleAfter

MailRow == [status : {"none", "queued", "sending", "accepted", "failed", "dead_letter"},
            attempts : 0..MaxAttempts,
            left : 0..MaxDelay]   \* until it may be claimed

EventRow == [status : {"none", "pending", "missing_recipient", "queued", "accepted",
                       "failed", "dead_letter"},
             linked : BOOLEAN]

NoMail == [status |-> "none", attempts |-> 0, left |-> 0]

\* todo: candidates the scan has still to look at; next: what follows the scan or
\* the delivery; attempts, seen: the message and the settings as they were read.
ProcRow == [phase : {"off", "dead", "scan", "compose", "link", "drain", "more", "claim",
                     "claimed", "sending", "record", "mirror", "settings", "retry", "rewrite",
                     "requeue"},
            next : {"off", "drain"},
            todo : [Events -> Situations],
            key : Keys \cup {"none"},
            attempts : 0..MaxAttempts,
            outcome : {"none", "accepted", "failed", "dead_letter", "queued"},
            seen : 0..MaxSettings]

NoTodo == [c \in Events |-> "skip"]
Off == [phase |-> "off", next |-> "off", todo |-> NoTodo, key |-> "none",
        attempts |-> 0, outcome |-> "none", seen |-> 0]

\* Mutants: a message that is being sent is due; attempts have no limit.
ClaimableTwice(m) ==
    /\ mail[m].attempts < MaxAttempts
    /\ mail[m].status \in {"queued", "failed", "sending"}
    /\ mail[m].status = "failed" => mail[m].left = 0
ClaimableForEver(m) == mail[m].status \in {"queued", "failed", "sending"} /\ mail[m].left = 0

\* The event is among the newest that are listed.
Visible(c) ==
    \E i \in DOMAIN created : created[i] = c /\ i > Len(created) - Window

\* claim_email_outbox: due, or sending for so long that its sender must be dead.
Claimable(m) ==
    /\ mail[m].attempts < MaxAttempts
    /\ mail[m].status \in {"queued", "failed", "sending"}
    /\ mail[m].left = 0

Goes(p, phase) == proc' = [proc EXCEPT ![p].phase = phase]
Stops(p) == proc' = [proc EXCEPT ![p] = Off]

\* The delivery is over: on to the next due message, or done.
Returns(p) ==
    proc' = [proc EXCEPT ![p] =
               IF proc[p].next = "off" THEN Off
               ELSE [Off EXCEPT !.phase = IF proc[p].phase = "scan" THEN "drain" ELSE "more",
                                !.next = "drain"]]

\* A change of an event beyond the listed ones is lost without an error.
SetEvent(c, row) == event' = IF Visible(c) THEN [event EXCEPT ![c] = row] ELSE event

----------------------------------------------------------------------------
(* Scans *)

\* A worker's cycle evaluates the rule if it is due and sends what is due then.
StartCycle(p) ==
    /\ p \in Workers /\ proc[p].phase = "off"
    /\ proc' = [proc EXCEPT ![p] = IF due
                  THEN [Off EXCEPT !.phase = "scan", !.next = "drain", !.todo = situation]
                  ELSE [Off EXCEPT !.phase = "drain", !.next = "drain"]]
    /\ UNCHANGED <<situation, due, rowVars>>

\* An administrator evaluates the rule, due or not, or sends what is due.
EvaluateNow(p) ==
    /\ p \in Admins /\ "evaluate" \in Operations /\ proc[p].phase = "off"
    /\ proc' = [proc EXCEPT ![p] = [Off EXCEPT !.phase = "scan", !.todo = situation]]
    /\ UNCHANGED <<situation, due, rowVars>>

SendNow(p) ==
    /\ p \in Admins /\ "send" \in Operations /\ proc[p].phase = "off"
    /\ proc' = [proc EXCEPT ![p] = [Off EXCEPT !.phase = "drain", !.next = "drain"]]
    /\ UNCHANGED <<situation, due, rowVars>>

\* Mutant: only an event that is new gets a message.
ComposedIfNew(c) == c \in Events /\ event[c].status = "none"

\* An event that has no message yet is tried again.
Composed(c) == event[c].status \in {"none", "pending", "missing_recipient"}

\* Insert the event unless its key exists.
CreateEvent(p, c) ==
    /\ proc[p].phase = "scan" /\ proc[p].todo[c] # "skip"
    /\ event[c].status # "none" => Visible(c)
    /\ created' = IF event[c].status = "none" THEN Append(created, c) ELSE created
    /\ event' = IF event[c].status = "none" THEN [event EXCEPT ![c].status = "pending"]
                ELSE event
    /\ proc' = [proc EXCEPT ![p] =
                  IF Composed(c) THEN [@ EXCEPT !.phase = "compose", !.key = c]
                  ELSE [@ EXCEPT !.todo[c] = "skip"]]
    /\ UNCHANGED <<situation, due, mail, settings>>

\* An event that exists and is not listed: next() raises, the cycle is over.
EventNotListed(p, c) ==
    /\ proc[p].phase = "scan" /\ proc[p].todo[c] # "skip"
    /\ event[c].status # "none" /\ ~Visible(c)
    /\ Stops(p)
    /\ UNCHANGED <<situation, due, rowVars>>

ScanContinues(p) ==
    proc' = [proc EXCEPT ![p] =
               [@ EXCEPT !.phase = "scan", !.key = "none", !.todo[proc[p].key] = "skip"]]

\* Nobody to write to, or nothing to write.
NotComposable(p) ==
    LET c == proc[p].key
    IN  /\ proc[p].phase = "compose"
        /\ proc[p].todo[c] \in {"no_recipient", "no_template"}
        /\ IF proc[p].todo[c] = "no_recipient"
           THEN SetEvent(c, [event[c] EXCEPT !.status = "missing_recipient"])
           ELSE UNCHANGED event
        /\ ScanContinues(p)
        /\ UNCHANGED <<situation, due, created, mail, settings>>

\* Mutant: an existing message is queued again.
InsertedAnew(m) == [mail EXCEPT ![m] = [NoMail EXCEPT !.status = "queued"]]

\* INSERT ... ON CONFLICT: the message that exists is kept as it is.
Inserted(m) == IF mail[m] = NoMail
               THEN [mail EXCEPT ![m] = [NoMail EXCEPT !.status = "queued"]] ELSE mail

QueueMail(p) ==
    /\ proc[p].phase = "compose" /\ proc[p].todo[proc[p].key] = "ready"
    /\ mail' = Inserted(proc[p].key)
    /\ Goes(p, "link")
    /\ UNCHANGED <<situation, due, created, event, settings>>

LinkEvent(p) ==
    /\ proc[p].phase = "link"
    /\ SetEvent(proc[p].key, [status |-> "queued", linked |-> TRUE])
    /\ ScanContinues(p)
    /\ UNCHANGED <<situation, due, created, mail, settings>>

\* mark_notification_rule_run.
EndScan(p) ==
    /\ proc[p].phase = "scan" /\ proc[p].todo = NoTodo
    /\ due' = FALSE
    /\ Returns(p)
    /\ UNCHANGED <<situation, rowVars>>

----------------------------------------------------------------------------
(* Deliveries *)

ClaimedMail(m) == [mail EXCEPT ![m] = [status |-> "sending", attempts |-> @.attempts + 1,
                                       left |-> StaleAfter]]

\* A drain claims any due message, a request the one it is about.
Claim(p, m) ==
    /\ \/ proc[p].phase \in {"drain", "more"}
       \/ proc[p].phase = "claim" /\ proc[p].key = m
    /\ Claimable(m)
    /\ mail' = ClaimedMail(m)
    /\ proc' = [proc EXCEPT ![p] = [@ EXCEPT !.phase = "claimed", !.key = m]]
    /\ UNCHANGED <<situation, due, created, event, settings>>

\* Nothing is due, or the drain has reached its limit.
NothingDue(p) ==
    /\ \/ proc[p].phase = "drain" /\ \A m \in Keys : ~Claimable(m)
       \/ proc[p].phase = "more"
       \/ proc[p].phase = "claim" /\ ~Claimable(proc[p].key)
    /\ Stops(p)
    /\ UNCHANGED <<situation, due, rowVars>>

\* Load the claimed message and the email settings.
Load(p) ==
    /\ proc[p].phase = "claimed"
    /\ proc' = [proc EXCEPT ![p] = [@ EXCEPT !.phase = "sending",
                  !.attempts = mail[proc[p].key].attempts, !.seen = settings]]
    /\ UNCHANGED <<situation, due, rowVars>>

\* The stored credentials cannot be decrypted: the error passes every handler and
\* ends the cycle or the request.
CredentialsUnreadable(p) ==
    /\ proc[p].phase = "claimed"
    /\ Stops(p)
    /\ UNCHANGED <<situation, due, rowVars>>

\* Microsoft Graph accepts the message, or the attempt fails.
Send(p) ==
    /\ proc[p].phase = "sending"
    /\ \E accepted \in BOOLEAN :
          proc' = [proc EXCEPT ![p] = [@ EXCEPT !.phase = "record",
                     !.outcome = IF accepted THEN "accepted"
                                 ELSE IF proc[p].attempts >= MaxAttempts
                                      THEN "dead_letter" ELSE "failed"]]
    /\ UNCHANGED <<situation, due, rowVars>>

\* Mutant: attempts are counted from the beginning after each failure.
RecordedAfresh(p) ==
    [status |-> proc[p].outcome, attempts |-> 0,
     left |-> IF proc[p].outcome = "failed" THEN RetryDelay(proc[p].attempts) ELSE 0]

\* The message as update_email_outbox leaves it, whatever has become of it.
Recorded(p) ==
    [status |-> proc[p].outcome, attempts |-> proc[p].attempts,
     left |-> IF proc[p].outcome = "failed" THEN RetryDelay(proc[p].attempts) ELSE 0]

Record(p) ==
    /\ proc[p].phase = "record"
    /\ mail' = [mail EXCEPT ![proc[p].key] = Recorded(p)]
    /\ Goes(p, "mirror")
    /\ UNCHANGED <<situation, due, created, event, settings>>

\* update_notification_event_for_outbox finds the event by its link. A requeue ends
\* here, a delivery goes on to the settings.
Mirror(p) ==
    LET m == proc[p].key
    IN  /\ proc[p].phase = "mirror"
        /\ IF m \in Events /\ event[m].linked
           THEN SetEvent(m, [event[m] EXCEPT !.status = proc[p].outcome])
           ELSE UNCHANGED event
        /\ IF proc[p].outcome = "queued" THEN Stops(p) ELSE Goes(p, "settings")
        /\ UNCHANGED <<situation, due, created, mail, settings>>

\* The status of the settings is saved along with the settings as they were read.
SaveStatus(p) ==
    /\ proc[p].phase = "settings"
    /\ settings' = proc[p].seen
    /\ Returns(p)
    /\ UNCHANGED <<situation, due, created, event, mail>>

----------------------------------------------------------------------------
(* Administrators' requests *)

\* Queue a message that no event stands for and send it.
QueueNotice(p, m) ==
    /\ p \in Admins /\ "notice" \in Operations /\ proc[p].phase = "off"
    /\ mail[m] = NoMail
    /\ mail' = Inserted(m)
    /\ proc' = [proc EXCEPT ![p] = [Off EXCEPT !.phase = "claim", !.key = m]]
    /\ UNCHANGED <<situation, due, created, event, settings>>

\* retry_email_outbox looks at the message first.
Retry(p, m) ==
    /\ p \in Admins /\ "retry" \in Operations /\ proc[p].phase = "off"
    /\ mail[m].status \in {"queued", "failed"} /\ mail[m].attempts < MaxAttempts
    /\ proc' = [proc EXCEPT ![p] = [Off EXCEPT !.phase = "retry", !.key = m]]
    /\ UNCHANGED <<situation, due, rowVars>>

\* update_email_outbox reads the row ...
RetryReads(p) ==
    /\ proc[p].phase = "retry"
    /\ proc' = [proc EXCEPT ![p] = [@ EXCEPT !.phase = "rewrite",
                                            !.attempts = mail[proc[p].key].attempts]]
    /\ UNCHANGED <<situation, due, rowVars>>

\* ... and writes it back as queued. Then it is claimed.
RetryWrites(p) ==
    /\ proc[p].phase = "rewrite"
    /\ mail' = [mail EXCEPT ![proc[p].key] = [status |-> "queued", left |-> 0,
                                              attempts |-> proc[p].attempts]]
    /\ proc' = [proc EXCEPT ![p] = [Off EXCEPT !.phase = "claim", !.key = proc[p].key]]
    /\ UNCHANGED <<situation, due, created, event, settings>>

\* Mutant: a message that is being sent is taken for a dead one.
RequeuesUnfinished(m) == mail[m].status \in {"sending", "dead_letter"}

\* requeue_dead_letter: only dead letters.
Requeueable(m) == mail[m].status = "dead_letter"

Requeue(p, m) ==
    /\ p \in Admins /\ "requeue" \in Operations /\ proc[p].phase = "off"
    /\ Requeueable(m)
    /\ proc' = [proc EXCEPT ![p] = [Off EXCEPT !.phase = "requeue", !.key = m]]
    /\ UNCHANGED <<situation, due, rowVars>>

RequeueWrites(p) ==
    /\ proc[p].phase = "requeue"
    /\ mail' = [mail EXCEPT ![proc[p].key] = [NoMail EXCEPT !.status = "queued"]]
    /\ proc' = [proc EXCEPT ![p] = [@ EXCEPT !.phase = "mirror", !.outcome = "queued"]]
    /\ UNCHANGED <<situation, due, created, event, settings>>

\* update_email_configuration.
SaveSettings ==
    /\ "save" \in Operations
    /\ settings < MaxSettings
    /\ settings' = settings + 1
    /\ UNCHANGED <<situation, due, created, event, mail, proc>>

----------------------------------------------------------------------------
(* Environment *)

Crash(p) ==
    /\ proc[p].phase \notin {"off", "dead"}
    /\ proc' = [proc EXCEPT ![p] = [Off EXCEPT !.phase = "dead"]]
    /\ UNCHANGED <<situation, due, rowVars>>

Restart(p) ==
    /\ proc[p].phase = "dead"
    /\ Stops(p)
    /\ UNCHANGED <<situation, due, rowVars>>

\* The CMDB changes: candidates come and go, get owners and lose them.
CmdbChanges(c, s) ==
    /\ situation' = [situation EXCEPT ![c] = s]
    /\ UNCHANGED <<due, rowVars, proc>>

BecomesDue ==
    /\ due' = TRUE
    /\ UNCHANGED <<situation, rowVars, proc>>

Delivering(p, m) ==
    proc[p].key = m /\ proc[p].phase \in {"claimed", "sending", "record"}

\* Time passes. Every request to Microsoft Graph has a timeout: a process that is
\* alive has recorded its outcome long before its claim is stale.
Tick ==
    /\ \E m \in Keys : mail[m].left > 0
    /\ \A m \in Keys, p \in Processes :
          Delivering(p, m) /\ mail[m].status = "sending" => mail[m].left > 1
    /\ mail' = [m \in Keys |-> [mail[m] EXCEPT !.left = IF @ > 0 THEN @ - 1 ELSE 0]]
    /\ UNCHANGED <<situation, due, created, event, settings, proc>>

----------------------------------------------------------------------------

Init ==
    /\ situation \in [Events -> Situations]
    /\ due = TRUE
    /\ created = <<>>
    /\ event = [c \in Events |-> [status |-> "none", linked |-> FALSE]]
    /\ mail = [m \in Keys |-> NoMail]
    /\ settings = 1
    /\ proc = [p \in Processes |-> Off]

ScanNext(p) ==
    \/ StartCycle(p) \/ EvaluateNow(p) \/ SendNow(p)
    \/ \E c \in Events : CreateEvent(p, c) \/ EventNotListed(p, c)
    \/ NotComposable(p) \/ QueueMail(p) \/ LinkEvent(p) \/ EndScan(p)

DeliveryNext(p) ==
    \/ \E m \in Keys : Claim(p, m)
    \/ NothingDue(p) \/ Load(p) \/ CredentialsUnreadable(p) \/ Send(p)
    \/ Record(p) \/ Mirror(p) \/ SaveStatus(p)

RequestNext(p) ==
    \/ \E m \in Notices : QueueNotice(p, m)
    \/ \E m \in Keys : Retry(p, m) \/ Requeue(p, m)
    \/ RetryReads(p) \/ RetryWrites(p) \/ RequeueWrites(p)

EnvironmentNext ==
    \/ \E p \in Processes : Crash(p) \/ Restart(p)
    \/ \E c \in Events, s \in Situations : CmdbChanges(c, s)
    \/ BecomesDue \/ SaveSettings \/ Tick

Next ==
    \/ \E p \in Processes : ScanNext(p) \/ DeliveryNext(p) \/ RequestNext(p)
    \/ EnvironmentNext

Spec == Init /\ [][Next]_vars

\* What process p does of itself: a worker starts its cycles, everybody gets on with
\* what they started.
Proceeds(p) ==
    \/ Restart(p) \/ StartCycle(p)
    \/ \E c \in Events : CreateEvent(p, c) \/ EventNotListed(p, c)
    \/ NotComposable(p) \/ QueueMail(p) \/ LinkEvent(p) \/ EndScan(p)
    \/ \E m \in Keys : Claim(p, m)
    \/ NothingDue(p) \/ Load(p) \/ Send(p) \/ Record(p) \/ Mirror(p) \/ SaveStatus(p)
    \/ RetryReads(p) \/ RetryWrites(p) \/ RequeueWrites(p)

Dies(p) == Crash(p) \/ CredentialsUnreadable(p)

\* A worker polls for ever, time passes and the rule becomes due again; a drain
\* has a limit. Processes die at any step and administrators retry and requeue what
\* they like, but there is an end to both.
Fairness ==
    /\ WF_vars(BecomesDue) /\ SF_vars(Tick)
    /\ \A p \in Processes : WF_vars(Proceeds(p)) /\ SF_vars(NothingDue(p))
    /\ <>[][\A p \in Processes : ~Dies(p) /\ ~RequestNext(p)]_vars

FairSpec == Spec /\ Fairness

----------------------------------------------------------------------------
(* Properties *)

\* Every variable has its type.
TypeOK ==
    /\ situation \in [Events -> Situations]
    /\ due \in BOOLEAN
    /\ created \in Seq(Events) /\ \A i, j \in DOMAIN created :
                                     created[i] = created[j] => i = j
    /\ event \in [Events -> EventRow]
    /\ mail \in [Keys -> MailRow]
    /\ settings \in 1..MaxSettings
    /\ proc \in [Processes -> ProcRow]

Unfinished(m) == mail[m].status \in {"queued", "failed", "sending"}

\* Scans, drains and requests that overlap, crash and are claimed again never have
\* two live processes deliver one message.
OneSender ==
    \A m \in Keys, p, q \in Processes : Delivering(p, m) /\ Delivering(q, m) => p = q

\* A message that Microsoft Graph accepted is never queued or sent again.
\* "Explicit retries are allowed only for queued or failed messages"
\* (docs/MICROSOFT_365_EMAIL.md:120) - scans, stale claims and one administrator's
\* requeue keep to that, a retry does not: it writes back what it found unsent,
\* though a worker was faster. (Two requeues of one dead letter at once do the same.)
AcceptedStays ==
    [][\A m \in Keys : mail[m].status = "accepted" => mail'[m].status = "accepted"]_vars

\* A message is delivered by one process at a time, and only until it is accepted.
DeliveredOnce == []OneSender /\ AcceptedStays

\* What an administrator reads in the evidence is true: an event that is accepted
\* has a message that was accepted.
EvidenceIsTrue ==
    \A c \in Events : event[c].status = "accepted" => mail[c].status = "accepted"

\* As long as there is a candidate with recipients and a template its message does
\* get queued, though scans die between event and message.
EventsGetMessages ==
    \A c \in Events : <>[](situation[c] = "ready") => <>(mail[c] # NoMail)

\* Due messages are sent (docs/NOTIFICATIONS.md:14): every message is accepted,
\* ends as a dead letter, or has at least used all its attempts.
MessagesGetOn ==
    \A m \in Keys : Unfinished(m) ~> \/ mail[m].status \in {"accepted", "dead_letter"}
                                     \/ mail[m].attempts = MaxAttempts

\* "A stale `sending` claim can be recovered [...] until the rule's maximum attempt
\* count is reached. The row then moves to `dead_letter`" (docs/NOTIFICATIONS.md:40):
\* an unfinished message can still be claimed. Not so after a last attempt that died.
NoneStuck ==
    \A m \in Keys : Unfinished(m) /\ (\A p \in Processes : proc[p].key # m) =>
        mail[m].attempts < MaxAttempts

\* "Acceptance, retry [...] states remain as evidence." (docs/NOTIFICATIONS.md:15)
\* When nobody works any more, the event of an accepted message says so. Not so if
\* a scan or a crash came in between.
EvidenceIsComplete ==
    (\A p \in Processes : proc[p] = Off) => \A c \in Events :
        mail[c].status = "accepted" => event[c].status = "accepted"

\* "Email settings changed. Reload them before saving." (backend/main.py:3863) No
\* save is undone by somebody who read older settings. Not so for deliveries.
SavedSettingsStay == [][settings' >= settings]_vars
============================================================================
