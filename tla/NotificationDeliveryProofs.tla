--------------------- MODULE NotificationDeliveryProofs ---------------------
(***************************************************************************)
(* Theorems about NotificationDelivery, for any number of events, notices, *)
(* processes and attempts: its types, and - while nobody retries and at    *)
(* most one administrator requeues - that a message is delivered once and  *)
(* that the evidence is true.                                              *)
(***************************************************************************)
EXTENDS MCNotifications, SequenceTheorems, TLAPS

----------------------------------------------------------------------------
(* Types *)

\* What the phase of a process says of the rest of its row.
Fits(row) ==
    /\ row.phase \in {"compose", "link"} => row.key \in Events
    /\ row.phase \in {"claim", "claimed", "sending", "record", "mirror", "retry", "rewrite",
                      "requeue"} => row.key \in Keys
    /\ row.phase = "record" => row.outcome \in {"accepted", "failed", "dead_letter"}
    /\ row.phase = "mirror" =>
          row.outcome \in {"accepted", "failed", "dead_letter", "queued"}
    /\ row.phase \in {"sending", "record", "settings"} => row.seen >= 1
    /\ row.phase = "mirror" /\ row.outcome # "queued" => row.seen >= 1

\* Only what exists has been created.
CreatedExist == \A i \in DOMAIN created : event[created[i]].status # "none"

TypeInv == /\ TypeOK
           /\ CreatedExist
           /\ \A p \in Processes : Fits(proc[p])

LEMMA Constants ==
    /\ MaxAttempts \in Nat /\ MaxAttempts >= 1 /\ Window \in Nat /\ Window >= 1
    /\ StaleAfter \in Nat /\ StaleAfter >= 1 /\ MaxSettings \in Nat /\ MaxSettings >= 1
    /\ "skip" \in Situations
    /\ Events \subseteq Keys /\ Notices \subseteq Keys
    /\ Workers \subseteq Processes /\ Admins \subseteq Processes
    /\ 0 \in 0..MaxAttempts /\ 0 \in 0..MaxSettings
  BY DeliveryAssumption DEF Keys, Processes

LEMMA Delays ==
    /\ MaxDelay \in Nat /\ 0 \in 0..MaxDelay /\ StaleAfter \in 0..MaxDelay
    /\ \A attempts \in Nat : RetryDelay(attempts) \in 0..MaxDelay
  <1>1. MaxDelay \in Nat /\ MaxDelay >= 72 /\ MaxDelay >= StaleAfter
    BY Constants DEF MaxDelay, LongestDelay
  <1>2. ASSUME NEW attempts \in Nat
        PROVE  RetryDelay(attempts) \in 0..72
    <2>1. CASE attempts \in 1..7
      <3>1. \/ attempts = 1 \/ attempts = 2 \/ attempts = 3 \/ attempts = 4
            \/ attempts = 5 \/ attempts = 6 \/ attempts = 7
        BY <2>1
      <3> QED
        BY <3>1 DEF RetryDelay, LongestDelay
    <2>2. CASE attempts \notin 1..7
      BY <2>2 DEF RetryDelay, LongestDelay
    <2> QED
      BY <2>1, <2>2
  <1> QED
    BY <1>1, <1>2, Constants

LEMMA OffIsRow == Off \in ProcRow /\ Off.phase = "off" /\ NoTodo \in [Events -> Situations]
  <1>1. NoTodo \in [Events -> Situations]
    BY Constants DEF NoTodo
  <1> QED
    BY <1>1, Constants DEF Off, ProcRow

LEMMA InitTypes == Init => TypeInv
  <1> SUFFICES ASSUME Init PROVE TypeInv
    OBVIOUS
  <1>1. TypeOK
    <2>1. NoMail \in MailRow
      BY Constants, Delays DEF NoMail, MailRow
    <2>2. mail \in [Keys -> MailRow] /\ proc \in [Processes -> ProcRow]
      BY <2>1, OffIsRow DEF Init
    <2>3. event \in [Events -> EventRow]
      BY DEF Init, EventRow
    <2>4. created \in Seq(Events) /\ \A i, j \in DOMAIN created :
                                         created[i] = created[j] => i = j
      BY DEF Init
    <2>5. settings \in 1..MaxSettings
      BY Constants DEF Init
    <2> QED
      BY <2>2, <2>3, <2>4, <2>5 DEF Init, TypeOK
  <1>2. CreatedExist
    BY DEF Init, CreatedExist
  <1>3. \A p \in Processes : Fits(proc[p])
    BY OffIsRow DEF Init, Fits
  <1> QED
    BY <1>1, <1>2, <1>3 DEF TypeInv

\* A step of one process.
LEMMA ProcStep ==
    ASSUME TypeInv, NEW p \in Processes, NEW row \in ProcRow, Fits(row),
           proc' = [proc EXCEPT ![p] = row]
    PROVE  /\ proc' \in [Processes -> ProcRow]
           /\ \A q \in Processes : Fits(proc'[q])
           /\ proc'[p] = row /\ \A q \in Processes \ {p} : proc'[q] = proc[q]
  <1>1. proc \in [Processes -> ProcRow]
    BY DEF TypeInv, TypeOK
  <1>2. proc'[p] = row /\ \A q \in Processes \ {p} : proc'[q] = proc[q]
    BY <1>1
  <1> QED
    BY <1>1, <1>2 DEF TypeInv

LEMMA SetEventTypes ==
    ASSUME TypeInv, NEW c \in Events, NEW row \in EventRow, row.status # "none",
           created' = created, SetEvent(c, row) \/ event' = event
    PROVE  event' \in [Events -> EventRow] /\ CreatedExist'
  <1>1. /\ event \in [Events -> EventRow] /\ created \in Seq(Events)
        /\ \A i \in DOMAIN created : created[i] \in Events /\ event[created[i]].status # "none"
    BY DEF TypeInv, TypeOK, CreatedExist
  <1>2. event' = event \/ event' = [event EXCEPT ![c] = row]
    BY DEF SetEvent
  <1> QED
    BY <1>1, <1>2 DEF CreatedExist

LEMMA MailTypes ==
    ASSUME TypeInv, NEW m \in Keys, NEW row \in MailRow, mail' = [mail EXCEPT ![m] = row]
    PROVE  mail' \in [Keys -> MailRow]
  BY DEF TypeInv, TypeOK

\* While they only look, processes change nothing else.
LEMMA LookingTypes ==
    ASSUME TypeInv, NEW p \in Processes, NEW row \in ProcRow, Fits(row),
           proc' = [proc EXCEPT ![p] = row],
           situation' = situation, created' = created, event' = event,
           mail' \in [Keys -> MailRow], due' \in BOOLEAN, settings' \in 1..MaxSettings
    PROVE  TypeInv'
  <1>1. /\ proc' \in [Processes -> ProcRow]
        /\ \A q \in Processes : Fits(proc'[q])
    BY ProcStep
  <1>2. TypeOK'
    BY <1>1 DEF TypeInv, TypeOK
  <1>3. CreatedExist'
    BY DEF TypeInv, CreatedExist
  <1> QED
    BY <1>1, <1>2, <1>3 DEF TypeInv

LEMMA RowOf ==
    ASSUME TypeInv, NEW p \in Processes
    PROVE  /\ proc[p] \in ProcRow /\ Fits(proc[p])
           /\ mail \in [Keys -> MailRow] /\ due \in BOOLEAN /\ settings \in 1..MaxSettings
           /\ situation \in [Events -> Situations] /\ event \in [Events -> EventRow]
  BY DEF TypeInv, TypeOK

\* What a process that stops or goes on to the next message leaves behind.
LEMMA ReturnRows ==
    ASSUME NEW p \in Processes
    PROVE  /\ Fits(Off)
           /\ \A phase \in {"drain", "more", "dead"}, next \in {"off", "drain"} :
                 /\ [Off EXCEPT !.phase = phase, !.next = next] \in ProcRow
                 /\ Fits([Off EXCEPT !.phase = phase, !.next = next])
  <1>1. Fits(Off)
    BY OffIsRow DEF Fits
  <1>2. ASSUME NEW phase \in {"drain", "more", "dead"}, NEW next \in {"off", "drain"}
        PROVE  /\ [Off EXCEPT !.phase = phase, !.next = next] \in ProcRow
               /\ Fits([Off EXCEPT !.phase = phase, !.next = next])
    <2> DEFINE row == [Off EXCEPT !.phase = phase, !.next = next]
    <2>1. row \in ProcRow /\ row.phase = phase
      BY OffIsRow DEF ProcRow
    <2> HIDE DEF row
    <2>2. Fits(row)
      BY <2>1 DEF Fits
    <2> QED
      BY <2>1, <2>2 DEF row
  <1> QED
    BY <1>1, <1>2

LEMMA ReturnsRow ==
    ASSUME TypeInv, NEW p \in Processes, Returns(p) \/ Stops(p)
    PROVE  \E row \in ProcRow : /\ Fits(row) /\ proc' = [proc EXCEPT ![p] = row]
                                /\ row.phase \in {"off", "drain", "more"}
  <1>1. CASE proc' = [proc EXCEPT ![p] = Off]
    BY <1>1, OffIsRow, ReturnRows
  <1>2. CASE proc' # [proc EXCEPT ![p] = Off]
    <2>1. PICK phase \in {"drain", "more"} :
             proc' = [proc EXCEPT ![p] = [Off EXCEPT !.phase = phase, !.next = "drain"]]
      <3>1. CASE proc[p].phase = "scan"
        BY <1>2, <3>1 DEF Returns, Stops
      <3>2. CASE proc[p].phase # "scan"
        BY <1>2, <3>2 DEF Returns, Stops
      <3> QED
        BY <3>1, <3>2
    <2> DEFINE row == [Off EXCEPT !.phase = phase, !.next = "drain"]
    <2>2. row \in ProcRow /\ Fits(row)
      BY ReturnRows
    <2>3. row.phase = phase
      BY OffIsRow DEF ProcRow
    <2> QED
      BY <2>1, <2>2, <2>3
  <1> QED
    BY <1>1, <1>2

\* Scans that begin, and all that stops or returns.
LEMMA BeginTypes ==
    ASSUME TypeInv, NEW p \in Processes,
           \/ StartCycle(p) \/ EvaluateNow(p) \/ SendNow(p)
           \/ \E c \in Events : EventNotListed(p, c)
           \/ EndScan(p) \/ NothingDue(p) \/ CredentialsUnreadable(p)
           \/ Crash(p) \/ Restart(p)
    PROVE  TypeInv'
  <1>1. /\ situation' = situation /\ created' = created /\ event' = event
        /\ mail' = mail /\ due' \in BOOLEAN /\ settings' = settings
    BY RowOf
    DEF StartCycle, EvaluateNow, SendNow, EventNotListed, EndScan, NothingDue,
        CredentialsUnreadable, Crash, Restart, rowVars
  <1>2. \E row \in ProcRow : Fits(row) /\ proc' = [proc EXCEPT ![p] = row]
    <2>1. ASSUME NEW next \in {"off", "drain"}
          PROVE  /\ [Off EXCEPT !.phase = "scan", !.next = next, !.todo = situation] \in ProcRow
                 /\ Fits([Off EXCEPT !.phase = "scan", !.next = next, !.todo = situation])
      <3> DEFINE row == [Off EXCEPT !.phase = "scan", !.next = next, !.todo = situation]
      <3>1. row \in ProcRow /\ row.phase = "scan"
        BY OffIsRow, RowOf DEF ProcRow
      <3> HIDE DEF row
      <3>2. Fits(row)
        BY <3>1 DEF Fits
      <3> QED
        BY <3>1, <3>2 DEF row
    <2>2. CASE StartCycle(p)
      <3>1. CASE due
        <4>1. proc' = [proc EXCEPT ![p] =
                         [Off EXCEPT !.phase = "scan", !.next = "drain", !.todo = situation]]
          BY <2>2, <3>1 DEF StartCycle
        <4> QED
          BY <2>1, <4>1
      <3>2. CASE ~due
        <4>1. proc' = [proc EXCEPT ![p] = [Off EXCEPT !.phase = "drain", !.next = "drain"]]
          BY <2>2, <3>2 DEF StartCycle
        <4> QED
          BY <4>1, ReturnRows
      <3> QED
        BY <3>1, <3>2
    <2>3. CASE EvaluateNow(p)
      <3> DEFINE row == [Off EXCEPT !.phase = "scan", !.todo = situation]
      <3>1. row \in ProcRow /\ row.phase = "scan"
        BY OffIsRow, RowOf DEF ProcRow
      <3>2. proc' = [proc EXCEPT ![p] = row]
        BY <2>3 DEF EvaluateNow
      <3> HIDE DEF row
      <3>3. Fits(row)
        BY <3>1 DEF Fits
      <3> QED
        BY <3>1, <3>2, <3>3
    <2>4. CASE SendNow(p)
      <3>1. proc' = [proc EXCEPT ![p] = [Off EXCEPT !.phase = "drain", !.next = "drain"]]
        BY <2>4 DEF SendNow
      <3> QED
        BY <3>1, ReturnRows
    <2>5. CASE Crash(p)
      <3> DEFINE row == [Off EXCEPT !.phase = "dead"]
      <3>1. row \in ProcRow /\ row.phase = "dead"
        BY OffIsRow DEF ProcRow
      <3>2. proc' = [proc EXCEPT ![p] = row]
        BY <2>5 DEF Crash
      <3> HIDE DEF row
      <3>3. Fits(row)
        BY <3>1 DEF Fits
      <3> QED
        BY <3>1, <3>2, <3>3
    <2>6. CASE \/ \E c \in Events : EventNotListed(p, c)
               \/ EndScan(p) \/ NothingDue(p) \/ CredentialsUnreadable(p) \/ Restart(p)
      <3>1. Returns(p) \/ Stops(p)
        BY <2>6 DEF EventNotListed, EndScan, NothingDue, CredentialsUnreadable, Restart
      <3> QED
        BY <3>1, ReturnsRow
    <2> QED
      BY <2>2, <2>3, <2>4, <2>5, <2>6
  <1> QED
    BY <1>1, <1>2, RowOf, LookingTypes

LEMMA CreateEventTypes ==
    ASSUME TypeInv, NEW p \in Processes, NEW c \in Events, CreateEvent(p, c)
    PROVE  TypeInv'
  <1>1. situation' = situation /\ due' = due /\ mail' = mail /\ settings' = settings
    BY DEF CreateEvent
  <1>2. \E row \in ProcRow : Fits(row) /\ proc' = [proc EXCEPT ![p] = row]
    <2>1. proc[p] \in ProcRow /\ Fits(proc[p]) /\ c \in Keys
      BY RowOf, Constants
    <2>2. CASE Composed(c)
      <3> DEFINE row == [proc[p] EXCEPT !.phase = "compose", !.key = c]
      <3>1. row \in ProcRow /\ row.phase = "compose" /\ row.key = c
        BY <2>1 DEF ProcRow
      <3>2. proc' = [proc EXCEPT ![p] = row]
        BY <2>2 DEF CreateEvent
      <3> HIDE DEF row
      <3>3. Fits(row)
        BY <3>1 DEF Fits
      <3> QED
        BY <3>1, <3>2, <3>3
    <2>3. CASE ~Composed(c)
      <3> DEFINE row == [proc[p] EXCEPT !.todo[c] = "skip"]
      <3>1. row \in ProcRow /\ row.phase = proc[p].phase /\ row.key = proc[p].key
            /\ row.outcome = proc[p].outcome /\ row.seen = proc[p].seen
        BY <2>1, Constants DEF ProcRow
      <3>2. proc' = [proc EXCEPT ![p] = row]
        BY <2>3 DEF CreateEvent
      <3> HIDE DEF row
      <3>3. Fits(row)
        BY <2>1, <3>1 DEF Fits
      <3> QED
        BY <3>1, <3>2, <3>3
    <2> QED
      BY <2>2, <2>3
  <1>3. /\ proc' \in [Processes -> ProcRow]
        /\ \A q \in Processes : Fits(proc'[q])
    BY <1>2, ProcStep
  <1>4. /\ event' \in [Events -> EventRow] /\ CreatedExist' /\ created' \in Seq(Events)
        /\ \A i, j \in DOMAIN created' : created'[i] = created'[j] => i = j
    <2>1. /\ event \in [Events -> EventRow] /\ created \in Seq(Events)
          /\ \A i, j \in DOMAIN created : created[i] = created[j] => i = j
          /\ \A i \in DOMAIN created : event[created[i]].status # "none"
      BY DEF TypeInv, TypeOK, CreatedExist
    <2>2. CASE event[c].status # "none"
      <3>1. created' = created /\ event' = event
        BY <2>2 DEF CreateEvent
      <3> QED
        BY <2>1, <3>1 DEF CreatedExist
    <2>3. CASE event[c].status = "none"
      <3>1. created' = Append(created, c) /\ event' = [event EXCEPT ![c].status = "pending"]
        BY <2>3 DEF CreateEvent
      <3>2. /\ event' \in [Events -> EventRow] /\ event'[c].status = "pending"
            /\ \A e \in Events \ {c} : event'[e] = event[e]
        BY <2>1, <3>1 DEF EventRow
      <3> DEFINE n == Len(created)
      <3>3. n \in Nat /\ DOMAIN created = 1..n
            /\ \A i \in 1..n : created[i] \in Events /\ created[i] # c
        BY <2>1, <2>3
      <3>4. /\ created' \in Seq(Events) /\ DOMAIN created' = 1..(n + 1)
            /\ created'[n + 1] = c /\ \A i \in 1..n : created'[i] = created[i]
        BY <2>1, <3>1, <3>3
      <3> HIDE DEF n
      <3>5. \A i \in 1..(n + 1) : i \in 1..n \/ i = n + 1
        BY <3>3
      <3>6. CreatedExist'
        BY <2>1, <3>2, <3>3, <3>4, <3>5 DEF CreatedExist
      <3>7. \A i, j \in DOMAIN created' : created'[i] = created'[j] => i = j
        BY <2>1, <3>3, <3>4, <3>5
      <3> QED
        BY <3>2, <3>4, <3>6, <3>7
    <2> QED
      BY <2>2, <2>3
  <1> QED
    BY <1>1, <1>3, <1>4 DEF TypeInv, TypeOK

\* A row with another phase, where the key fits it already.
LEMMA PhaseRow ==
    ASSUME NEW row \in ProcRow, Fits(row), NEW phase \in {"link", "mirror", "settings"},
           phase = "link" => row.key \in Events,
           phase = "mirror" => row.phase = "record",
           phase = "settings" => row.phase = "mirror" /\ row.outcome # "queued"
    PROVE  /\ [row EXCEPT !.phase = phase] \in ProcRow
           /\ Fits([row EXCEPT !.phase = phase])
  <1> DEFINE next == [row EXCEPT !.phase = phase]
  <1>1. /\ next \in ProcRow /\ next.phase = phase /\ next.key = row.key
        /\ next.outcome = row.outcome /\ next.seen = row.seen
    BY DEF ProcRow
  <1> HIDE DEF next
  <1>2. Fits(next)
    BY <1>1 DEF Fits
  <1> QED
    BY <1>1, <1>2 DEF next

LEMMA ContinueRow ==
    ASSUME TypeInv, NEW p \in Processes, ScanContinues(p)
    PROVE  \E row \in ProcRow : /\ Fits(row) /\ proc' = [proc EXCEPT ![p] = row]
                                /\ row.phase = "scan"
  <1> DEFINE row == [proc[p] EXCEPT !.phase = "scan", !.key = "none",
                                    !.todo[proc[p].key] = "skip"]
  <1>1. row \in ProcRow /\ row.phase = "scan"
    <2>1. PICK old \in ProcRow : old = proc[p]
      BY RowOf
    <2>2. old.todo \in [Events -> Situations] /\ "skip" \in Situations
      BY Constants DEF ProcRow
    <2>3. PICK todo \in [Events -> Situations] : todo = [old.todo EXCEPT ![old.key] = "skip"]
      BY <2>2
    <2>4. row = [old EXCEPT !.phase = "scan", !.key = "none", !.todo = todo]
      BY <2>1, <2>3 DEF ProcRow
    <2> HIDE DEF row
    <2> QED
      BY <2>4 DEF ProcRow
  <1>2. proc' = [proc EXCEPT ![p] = row]
    BY DEF ScanContinues
  <1> HIDE DEF row
  <1>3. Fits(row)
    BY <1>1 DEF Fits
  <1> QED
    BY <1>1, <1>2, <1>3

LEMMA ComposeTypes ==
    ASSUME TypeInv, NEW p \in Processes, NotComposable(p) \/ LinkEvent(p)
    PROVE  TypeInv'
  <1> DEFINE c == proc[p].key
  <1>1. c \in Events /\ event[c] \in EventRow
    BY RowOf DEF NotComposable, LinkEvent, Fits
  <1>2. /\ situation' = situation /\ due' = due /\ mail' = mail /\ settings' = settings
        /\ created' = created
    BY DEF NotComposable, LinkEvent
  <1>3. \E row \in ProcRow : Fits(row) /\ proc' = [proc EXCEPT ![p] = row]
    BY ContinueRow DEF NotComposable, LinkEvent
  <1>4. /\ proc' \in [Processes -> ProcRow]
        /\ \A q \in Processes : Fits(proc'[q])
    BY <1>3, ProcStep
  <1>5. event' \in [Events -> EventRow] /\ CreatedExist'
    <2>1. CASE NotComposable(p)
      <3> DEFINE row == [event[c] EXCEPT !.status = "missing_recipient"]
      <3>1. row \in EventRow /\ row.status = "missing_recipient"
        BY <1>1 DEF EventRow
      <3>2. SetEvent(c, row) \/ event' = event
        BY <2>1 DEF NotComposable
      <3> HIDE DEF row
      <3> QED
        BY <1>1, <1>2, <3>1, <3>2, SetEventTypes
    <2>2. CASE LinkEvent(p)
      <3> DEFINE row == [status |-> "queued", linked |-> TRUE]
      <3>1. row \in EventRow /\ row.status = "queued"
        BY DEF EventRow
      <3>2. SetEvent(c, row)
        BY <2>2 DEF LinkEvent
      <3> HIDE DEF row
      <3> QED
        BY <1>1, <1>2, <3>1, <3>2, SetEventTypes
    <2> QED
      BY <2>1, <2>2
  <1> QED
    BY <1>2, <1>4, <1>5 DEF TypeInv, TypeOK

LEMMA NoMailIsRow ==
    /\ NoMail \in MailRow /\ [NoMail EXCEPT !.status = "queued"] \in MailRow
    /\ NoMail.status = "none" /\ [NoMail EXCEPT !.status = "queued"].status = "queued"
  BY Constants, Delays DEF NoMail, MailRow

LEMMA InsertedTypes ==
    ASSUME TypeInv, NEW m \in Keys, mail' = Inserted(m)
    PROVE  mail' \in [Keys -> MailRow]
  <1>1. CASE mail[m] = NoMail
    BY <1>1, NoMailIsRow, MailTypes DEF Inserted
  <1>2. CASE mail[m] # NoMail
    BY <1>2 DEF Inserted, TypeInv, TypeOK
  <1> QED
    BY <1>1, <1>2

LEMMA QueueTypes ==
    ASSUME TypeInv, NEW p \in Processes,
           QueueMail(p) \/ \E m \in Notices : QueueNotice(p, m)
    PROVE  TypeInv'
  <1>1. /\ situation' = situation /\ due' = due /\ settings' = settings
        /\ created' = created /\ event' = event
    BY DEF QueueMail, QueueNotice
  <1>2. CASE QueueMail(p)
    <2>1. proc[p].key \in Events
      BY <1>2, RowOf DEF QueueMail, Fits
    <2>2. mail' \in [Keys -> MailRow]
      BY <1>2, <2>1, InsertedTypes, Constants DEF QueueMail
    <2>3. proc' = [proc EXCEPT ![p] = [proc[p] EXCEPT !.phase = "link"]]
      BY <1>2 DEF QueueMail, Goes
    <2>4. /\ [proc[p] EXCEPT !.phase = "link"] \in ProcRow
          /\ Fits([proc[p] EXCEPT !.phase = "link"])
      BY <2>1, RowOf, PhaseRow
    <2> QED
      BY <1>1, <2>2, <2>3, <2>4, RowOf, LookingTypes
  <1>3. ASSUME NEW m \in Notices, QueueNotice(p, m)
        PROVE  TypeInv'
    <2> DEFINE row == [Off EXCEPT !.phase = "claim", !.key = m]
    <2>1. m \in Keys
      BY Constants
    <2>2. mail' \in [Keys -> MailRow]
      BY <1>3, <2>1, InsertedTypes DEF QueueNotice
    <2>3. row \in ProcRow /\ row.phase = "claim" /\ row.key = m
      BY <2>1, OffIsRow DEF ProcRow
    <2>4. proc' = [proc EXCEPT ![p] = row]
      BY <1>3 DEF QueueNotice
    <2> HIDE DEF row
    <2>5. Fits(row)
      BY <2>1, <2>3 DEF Fits
    <2> QED
      BY <1>1, <2>2, <2>3, <2>4, <2>5, RowOf, LookingTypes
  <1> QED
    BY <1>2, <1>3

LEMMA ClaimTypes ==
    ASSUME TypeInv, NEW p \in Processes, NEW m \in Keys, Claim(p, m)
    PROVE  TypeInv'
  <1> DEFINE row == [proc[p] EXCEPT !.phase = "claimed", !.key = m]
  <1>1. /\ situation' = situation /\ due' = due /\ settings' = settings
        /\ created' = created /\ event' = event
        /\ proc' = [proc EXCEPT ![p] = row]
    BY DEF Claim
  <1>2. mail' \in [Keys -> MailRow]
    <2>1. mail[m] \in MailRow /\ mail[m].attempts < MaxAttempts
      BY RowOf DEF Claim, Claimable
    <2>2. [status |-> "sending", attempts |-> mail[m].attempts + 1, left |-> StaleAfter]
             \in MailRow
      BY <2>1, Constants, Delays DEF MailRow
    <2>3. mail' = [mail EXCEPT ![m] = [status |-> "sending",
                     attempts |-> mail[m].attempts + 1, left |-> StaleAfter]]
      BY DEF Claim, ClaimedMail
    <2> QED
      BY <2>2, <2>3, MailTypes
  <1>3. row \in ProcRow /\ row.phase = "claimed" /\ row.key = m
    BY RowOf DEF ProcRow
  <1> HIDE DEF row
  <1>4. Fits(row)
    BY <1>3 DEF Fits
  <1> QED
    BY <1>1, <1>2, <1>3, <1>4, RowOf, LookingTypes

LEMMA LoadSendTypes ==
    ASSUME TypeInv, NEW p \in Processes, Load(p) \/ Send(p)
    PROVE  TypeInv'
  <1>1. /\ situation' = situation /\ due' = due /\ settings' = settings
        /\ created' = created /\ event' = event /\ mail' = mail
    BY DEF Load, Send, rowVars
  <1>2. proc[p] \in ProcRow /\ Fits(proc[p])
    BY RowOf
  <1>3. CASE Load(p)
    <2> DEFINE row == [proc[p] EXCEPT !.phase = "sending",
                         !.attempts = mail[proc[p].key].attempts, !.seen = settings]
    <2>1. proc[p].key \in Keys
      BY <1>2, <1>3 DEF Load, Fits
    <2>2. mail[proc[p].key].attempts \in 0..MaxAttempts
      BY <2>1, RowOf DEF MailRow
    <2>3. settings \in 0..MaxSettings /\ settings >= 1
      BY RowOf, Constants
    <2>4. row \in ProcRow /\ row.phase = "sending" /\ row.key = proc[p].key
          /\ row.seen = settings
      BY <1>2, <2>2, <2>3 DEF ProcRow
    <2>5. proc' = [proc EXCEPT ![p] = row]
      BY <1>3 DEF Load
    <2> HIDE DEF row
    <2>6. Fits(row)
      BY <2>1, <2>3, <2>4 DEF Fits
    <2> QED
      BY <1>1, <2>4, <2>5, <2>6, RowOf, LookingTypes
  <1>4. CASE Send(p)
    <2>1. PICK outcome \in {"accepted", "failed", "dead_letter"} :
             proc' = [proc EXCEPT ![p] = [proc[p] EXCEPT !.phase = "record",
                                                        !.outcome = outcome]]
      BY <1>4 DEF Send
    <2> DEFINE row == [proc[p] EXCEPT !.phase = "record", !.outcome = outcome]
    <2>2. row \in ProcRow /\ row.phase = "record" /\ row.key = proc[p].key
          /\ row.seen = proc[p].seen /\ row.outcome = outcome
      BY <1>2 DEF ProcRow
    <2>3. proc' = [proc EXCEPT ![p] = row]
      BY <2>1
    <2> HIDE DEF row
    <2>4. Fits(row)
      BY <1>2, <1>4, <2>2 DEF Send, Fits
    <2> QED
      BY <1>1, <2>2, <2>3, <2>4, RowOf, LookingTypes
  <1> QED
    BY <1>3, <1>4

LEMMA RecordTypes ==
    ASSUME TypeInv, NEW p \in Processes, Record(p)
    PROVE  TypeInv'
  <1>1. /\ situation' = situation /\ due' = due /\ settings' = settings
        /\ created' = created /\ event' = event
        /\ proc' = [proc EXCEPT ![p] = [proc[p] EXCEPT !.phase = "mirror"]]
    BY DEF Record, Goes
  <1>2. /\ proc[p] \in ProcRow /\ Fits(proc[p]) /\ proc[p].key \in Keys
        /\ proc[p].outcome \in {"accepted", "failed", "dead_letter"}
    BY RowOf DEF Record, Fits
  <1>3. mail' \in [Keys -> MailRow]
    <2>1. proc[p].attempts \in 0..MaxAttempts /\ proc[p].attempts \in Nat
      BY <1>2, Constants DEF ProcRow
    <2>2. Recorded(p) \in MailRow
      BY <1>2, <2>1, Delays DEF Recorded, MailRow
    <2> QED
      BY <1>2, <2>2, MailTypes DEF Record
  <1>4. /\ [proc[p] EXCEPT !.phase = "mirror"] \in ProcRow
        /\ Fits([proc[p] EXCEPT !.phase = "mirror"])
    BY <1>2, PhaseRow DEF Record
  <1> QED
    BY <1>1, <1>3, <1>4, RowOf, LookingTypes

LEMMA MirrorTypes ==
    ASSUME TypeInv, NEW p \in Processes, Mirror(p)
    PROVE  TypeInv'
  <1> DEFINE m == proc[p].key
  <1>1. /\ situation' = situation /\ due' = due /\ settings' = settings
        /\ created' = created /\ mail' = mail
    BY DEF Mirror
  <1>2. /\ proc[p] \in ProcRow /\ Fits(proc[p])
        /\ proc[p].outcome \in {"accepted", "failed", "dead_letter", "queued"}
    BY RowOf DEF Mirror, Fits
  <1>3. event' \in [Events -> EventRow] /\ CreatedExist'
    <2>1. CASE m \in Events /\ event[m].linked
      <3> DEFINE row == [event[m] EXCEPT !.status = proc[p].outcome]
      <3>1. row \in EventRow /\ row.status # "none"
        BY <1>2, <2>1, RowOf DEF EventRow
      <3>2. SetEvent(m, row)
        BY <2>1 DEF Mirror
      <3> HIDE DEF row
      <3> QED
        BY <1>1, <2>1, <3>1, <3>2, SetEventTypes
    <2>2. CASE ~(m \in Events /\ event[m].linked)
      <3>1. event' = event
        BY <2>2 DEF Mirror
      <3> QED
        BY <1>1, <3>1 DEF TypeInv, TypeOK, CreatedExist
    <2> QED
      BY <2>1, <2>2
  <1>4. \E row \in ProcRow : Fits(row) /\ proc' = [proc EXCEPT ![p] = row]
    <2>1. CASE proc[p].outcome = "queued"
      BY <2>1, ReturnsRow DEF Mirror
    <2>2. CASE proc[p].outcome # "queued"
      <3>1. proc' = [proc EXCEPT ![p] = [proc[p] EXCEPT !.phase = "settings"]]
        BY <2>2 DEF Mirror, Goes
      <3>2. /\ [proc[p] EXCEPT !.phase = "settings"] \in ProcRow
            /\ Fits([proc[p] EXCEPT !.phase = "settings"])
        BY <1>2, <2>2, PhaseRow DEF Mirror
      <3> QED
        BY <3>1, <3>2
    <2> QED
      BY <2>1, <2>2
  <1>5. /\ proc' \in [Processes -> ProcRow]
        /\ \A q \in Processes : Fits(proc'[q])
    BY <1>4, ProcStep
  <1> QED
    BY <1>1, <1>3, <1>5 DEF TypeInv, TypeOK

LEMMA SaveStatusTypes ==
    ASSUME TypeInv, NEW p \in Processes, SaveStatus(p)
    PROVE  TypeInv'
  <1>1. /\ situation' = situation /\ due' = due
        /\ created' = created /\ event' = event /\ mail' = mail
    BY DEF SaveStatus
  <1>2. settings' \in 1..MaxSettings
    <2>1. proc[p].seen \in 0..MaxSettings /\ proc[p].seen >= 1
      BY RowOf DEF ProcRow, Fits, SaveStatus
    <2> QED
      BY <2>1, Constants DEF SaveStatus
  <1>3. \E row \in ProcRow : Fits(row) /\ proc' = [proc EXCEPT ![p] = row]
    BY ReturnsRow DEF SaveStatus
  <1> QED
    BY <1>1, <1>2, <1>3, RowOf, LookingTypes

LEMMA RequestTypes ==
    ASSUME TypeInv, NEW p \in Processes,
           \/ \E m \in Keys : Retry(p, m) \/ Requeue(p, m)
           \/ RetryReads(p) \/ RetryWrites(p) \/ RequeueWrites(p)
    PROVE  TypeInv'
  <1>1. /\ situation' = situation /\ due' = due /\ settings' = settings
        /\ created' = created /\ event' = event
    BY DEF Retry, Requeue, RetryReads, RetryWrites, RequeueWrites, rowVars
  <1>2. proc[p] \in ProcRow /\ Fits(proc[p])
    BY RowOf
  <1>3. ASSUME NEW m \in Keys, NEW phase \in {"retry", "requeue", "claim"}
        PROVE  /\ [Off EXCEPT !.phase = phase, !.key = m] \in ProcRow
               /\ Fits([Off EXCEPT !.phase = phase, !.key = m])
    <2> DEFINE row == [Off EXCEPT !.phase = phase, !.key = m]
    <2>1. row \in ProcRow /\ row.phase = phase /\ row.key = m
      BY OffIsRow DEF ProcRow
    <2> HIDE DEF row
    <2>2. Fits(row)
      BY <2>1 DEF Fits
    <2> QED
      BY <2>1, <2>2 DEF row
  <1>4. ASSUME NEW m \in Keys, Retry(p, m) \/ Requeue(p, m)
        PROVE  TypeInv'
    <2>1. mail' = mail
      BY <1>4 DEF Retry, Requeue, rowVars
    <2>2. PICK phase \in {"retry", "requeue"} :
             proc' = [proc EXCEPT ![p] = [Off EXCEPT !.phase = phase, !.key = m]]
      BY <1>4 DEF Retry, Requeue
    <2> QED
      BY <1>1, <1>3, <2>1, <2>2, RowOf, LookingTypes
  <1>5. CASE RetryReads(p)
    <2> DEFINE row == [proc[p] EXCEPT !.phase = "rewrite",
                                      !.attempts = mail[proc[p].key].attempts]
    <2>1. proc[p].key \in Keys
      BY <1>2, <1>5 DEF RetryReads, Fits
    <2>2. mail[proc[p].key].attempts \in 0..MaxAttempts
      BY <2>1, RowOf DEF MailRow
    <2>3. row \in ProcRow /\ row.phase = "rewrite" /\ row.key = proc[p].key
      BY <1>2, <2>2 DEF ProcRow
    <2>4. proc' = [proc EXCEPT ![p] = row] /\ mail' = mail
      BY <1>5 DEF RetryReads, rowVars
    <2> HIDE DEF row
    <2>5. Fits(row)
      BY <2>1, <2>3 DEF Fits
    <2> QED
      BY <1>1, <2>3, <2>4, <2>5, RowOf, LookingTypes
  <1>6. CASE RetryWrites(p)
    <2>1. proc[p].key \in Keys
      BY <1>2, <1>6 DEF RetryWrites, Fits
    <2>2. [status |-> "queued", left |-> 0, attempts |-> proc[p].attempts] \in MailRow
      BY <1>2, Delays DEF ProcRow, MailRow
    <2>3. mail' \in [Keys -> MailRow]
      BY <1>6, <2>1, <2>2, MailTypes DEF RetryWrites
    <2>4. proc' = [proc EXCEPT ![p] = [Off EXCEPT !.phase = "claim", !.key = proc[p].key]]
      BY <1>6 DEF RetryWrites
    <2> QED
      BY <1>1, <1>3, <2>1, <2>3, <2>4, RowOf, LookingTypes
  <1>7. CASE RequeueWrites(p)
    <2> DEFINE row == [proc[p] EXCEPT !.phase = "mirror", !.outcome = "queued"]
    <2>1. proc[p].key \in Keys
      BY <1>2, <1>7 DEF RequeueWrites, Fits
    <2>2. mail' \in [Keys -> MailRow]
      BY <1>7, <2>1, NoMailIsRow, MailTypes DEF RequeueWrites
    <2>3. row \in ProcRow /\ row.phase = "mirror" /\ row.key = proc[p].key
          /\ row.outcome = "queued"
      BY <1>2 DEF ProcRow
    <2>4. proc' = [proc EXCEPT ![p] = row]
      BY <1>7 DEF RequeueWrites
    <2> HIDE DEF row
    <2>5. Fits(row)
      BY <2>1, <2>3 DEF Fits
    <2> QED
      BY <1>1, <2>2, <2>3, <2>4, <2>5, RowOf, LookingTypes
  <1> QED
    BY <1>4, <1>5, <1>6, <1>7

\* Nobody's step.
LEMMA OutsideTypes ==
    ASSUME TypeInv,
           \/ \E c \in Events, s \in Situations : CmdbChanges(c, s)
           \/ BecomesDue \/ SaveSettings \/ Tick \/ UNCHANGED vars
    PROVE  TypeInv'
  <1>1. created' = created /\ event' = event /\ proc' = proc
    BY DEF CmdbChanges, BecomesDue, SaveSettings, Tick, vars, rowVars
  <1>2. /\ situation' \in [Events -> Situations] /\ due' \in BOOLEAN
        /\ settings' \in 1..MaxSettings
    <2>1. /\ situation \in [Events -> Situations] /\ due \in BOOLEAN
          /\ settings \in 1..MaxSettings
      BY DEF TypeInv, TypeOK
    <2>2. ASSUME NEW c \in Events, NEW s \in Situations, CmdbChanges(c, s)
          PROVE  situation' \in [Events -> Situations] /\ due' = due /\ settings' = settings
      BY <2>1, <2>2 DEF CmdbChanges, rowVars
    <2>3. CASE BecomesDue
      BY <2>1, <2>3 DEF BecomesDue, rowVars
    <2>4. CASE SaveSettings
      BY <2>1, <2>4, Constants DEF SaveSettings
    <2>5. CASE Tick \/ UNCHANGED vars
      BY <2>1, <2>5 DEF Tick, vars, rowVars
    <2> QED
      BY <2>1, <2>2, <2>3, <2>4, <2>5
  <1>3. mail' \in [Keys -> MailRow]
    <2>1. CASE Tick
      <3>1. mail' = [m \in Keys |-> [mail[m] EXCEPT !.left = IF @ > 0 THEN @ - 1 ELSE 0]]
        BY <2>1 DEF Tick
      <3>2. ASSUME NEW m \in Keys
            PROVE  [mail[m] EXCEPT !.left = IF @ > 0 THEN @ - 1 ELSE 0] \in MailRow
        <4>1. mail[m] \in MailRow
          BY DEF TypeInv, TypeOK
        <4>2. (IF mail[m].left > 0 THEN mail[m].left - 1 ELSE 0) \in 0..MaxDelay
          BY <4>1, Delays DEF MailRow
        <4> QED
          BY <4>1, <4>2 DEF MailRow
      <3> QED
        BY <3>1, <3>2
    <2>2. CASE mail' = mail
      BY <2>2 DEF TypeInv, TypeOK
    <2> QED
      BY <2>1, <2>2 DEF CmdbChanges, BecomesDue, SaveSettings, vars, rowVars
  <1> QED
    BY <1>1, <1>2, <1>3 DEF TypeInv, TypeOK, CreatedExist

LEMMA NextTypes == TypeInv /\ [Next]_vars => TypeInv'
  <1> SUFFICES ASSUME TypeInv, [Next]_vars PROVE TypeInv'
    OBVIOUS
  <1>1. ASSUME NEW p \in Processes, ScanNext(p) PROVE TypeInv'
    BY <1>1, BeginTypes, CreateEventTypes, ComposeTypes, QueueTypes DEF ScanNext
  <1>2. ASSUME NEW p \in Processes, DeliveryNext(p) PROVE TypeInv'
    BY <1>2, BeginTypes, ClaimTypes, LoadSendTypes, RecordTypes, MirrorTypes,
       SaveStatusTypes DEF DeliveryNext
  <1>3. ASSUME NEW p \in Processes, RequestNext(p) PROVE TypeInv'
    BY <1>3, QueueTypes, RequestTypes DEF RequestNext
  <1>4. CASE EnvironmentNext
    BY <1>4, BeginTypes, OutsideTypes DEF EnvironmentNext
  <1>5. CASE UNCHANGED vars
    BY <1>5, OutsideTypes
  <1> QED
    BY <1>1, <1>2, <1>3, <1>4, <1>5 DEF Next

\* Messages, events and the rows of the processes have their types, whatever is
\* written back from what was read before (update_email_outbox,
\* update_notification_event, _deliver_claimed_email).
THEOREM TypeCorrect == Spec => []TypeOK
  <1>1. Init => TypeInv
    BY InitTypes
  <1>2. TypeInv /\ [Next]_vars => TypeInv'
    BY NextTypes
  <1>3. TypeInv => TypeOK
    BY DEF TypeInv
  <1> QED
    BY <1>1, <1>2, <1>3, PTL DEF Spec

----------------------------------------------------------------------------
(* Deliveries, while nobody retries and at most one administrator requeues *)

\* A retry writes back what it read, and so do two requeues of one dead letter: with
\* either, a message that was accepted may be sent again.
OneRequeuer == "requeue" \in Operations => \A p, q \in Admins : p = q
Careful == "retry" \notin Operations /\ OneRequeuer

NoRetry == \A p \in Admins, m \in Keys : ~Retry(p, m)

\* Who delivers a message holds a claim that is not stale.
SendersHold ==
    \A m \in Keys, p \in Processes : Delivering(p, m) =>
        mail[m].status = "sending" /\ mail[m].left > 0

\* A requeue that is under way is about a dead letter.
RequeuesHold ==
    \A p \in Processes :
        /\ proc[p].phase \notin {"retry", "rewrite"}
        /\ proc[p].phase = "requeue" =>
              /\ p \in Admins /\ "requeue" \in Operations
              /\ mail[proc[p].key].status = "dead_letter"

\* What is about to be written into the event is still so.
MirrorsHold ==
    \A p \in Processes : proc[p].phase = "mirror" /\ proc[p].outcome = "accepted" =>
        mail[proc[p].key].status = "accepted"

DeliveryInv == /\ TypeInv /\ SendersHold /\ OneSender /\ RequeuesHold /\ MirrorsHold
               /\ EvidenceIsTrue

LEMMA InitDelivery == Init => DeliveryInv
  <1> SUFFICES ASSUME Init PROVE DeliveryInv
    OBVIOUS
  <1>1. \A p \in Processes : proc[p].phase = "off"
    BY OffIsRow DEF Init
  <1>2. \A c \in Events : event[c].status = "none"
    BY DEF Init
  <1> QED
    BY <1>1, <1>2, InitTypes
    DEF DeliveryInv, SendersHold, OneSender, RequeuesHold, MirrorsHold, EvidenceIsTrue,
        Delivering

\* A step of one process that leaves the messages alone.
LEMMA QuietStep ==
    ASSUME DeliveryInv, TypeInv', NEW p \in Processes,
           \A q \in Processes \ {p} : proc'[q] = proc[q],
           mail' = mail,
           \A c \in Events : event'[c].status = "accepted" =>
              event[c].status = "accepted" \/ mail[c].status = "accepted",
           proc'[p].phase \in {"claimed", "sending", "record"} =>
              /\ proc[p].phase \in {"claimed", "sending", "record"}
              /\ proc'[p].key = proc[p].key,
           proc'[p].phase \notin {"retry", "rewrite"},
           proc'[p].phase = "requeue" =>
              /\ p \in Admins /\ "requeue" \in Operations
              /\ mail[proc'[p].key].status = "dead_letter",
           proc'[p].phase = "mirror" /\ proc'[p].outcome = "accepted" =>
              mail[proc'[p].key].status = "accepted"
    PROVE  DeliveryInv'
  <1>1. \A q \in Processes, m \in Keys : Delivering(q, m)' => Delivering(q, m)
    BY DEF Delivering
  <1>2. SendersHold' /\ OneSender'
    BY <1>1 DEF DeliveryInv, SendersHold, OneSender
  <1>3. RequeuesHold' /\ MirrorsHold'
    BY DEF DeliveryInv, RequeuesHold, MirrorsHold
  <1>4. EvidenceIsTrue'
    BY DEF DeliveryInv, EvidenceIsTrue
  <1> QED
    BY <1>2, <1>3, <1>4 DEF DeliveryInv

\* A step of one process that writes a message which is not accepted and which no
\* other process delivers or requeues.
LEMMA MailStep ==
    ASSUME DeliveryInv, TypeInv', NEW p \in Processes, NEW m \in Keys,
           \A q \in Processes \ {p} : /\ proc'[q] = proc[q]
                                      /\ ~Delivering(q, m)
                                      /\ proc[q].phase = "requeue" => proc[q].key # m,
           \A k \in Keys \ {m} : mail'[k] = mail[k],
           mail[m].status # "accepted",
           event' = event,
           proc'[p].phase \in {"claimed", "sending", "record"} =>
              proc'[p].key = m /\ mail'[m].status = "sending" /\ mail'[m].left > 0,
           proc'[p].phase \notin {"retry", "rewrite", "requeue"},
           proc'[p].phase = "mirror" /\ proc'[p].outcome = "accepted" =>
              proc'[p].key = m /\ mail'[m].status = "accepted"
    PROVE  DeliveryInv'
  <1>1. \A q \in Processes \ {p}, k \in Keys :
           Delivering(q, k)' => Delivering(q, k) /\ k # m
    BY DEF Delivering
  <1>2. \A k \in Keys : Delivering(p, k)' => k = m
    BY DEF Delivering
  <1>3. SendersHold'
    <2> SUFFICES ASSUME NEW k \in Keys, NEW q \in Processes, Delivering(q, k)'
                 PROVE  mail'[k].status = "sending" /\ mail'[k].left > 0
      BY DEF SendersHold
    <2>1. CASE q = p
      BY <1>2, <2>1 DEF Delivering
    <2>2. CASE q # p
      BY <1>1, <2>2 DEF DeliveryInv, SendersHold
    <2> QED
      BY <2>1, <2>2
  <1>4. OneSender'
    BY <1>1, <1>2 DEF DeliveryInv, OneSender
  <1>5. \A q \in Processes : proc[q].phase \in {"requeue", "mirror"} => proc[q].key \in Keys
    BY RowOf DEF DeliveryInv, Fits
  <1>6. RequeuesHold' /\ MirrorsHold'
    BY <1>5 DEF DeliveryInv, RequeuesHold, MirrorsHold
  <1>7. EvidenceIsTrue'
    BY Constants DEF DeliveryInv, EvidenceIsTrue
  <1> QED
    BY <1>3, <1>4, <1>6, <1>7 DEF DeliveryInv

LEMMA ChangedRow ==
    ASSUME TypeInv, NEW p \in Processes, NEW row, proc' = [proc EXCEPT ![p] = row]
    PROVE  proc'[p] = row /\ \A q \in Processes \ {p} : proc'[q] = proc[q]
  BY DEF TypeInv, TypeOK

\* Scans and what stops or returns look at no message.
Resting == {"off", "dead", "drain", "more", "scan"}

\* A process that begins, stops or returns is at rest, or scans.
LEMMA IdleRow ==
    ASSUME TypeInv, NEW p \in Processes,
           \/ StartCycle(p) \/ EvaluateNow(p) \/ SendNow(p)
           \/ \E c \in Events : EventNotListed(p, c)
           \/ EndScan(p) \/ NothingDue(p) \/ CredentialsUnreadable(p) \/ SaveStatus(p)
           \/ Crash(p) \/ Restart(p)
    PROVE  \E row \in ProcRow : proc' = [proc EXCEPT ![p] = row] /\ row.phase \in Resting
  <1> USE DEF Resting
  <1>1. CASE \/ (\E c \in Events : EventNotListed(p, c)) \/ EndScan(p) \/ NothingDue(p)
             \/ CredentialsUnreadable(p) \/ SaveStatus(p) \/ Restart(p)
    <2>1. Returns(p) \/ Stops(p)
      BY <1>1 DEF EventNotListed, EndScan, NothingDue, CredentialsUnreadable, SaveStatus,
                  Restart
    <2> QED
      BY <2>1, ReturnsRow
  <1>2. CASE Crash(p)
    <2> DEFINE row == [Off EXCEPT !.phase = "dead"]
    <2>1. row \in ProcRow /\ row.phase = "dead"
      BY OffIsRow DEF ProcRow
    <2> QED
      BY <1>2, <2>1 DEF Crash
  <1>3. CASE SendNow(p)
    <2> DEFINE row == [Off EXCEPT !.phase = "drain", !.next = "drain"]
    <2>1. row \in ProcRow /\ row.phase = "drain"
      BY OffIsRow DEF ProcRow
    <2> QED
      BY <1>3, <2>1 DEF SendNow
  <1>4. CASE EvaluateNow(p)
    <2> DEFINE row == [Off EXCEPT !.phase = "scan", !.todo = situation]
    <2>1. row \in ProcRow /\ row.phase = "scan"
      BY OffIsRow, RowOf DEF ProcRow
    <2> QED
      BY <1>4, <2>1 DEF EvaluateNow
  <1>5. CASE StartCycle(p)
    <2> DEFINE scan == [Off EXCEPT !.phase = "scan", !.next = "drain", !.todo = situation]
               drain == [Off EXCEPT !.phase = "drain", !.next = "drain"]
    <2>1. scan \in ProcRow /\ scan.phase = "scan"
      BY OffIsRow, RowOf DEF ProcRow
    <2>2. drain \in ProcRow /\ drain.phase = "drain"
      BY OffIsRow DEF ProcRow
    <2>3. proc' = [proc EXCEPT ![p] = scan] \/ proc' = [proc EXCEPT ![p] = drain]
      BY <1>5 DEF StartCycle
    <2> HIDE DEF scan, drain
    <2> QED
      BY <2>1, <2>2, <2>3
  <1> QED
    BY <1>1, <1>2, <1>3, <1>4, <1>5

LEMMA IdleDelivery ==
    ASSUME DeliveryInv, NEW p \in Processes, TypeInv',
           \/ StartCycle(p) \/ EvaluateNow(p) \/ SendNow(p)
           \/ \E c \in Events : EventNotListed(p, c)
           \/ EndScan(p) \/ NothingDue(p) \/ CredentialsUnreadable(p) \/ SaveStatus(p)
           \/ Crash(p) \/ Restart(p)
    PROVE  DeliveryInv'
  <1>1. mail' = mail /\ event' = event
    BY DEF StartCycle, EvaluateNow, SendNow, EventNotListed, EndScan, NothingDue,
           CredentialsUnreadable, SaveStatus, Crash, Restart, rowVars
  <1>2. \E row \in ProcRow : proc' = [proc EXCEPT ![p] = row] /\ row.phase \in Resting
    BY IdleRow DEF DeliveryInv
  <1>3. /\ proc'[p].phase \in Resting
        /\ \A q \in Processes \ {p} : proc'[q] = proc[q]
    BY <1>2, ChangedRow DEF DeliveryInv
  <1> QED
    BY <1>1, <1>3, QuietStep DEF Resting

\* A change of an event to a status that is not acceptance.
LEMMA SetEventQuiet ==
    ASSUME TypeInv, NEW c \in Events, NEW row, row.status # "accepted",
           SetEvent(c, row) \/ event' = event
    PROVE  \A d \in Events : event'[d].status = "accepted" => event[d].status = "accepted"
  <1>1. event \in [Events -> EventRow]
    BY DEF TypeInv, TypeOK
  <1>2. event' = event \/ event' = [event EXCEPT ![c] = row]
    BY DEF SetEvent
  <1> QED
    BY <1>1, <1>2

\* What a scan does with the candidates it found.
LEMMA ScanDelivery ==
    ASSUME DeliveryInv, NEW p \in Processes, TypeInv',
           \/ \E c \in Events : CreateEvent(p, c)
           \/ NotComposable(p) \/ LinkEvent(p)
    PROVE  DeliveryInv'
  <1>0. TypeInv /\ event \in [Events -> EventRow] /\ proc[p] \in ProcRow
    BY RowOf DEF DeliveryInv
  <1>1. mail' = mail
    BY DEF CreateEvent, NotComposable, LinkEvent
  <1>2. /\ proc'[p].phase \in {"scan", "compose"}
        /\ \A q \in Processes \ {p} : proc'[q] = proc[q]
    <2>1. CASE NotComposable(p) \/ LinkEvent(p)
      BY <1>0, <2>1, ContinueRow, ChangedRow DEF NotComposable, LinkEvent
    <2>2. ASSUME NEW c \in Events, CreateEvent(p, c)
          PROVE  /\ proc'[p].phase \in {"scan", "compose"}
                 /\ \A q \in Processes \ {p} : proc'[q] = proc[q]
      <3> DEFINE looks == [proc[p] EXCEPT !.phase = "compose", !.key = c]
                 skips == [proc[p] EXCEPT !.todo[c] = "skip"]
      <3>1. looks.phase = "compose" /\ skips.phase = "scan"
        BY <1>0, <2>2 DEF CreateEvent, ProcRow
      <3>2. proc' = [proc EXCEPT ![p] = looks] \/ proc' = [proc EXCEPT ![p] = skips]
        BY <2>2 DEF CreateEvent
      <3> HIDE DEF looks, skips
      <3> QED
        BY <1>0, <3>1, <3>2, ChangedRow
    <2> QED
      BY <2>1, <2>2
  <1>3. \A c \in Events : event'[c].status = "accepted" => event[c].status = "accepted"
    <2>1. ASSUME NEW c \in Events, CreateEvent(p, c)
          PROVE  \A d \in Events : event'[d].status = "accepted" =>
                                   event[d].status = "accepted"
      <3>1. event' = event \/ event' = [event EXCEPT ![c].status = "pending"]
        BY <2>1 DEF CreateEvent
      <3> QED
        BY <1>0, <3>1 DEF EventRow
    <2>2. CASE NotComposable(p)
      <3> DEFINE row == [event[proc[p].key] EXCEPT !.status = "missing_recipient"]
      <3>1. proc[p].key \in Events
        BY <1>0, <2>2, RowOf DEF NotComposable, Fits
      <3>2. row.status = "missing_recipient"
        BY <1>0, <3>1 DEF EventRow
      <3>3. SetEvent(proc[p].key, row) \/ event' = event
        BY <2>2 DEF NotComposable
      <3> HIDE DEF row
      <3> QED
        BY <1>0, <3>1, <3>2, <3>3, SetEventQuiet
    <2>3. CASE LinkEvent(p)
      <3> DEFINE row == [status |-> "queued", linked |-> TRUE]
      <3>1. proc[p].key \in Events
        BY <1>0, <2>3, RowOf DEF LinkEvent, Fits
      <3>2. SetEvent(proc[p].key, row) /\ row.status = "queued"
        BY <2>3 DEF LinkEvent
      <3> HIDE DEF row
      <3> QED
        BY <1>0, <3>1, <3>2, SetEventQuiet
    <2> QED
      BY <2>1, <2>2, <2>3
  <1> QED
    BY <1>1, <1>2, <1>3, QuietStep

\* The steps of a delivery that write no message.
LEMMA LoadSendDelivery ==
    ASSUME DeliveryInv, NEW p \in Processes, TypeInv', Load(p) \/ Send(p)
    PROVE  DeliveryInv'
  <1>1. TypeInv /\ proc[p] \in ProcRow /\ mail' = mail /\ event' = event
    BY RowOf DEF DeliveryInv, Load, Send, rowVars
  <1>2. /\ proc[p].phase \in {"claimed", "sending"}
        /\ proc'[p].phase \in {"sending", "record"} /\ proc'[p].key = proc[p].key
        /\ \A q \in Processes \ {p} : proc'[q] = proc[q]
    <2>1. CASE Load(p)
      <3> DEFINE row == [proc[p] EXCEPT !.phase = "sending",
                           !.attempts = mail[proc[p].key].attempts, !.seen = settings]
      <3>1. row.phase = "sending" /\ row.key = proc[p].key
        BY <1>1 DEF ProcRow
      <3>2. proc' = [proc EXCEPT ![p] = row] /\ proc[p].phase = "claimed"
        BY <2>1 DEF Load
      <3> HIDE DEF row
      <3> QED
        BY <1>1, <3>1, <3>2, ChangedRow
    <2>2. CASE Send(p)
      <3>1. PICK outcome :
               proc' = [proc EXCEPT ![p] = [proc[p] EXCEPT !.phase = "record",
                                                          !.outcome = outcome]]
        BY <2>2 DEF Send
      <3> DEFINE row == [proc[p] EXCEPT !.phase = "record", !.outcome = outcome]
      <3>2. row.phase = "record" /\ row.key = proc[p].key
        BY <1>1 DEF ProcRow
      <3>3. proc' = [proc EXCEPT ![p] = row] /\ proc[p].phase = "sending"
        BY <2>2, <3>1 DEF Send
      <3> HIDE DEF row
      <3> QED
        BY <1>1, <3>2, <3>3, ChangedRow
    <2> QED
      BY <2>1, <2>2
  <1> QED
    BY <1>1, <1>2, QuietStep

\* The event gets what became of its message.
LEMMA MirrorDelivery ==
    ASSUME DeliveryInv, NEW p \in Processes, TypeInv', Mirror(p)
    PROVE  DeliveryInv'
  <1> DEFINE m == proc[p].key
  <1>1. /\ TypeInv /\ proc[p] \in ProcRow /\ event \in [Events -> EventRow]
        /\ mail' = mail /\ proc[p].phase = "mirror" /\ m \in Keys
    BY RowOf DEF DeliveryInv, Mirror, Fits
  <1>2. /\ proc'[p].phase \in {"off", "drain", "more", "settings"}
        /\ \A q \in Processes \ {p} : proc'[q] = proc[q]
    <2>1. CASE proc[p].outcome = "queued"
      BY <1>1, <2>1, ReturnsRow, ChangedRow DEF Mirror
    <2>2. CASE proc[p].outcome # "queued"
      <3>1. proc' = [proc EXCEPT ![p] = [proc[p] EXCEPT !.phase = "settings"]]
        BY <2>2 DEF Mirror, Goes
      <3>2. [proc[p] EXCEPT !.phase = "settings"].phase = "settings"
        BY <1>1 DEF ProcRow
      <3> QED
        BY <1>1, <3>1, <3>2, ChangedRow
    <2> QED
      BY <2>1, <2>2
  <1>3. ASSUME NEW c \in Events, event'[c].status = "accepted"
        PROVE  event[c].status = "accepted" \/ mail[c].status = "accepted"
    <2>1. CASE m \in Events /\ event[m].linked
      <3> DEFINE row == [event[m] EXCEPT !.status = proc[p].outcome]
      <3>1. row.status = proc[p].outcome
        BY <1>1, <2>1 DEF EventRow
      <3>2. event' = event \/ event' = [event EXCEPT ![m] = row]
        BY <2>1 DEF Mirror, SetEvent
      <3>3. proc[p].outcome = "accepted" => mail[m].status = "accepted"
        BY <1>1 DEF DeliveryInv, MirrorsHold
      <3> HIDE DEF row
      <3> QED
        BY <1>1, <1>3, <2>1, <3>1, <3>2, <3>3
    <2>2. CASE ~(m \in Events /\ event[m].linked)
      BY <1>3, <2>2 DEF Mirror
    <2> QED
      BY <2>1, <2>2
  <1> QED
    BY <1>1, <1>2, <1>3, QuietStep

\* An administrator is about to requeue a message.
LEMMA RequestDelivery ==
    ASSUME DeliveryInv, NEW p \in Processes, TypeInv', NEW m \in Keys, Requeue(p, m)
    PROVE  DeliveryInv'
  <1> DEFINE row == [Off EXCEPT !.phase = "requeue", !.key = m]
  <1>1. /\ TypeInv /\ p \in Admins /\ "requeue" \in Operations
        /\ mail' = mail /\ event' = event /\ mail[m].status = "dead_letter"
        /\ proc' = [proc EXCEPT ![p] = row]
    BY DEF DeliveryInv, Requeue, Requeueable, rowVars
  <1>2. row.phase = "requeue" /\ row.key = m
    BY OffIsRow DEF ProcRow
  <1> HIDE DEF row
  <1>3. /\ proc'[p].phase = "requeue" /\ proc'[p].key = m
        /\ \A q \in Processes \ {p} : proc'[q] = proc[q]
    BY <1>1, <1>2, ChangedRow
  <1> QED
    BY <1>1, <1>3, QuietStep

\* The first message of an event or a notice; the one that exists stays.
LEMMA QueueDelivery ==
    ASSUME DeliveryInv, NEW p \in Processes, TypeInv',
           QueueMail(p) \/ \E m \in Notices : QueueNotice(p, m)
    PROVE  DeliveryInv'
  <1>1. TypeInv /\ proc[p] \in ProcRow /\ mail \in [Keys -> MailRow] /\ event' = event
    BY RowOf DEF DeliveryInv, QueueMail, QueueNotice
  <1>2. PICK m \in Keys : /\ mail' = Inserted(m)
                          /\ proc'[p].phase \in {"link", "claim"}
                          /\ \A q \in Processes \ {p} : proc'[q] = proc[q]
    <2>1. CASE QueueMail(p)
      <3>1. proc[p].key \in Keys /\ mail' = Inserted(proc[p].key)
        BY <1>1, <2>1, RowOf, Constants DEF QueueMail, Fits
      <3>2. proc' = [proc EXCEPT ![p] = [proc[p] EXCEPT !.phase = "link"]]
        BY <2>1 DEF QueueMail, Goes
      <3>3. [proc[p] EXCEPT !.phase = "link"].phase = "link"
        BY <1>1 DEF ProcRow
      <3> QED
        BY <1>1, <3>1, <3>2, <3>3, ChangedRow
    <2>2. ASSUME NEW m \in Notices, QueueNotice(p, m)
          PROVE  /\ m \in Keys /\ mail' = Inserted(m)
                 /\ proc'[p].phase = "claim"
                 /\ \A q \in Processes \ {p} : proc'[q] = proc[q]
      <3> DEFINE row == [Off EXCEPT !.phase = "claim", !.key = m]
      <3>1. proc' = [proc EXCEPT ![p] = row] /\ m \in Keys /\ mail' = Inserted(m)
        BY <2>2, Constants DEF QueueNotice
      <3>2. row.phase = "claim"
        BY OffIsRow DEF ProcRow
      <3> HIDE DEF row
      <3> QED
        BY <1>1, <3>1, <3>2, ChangedRow
    <2> QED
      BY <2>1, <2>2
  <1>3. CASE mail[m] # NoMail
    <2>1. mail' = mail
      BY <1>2, <1>3 DEF Inserted
    <2> QED
      BY <1>1, <1>2, <2>1, QuietStep
  <1>4. CASE mail[m] = NoMail
    <2>1. mail' = [mail EXCEPT ![m] = [NoMail EXCEPT !.status = "queued"]]
      BY <1>2, <1>4 DEF Inserted
    <2>2. \A k \in Keys \ {m} : mail'[k] = mail[k]
      BY <1>1, <2>1
    <2>3. mail[m].status = "none"
      BY <1>4, NoMailIsRow
    <2>4. ASSUME NEW q \in Processes \ {p}
          PROVE  /\ proc'[q] = proc[q] /\ ~Delivering(q, m)
                 /\ proc[q].phase = "requeue" => proc[q].key # m
      BY <1>2, <2>3 DEF DeliveryInv, SendersHold, RequeuesHold
    <2> QED
      BY <1>1, <1>2, <2>2, <2>3, <2>4, MailStep
  <1> QED
    BY <1>3, <1>4

\* What is claimed is claimed by nobody: a claim that is not stale has time left.
LEMMA ClaimDelivery ==
    ASSUME DeliveryInv, NEW p \in Processes, TypeInv', NEW m \in Keys, Claim(p, m)
    PROVE  DeliveryInv'
  <1>1. /\ TypeInv /\ proc[p] \in ProcRow /\ mail \in [Keys -> MailRow] /\ event' = event
        /\ mail[m].status \in {"queued", "failed", "sending"} /\ mail[m].left = 0
    BY RowOf DEF DeliveryInv, Claim, Claimable
  <1>2. /\ mail'[m].status = "sending" /\ mail'[m].left > 0
        /\ \A k \in Keys \ {m} : mail'[k] = mail[k]
    <2> DEFINE row == [status |-> "sending", attempts |-> mail[m].attempts + 1,
                       left |-> StaleAfter]
    <2>1. mail' = [mail EXCEPT ![m] = row]
      BY DEF Claim, ClaimedMail
    <2>2. row.status = "sending" /\ row.left > 0
      BY Constants
    <2> HIDE DEF row
    <2> QED
      BY <1>1, <2>1, <2>2
  <1>3. /\ proc'[p].phase = "claimed" /\ proc'[p].key = m
        /\ \A q \in Processes \ {p} : proc'[q] = proc[q]
    <2> DEFINE row == [proc[p] EXCEPT !.phase = "claimed", !.key = m]
    <2>1. row.phase = "claimed" /\ row.key = m
      BY <1>1 DEF ProcRow
    <2>2. proc' = [proc EXCEPT ![p] = row]
      BY DEF Claim
    <2> HIDE DEF row
    <2> QED
      BY <1>1, <2>1, <2>2, ChangedRow
  <1>4. ASSUME NEW q \in Processes \ {p}
        PROVE  /\ proc'[q] = proc[q] /\ ~Delivering(q, m)
               /\ proc[q].phase = "requeue" => proc[q].key # m
    BY <1>1, <1>3 DEF DeliveryInv, SendersHold, RequeuesHold
  <1> QED
    BY <1>1, <1>2, <1>3, <1>4, MailStep

\* The one who delivers records the outcome, whatever has become of the message.
LEMMA RecordDelivery ==
    ASSUME DeliveryInv, NEW p \in Processes, TypeInv', Record(p)
    PROVE  DeliveryInv'
  <1> DEFINE m == proc[p].key
  <1>1. /\ TypeInv /\ proc[p] \in ProcRow /\ mail \in [Keys -> MailRow] /\ event' = event
        /\ m \in Keys /\ Delivering(p, m)
    BY RowOf DEF DeliveryInv, Record, Fits, Delivering
  <1>2. mail[m].status = "sending"
    BY <1>1 DEF DeliveryInv, SendersHold
  <1>3. /\ mail'[m].status = proc[p].outcome
        /\ \A k \in Keys \ {m} : mail'[k] = mail[k]
    <2>1. mail' = [mail EXCEPT ![m] = Recorded(p)]
      BY DEF Record
    <2>2. Recorded(p).status = proc[p].outcome
      BY DEF Recorded
    <2> QED
      BY <1>1, <2>1, <2>2
  <1>4. /\ proc'[p].phase = "mirror" /\ proc'[p].key = m
        /\ proc'[p].outcome = proc[p].outcome
        /\ \A q \in Processes \ {p} : proc'[q] = proc[q]
    <2> DEFINE row == [proc[p] EXCEPT !.phase = "mirror"]
    <2>1. row.phase = "mirror" /\ row.key = m /\ row.outcome = proc[p].outcome
      BY <1>1 DEF ProcRow
    <2>2. proc' = [proc EXCEPT ![p] = row]
      BY DEF Record, Goes
    <2> HIDE DEF row
    <2> QED
      BY <1>1, <2>1, <2>2, ChangedRow
  <1>5. ASSUME NEW q \in Processes \ {p}
        PROVE  /\ proc'[q] = proc[q] /\ ~Delivering(q, m)
               /\ proc[q].phase = "requeue" => proc[q].key # m
    BY <1>1, <1>2, <1>4 DEF DeliveryInv, OneSender, RequeuesHold
  <1> HIDE DEF m
  <1> QED
    BY <1>1, <1>2, <1>3, <1>4, <1>5, MailStep

\* A dead letter is queued again by the only administrator there is.
LEMMA RequeueDelivery ==
    ASSUME DeliveryInv, OneRequeuer, NEW p \in Processes, TypeInv', RequeueWrites(p)
    PROVE  DeliveryInv'
  <1> DEFINE m == proc[p].key
  <1>1. /\ TypeInv /\ proc[p] \in ProcRow /\ mail \in [Keys -> MailRow] /\ event' = event
        /\ m \in Keys /\ proc[p].phase = "requeue"
    BY RowOf DEF DeliveryInv, RequeueWrites, Fits
  <1>2. mail[m].status = "dead_letter" /\ p \in Admins /\ "requeue" \in Operations
    BY <1>1 DEF DeliveryInv, RequeuesHold
  <1>3. \A k \in Keys \ {m} : mail'[k] = mail[k]
    BY <1>1 DEF RequeueWrites
  <1>4. /\ proc'[p].phase = "mirror" /\ proc'[p].outcome = "queued"
        /\ \A q \in Processes \ {p} : proc'[q] = proc[q]
    <2> DEFINE row == [proc[p] EXCEPT !.phase = "mirror", !.outcome = "queued"]
    <2>1. row.phase = "mirror" /\ row.outcome = "queued"
      BY <1>1 DEF ProcRow
    <2>2. proc' = [proc EXCEPT ![p] = row]
      BY DEF RequeueWrites
    <2> HIDE DEF row
    <2> QED
      BY <1>1, <2>1, <2>2, ChangedRow
  <1>5. ASSUME NEW q \in Processes \ {p}
        PROVE  /\ proc'[q] = proc[q] /\ ~Delivering(q, m)
               /\ proc[q].phase = "requeue" => proc[q].key # m
    <2>1. proc[q].phase # "requeue"
      BY <1>2 DEF DeliveryInv, RequeuesHold, OneRequeuer
    <2> QED
      BY <1>1, <1>2, <1>4, <2>1 DEF DeliveryInv, SendersHold
  <1> HIDE DEF m
  <1> QED
    BY <1>1, <1>2, <1>3, <1>4, <1>5, MailStep

\* Nobody's step. Time passes no claim by whose sender is alive.
LEMMA OutsideDelivery ==
    ASSUME DeliveryInv, TypeInv',
           \/ \E c \in Events, s \in Situations : CmdbChanges(c, s)
           \/ BecomesDue \/ SaveSettings \/ Tick \/ UNCHANGED vars
    PROVE  DeliveryInv'
  <1>1. event' = event /\ proc' = proc
    BY DEF CmdbChanges, BecomesDue, SaveSettings, Tick, vars, rowVars
  <1>2. \A m \in Keys : /\ mail'[m].status = mail[m].status
                        /\ (\E p \in Processes : Delivering(p, m)) /\ mail[m].left > 0
                           /\ mail[m].status = "sending" => mail'[m].left > 0
    <2>1. CASE mail' = mail
      BY <2>1
    <2>2. CASE Tick
      <3> SUFFICES ASSUME NEW m \in Keys
                   PROVE  /\ mail'[m].status = mail[m].status
                          /\ (\E p \in Processes : Delivering(p, m)) /\ mail[m].left > 0
                             /\ mail[m].status = "sending" => mail'[m].left > 0
        OBVIOUS
      <3>1. mail[m] \in MailRow /\ mail[m].left \in Nat
        BY Delays DEF DeliveryInv, TypeInv, TypeOK, MailRow
      <3>2. mail'[m] = [mail[m] EXCEPT !.left = IF @ > 0 THEN @ - 1 ELSE 0]
        BY <2>2 DEF Tick
      <3>3. /\ mail'[m].status = mail[m].status
            /\ mail'[m].left = IF mail[m].left > 0 THEN mail[m].left - 1 ELSE 0
        BY <3>1, <3>2 DEF MailRow
      <3>4. (\E p \in Processes : Delivering(p, m)) /\ mail[m].status = "sending" =>
               mail[m].left > 1
        BY <2>2 DEF Tick
      <3> QED
        BY <3>1, <3>3, <3>4
    <2> QED
      BY <2>1, <2>2 DEF CmdbChanges, BecomesDue, SaveSettings, vars, rowVars
  <1>3. \A p \in Processes, m \in Keys : Delivering(p, m)' <=> Delivering(p, m)
    BY <1>1 DEF Delivering
  <1>4. SendersHold' /\ OneSender'
    BY <1>2, <1>3 DEF DeliveryInv, SendersHold, OneSender
  <1>5. \A p \in Processes : proc[p].phase \in {"requeue", "mirror"} => proc[p].key \in Keys
    BY RowOf DEF DeliveryInv, Fits
  <1>6. RequeuesHold' /\ MirrorsHold'
    BY <1>1, <1>2, <1>5 DEF DeliveryInv, RequeuesHold, MirrorsHold
  <1>7. EvidenceIsTrue'
    BY <1>1, <1>2, Constants DEF DeliveryInv, EvidenceIsTrue
  <1> QED
    BY <1>4, <1>6, <1>7 DEF DeliveryInv

LEMMA NextDelivery ==
    ASSUME OneRequeuer, NoRetry, DeliveryInv, [Next]_vars
    PROVE  DeliveryInv'
  <1>0. TypeInv'
    BY NextTypes DEF DeliveryInv
  <1>1. ASSUME NEW p \in Processes, ScanNext(p) PROVE DeliveryInv'
    BY <1>0, <1>1, IdleDelivery, ScanDelivery, QueueDelivery DEF ScanNext
  <1>2. ASSUME NEW p \in Processes, DeliveryNext(p) PROVE DeliveryInv'
    BY <1>0, <1>2, ClaimDelivery, IdleDelivery, LoadSendDelivery, RecordDelivery,
       MirrorDelivery DEF DeliveryNext
  <1>3. ASSUME NEW p \in Processes, RequestNext(p) PROVE DeliveryInv'
    <2>1. ~RetryReads(p) /\ ~RetryWrites(p)
      BY DEF RetryReads, RetryWrites, DeliveryInv, RequeuesHold
    <2>2. \A m \in Keys : ~Retry(p, m)
      BY DEF NoRetry, Retry
    <2> QED
      BY <1>0, <1>3, <2>1, <2>2, QueueDelivery, RequestDelivery, RequeueDelivery DEF RequestNext
  <1>4. CASE EnvironmentNext
    BY <1>0, <1>4, IdleDelivery, OutsideDelivery DEF EnvironmentNext
  <1>5. CASE UNCHANGED vars
    BY <1>0, <1>5, OutsideDelivery
  <1> QED
    BY <1>1, <1>2, <1>3, <1>4, <1>5 DEF Next

\* Every action that writes a message writes one that is not accepted.
LEMMA AcceptedStep ==
    ASSUME DeliveryInv, [Next]_vars, NEW m \in Keys, mail[m].status = "accepted"
    PROVE  mail'[m].status = "accepted"
  <1>1. TypeInv /\ mail \in [Keys -> MailRow]
    BY DEF DeliveryInv, TypeInv, TypeOK
  <1>2. CASE mail' = mail
    BY <1>2
  <1>3. ASSUME NEW p \in Processes, NEW k \in Keys, NEW row,
               mail' = [mail EXCEPT ![k] = row], mail[k].status # "accepted"
        PROVE  mail'[m].status = "accepted"
    BY <1>1, <1>3
  <1>4. ASSUME NEW k \in Keys, mail' = Inserted(k)
        PROVE  mail'[m].status = "accepted"
    BY <1>1, <1>4, NoMailIsRow DEF Inserted
  <1>5. ASSUME NEW p \in Processes, ScanNext(p) PROVE mail'[m].status = "accepted"
    <2>1. CASE QueueMail(p)
      <3>1. proc[p].key \in Keys /\ mail' = Inserted(proc[p].key)
        BY <1>1, <2>1, RowOf, Constants DEF QueueMail, Fits
      <3> QED
        BY <1>4, <3>1
    <2> QED
      BY <1>2, <1>5, <2>1 DEF ScanNext, StartCycle, EvaluateNow, SendNow, CreateEvent,
         EventNotListed, NotComposable, LinkEvent, EndScan, rowVars
  <1>6. ASSUME NEW p \in Processes, DeliveryNext(p) PROVE mail'[m].status = "accepted"
    <2>1. ASSUME NEW k \in Keys, Claim(p, k) PROVE mail'[m].status = "accepted"
      BY <1>3, <2>1 DEF Claim, Claimable, ClaimedMail
    <2>2. CASE Record(p)
      <3>1. proc[p].key \in Keys /\ Delivering(p, proc[p].key)
        BY <1>1, <2>2, RowOf DEF Record, Fits, Delivering
      <3>2. mail[proc[p].key].status = "sending"
        BY <3>1 DEF DeliveryInv, SendersHold
      <3> QED
        BY <1>3, <2>2, <3>1, <3>2 DEF Record
    <2> QED
      BY <1>2, <1>6, <2>1, <2>2 DEF DeliveryNext, NothingDue, Load, CredentialsUnreadable,
         Send, Mirror, SaveStatus, rowVars
  <1>7. ASSUME NEW p \in Processes, RequestNext(p) PROVE mail'[m].status = "accepted"
    <2>1. ASSUME NEW k \in Notices, QueueNotice(p, k) PROVE mail'[m].status = "accepted"
      BY <1>4, <2>1, Constants DEF QueueNotice
    <2>2. ~RetryReads(p) /\ ~RetryWrites(p)
      BY DEF RetryReads, RetryWrites, DeliveryInv, RequeuesHold
    <2>3. CASE RequeueWrites(p)
      <3>1. proc[p].key \in Keys /\ mail[proc[p].key].status = "dead_letter"
        BY <1>1, <2>3, RowOf DEF RequeueWrites, Fits, DeliveryInv, RequeuesHold
      <3> QED
        BY <1>3, <2>3, <3>1 DEF RequeueWrites
    <2> QED
      BY <1>2, <1>7, <2>1, <2>2, <2>3 DEF RequestNext, Retry, Requeue, rowVars
  <1>8. CASE EnvironmentNext
    <2>1. CASE Tick
      <3>1. mail'[m] = [mail[m] EXCEPT !.left = IF @ > 0 THEN @ - 1 ELSE 0]
        BY <2>1 DEF Tick
      <3> QED
        BY <1>1, <3>1 DEF MailRow
    <2> QED
      BY <1>2, <1>8, <2>1 DEF EnvironmentNext, Crash, Restart, CmdbChanges, BecomesDue,
         SaveSettings, rowVars
  <1> QED
    BY <1>2, <1>5, <1>6, <1>7, <1>8 DEF Next, vars, rowVars

\* While nobody retries and at most one administrator requeues, however many scans,
\* drains, crashes and stale claims overlap: one process at a time delivers a message,
\* and only until it is accepted (claim_email_outbox, update_email_outbox,
\* requeue_dead_letter).
THEOREM DeliveredExactly == Careful /\ Spec => DeliveredOnce
  <1> SUFFICES ASSUME Careful PROVE Spec => DeliveredOnce
    OBVIOUS
  <1>0. OneRequeuer /\ NoRetry
    BY DEF Careful, NoRetry, Retry
  <1>1. Init => DeliveryInv
    BY InitDelivery
  <1>2. DeliveryInv /\ [Next]_vars => DeliveryInv'
    BY <1>0, NextDelivery
  <1>3. DeliveryInv => OneSender
    BY DEF DeliveryInv
  <1>4. DeliveryInv /\ [Next]_vars =>
           [\A m \in Keys : mail[m].status = "accepted" => mail'[m].status = "accepted"]_vars
    BY AcceptedStep
  <1> QED
    BY <1>1, <1>2, <1>3, <1>4, PTL DEF Spec, DeliveredOnce, AcceptedStays

\* Under the same condition the evidence is true: the event of a notification is
\* accepted only if its message was (update_notification_event_for_outbox).
THEOREM TrueEvidence == Careful /\ Spec => []EvidenceIsTrue
  <1> SUFFICES ASSUME Careful PROVE Spec => []EvidenceIsTrue
    OBVIOUS
  <1>0. OneRequeuer /\ NoRetry
    BY DEF Careful, NoRetry, Retry
  <1>1. Init => DeliveryInv
    BY InitDelivery
  <1>2. DeliveryInv /\ [Next]_vars => DeliveryInv'
    BY <1>0, NextDelivery
  <1>3. DeliveryInv => EvidenceIsTrue
    BY DEF DeliveryInv
  <1> QED
    BY <1>1, <1>2, <1>3, PTL DEF Spec

----------------------------------------------------------------------------
(* A notice is sent before anything else is, and nobody retries after it *)

\* No event and no message exists, and nobody works on one.
Blank == /\ \A c \in Events : event[c].status = "none"
         /\ \A m \in Keys : mail[m].status = "none"
         /\ \A p \in Processes : proc[p].phase \in Resting

\* Until the notice there may be retries, but of no message that is there before it.
NoticeInv == /\ TypeInv
             /\ \A m \in Keys : mail[m].status = "none" => mail[m] = NoMail
             /\ created = <<>> /\ ~Noticed => Blank
             /\ Noticed => DeliveryInv

LEMMA BlankDelivery == TypeInv /\ Blank => DeliveryInv
  <1> SUFFICES ASSUME TypeInv, Blank PROVE DeliveryInv
    OBVIOUS
  <1>1. \A p \in Processes : /\ proc[p].phase \notin {"claimed", "sending", "record"}
                             /\ proc[p].phase \notin {"retry", "rewrite", "requeue", "mirror"}
    BY DEF Blank, Resting
  <1>2. \A c \in Events : event[c].status # "accepted"
    BY DEF Blank
  <1> QED
    BY <1>1, <1>2 DEF DeliveryInv, SendersHold, OneSender, RequeuesHold, MirrorsHold,
       EvidenceIsTrue, Delivering

\* A message, once there is one, stays.
LEMMA MailStays ==
    ASSUME NoticeInv, [Next]_vars, NEW m \in Keys
    PROVE  mail'[m] = mail[m] \/ mail'[m].status # "none"
  <1>1. TypeInv /\ mail \in [Keys -> MailRow] /\ (mail[m].status = "none" => mail[m] = NoMail)
    BY DEF NoticeInv, TypeInv, TypeOK
  <1>2. CASE mail' = mail
    BY <1>2
  <1>3. ASSUME NEW k, NEW row, mail' = [mail EXCEPT ![k] = row], row.status # "none"
        PROVE  mail'[m] = mail[m] \/ mail'[m].status # "none"
    BY <1>1, <1>3
  <1>4. NoMail.status = "none" /\ [NoMail EXCEPT !.status = "queued"].status = "queued"
    BY DEF NoMail
  <1>5. ASSUME NEW k, mail' = Inserted(k)
        PROVE  mail'[m] = mail[m] \/ mail'[m].status # "none"
    BY <1>2, <1>3, <1>4, <1>5 DEF Inserted
  <1>6. ASSUME NEW p \in Processes, ScanNext(p)
        PROVE  mail'[m] = mail[m] \/ mail'[m].status # "none"
    BY <1>2, <1>5, <1>6 DEF ScanNext, StartCycle, EvaluateNow, SendNow, CreateEvent,
       EventNotListed, NotComposable, QueueMail, LinkEvent, EndScan, rowVars
  <1>7. ASSUME NEW p \in Processes, DeliveryNext(p)
        PROVE  mail'[m] = mail[m] \/ mail'[m].status # "none"
    <2>1. ASSUME NEW k \in Keys, Claim(p, k)
          PROVE  mail'[m] = mail[m] \/ mail'[m].status # "none"
      BY <1>3, <2>1 DEF Claim, ClaimedMail
    <2>2. CASE Record(p)
      <3>1. Recorded(p).status = proc[p].outcome /\ proc[p].outcome # "none"
        BY <1>1, <2>2, RowOf DEF Record, Recorded, Fits
      <3> QED
        BY <1>3, <2>2, <3>1 DEF Record
    <2> QED
      BY <1>2, <1>7, <2>1, <2>2 DEF DeliveryNext, NothingDue, Load, CredentialsUnreadable,
         Send, Mirror, SaveStatus, rowVars
  <1>8. ASSUME NEW p \in Processes, RequestNext(p)
        PROVE  mail'[m] = mail[m] \/ mail'[m].status # "none"
    <2>1. CASE RetryWrites(p) \/ RequeueWrites(p)
      <3> DEFINE row == [status |-> "queued", left |-> 0, attempts |-> proc[p].attempts]
                 fresh == [NoMail EXCEPT !.status = "queued"]
      <3>1. row.status # "none" /\ fresh.status # "none"
        BY <1>4
      <3>2. \/ mail' = [mail EXCEPT ![proc[p].key] = row]
            \/ mail' = [mail EXCEPT ![proc[p].key] = fresh]
        BY <2>1 DEF RetryWrites, RequeueWrites
      <3> HIDE DEF row, fresh
      <3> QED
        BY <1>3, <3>1, <3>2
    <2>2. ASSUME NEW k \in Notices, QueueNotice(p, k)
          PROVE  mail'[m] = mail[m] \/ mail'[m].status # "none"
      BY <1>5, <2>2 DEF QueueNotice
    <2> QED
      BY <1>2, <1>8, <2>1, <2>2 DEF RequestNext, Retry, Requeue, RetryReads, rowVars
  <1>9. CASE EnvironmentNext
    <2>1. CASE Tick
      <3>1. mail'[m] = [mail[m] EXCEPT !.left = IF @ > 0 THEN @ - 1 ELSE 0]
        BY <2>1 DEF Tick
      <3>2. CASE mail[m] = NoMail
        BY <3>1, <3>2 DEF NoMail
      <3>3. CASE mail[m] # NoMail
        BY <1>1, <3>1, <3>3 DEF MailRow
      <3> QED
        BY <3>2, <3>3
    <2> QED
      BY <1>2, <1>9, <2>1 DEF EnvironmentNext, Crash, Restart, CmdbChanges, BecomesDue,
         SaveSettings, rowVars
  <1> QED
    BY <1>2, <1>6, <1>7, <1>8, <1>9 DEF Next, vars, rowVars

\* As long as there is no event and no notice, nothing can be done but look.
LEMMA BlankStays ==
    ASSUME NoticeInv, Blank, [Next]_vars, created' = <<>>, ~Noticed'
    PROVE  Blank'
  <1>1. /\ TypeInv /\ created \in Seq(Events)
        /\ \A p \in Processes : proc[p].phase \in Resting
        /\ \A m \in Keys : mail[m].status = "none" /\ mail[m] = NoMail
        /\ \A c \in Events : event[c].status = "none"
    BY DEF NoticeInv, TypeInv, TypeOK, Blank
  <1>2. ASSUME NEW p \in Processes, NEW row \in ProcRow, proc' = [proc EXCEPT ![p] = row],
               row.phase \in Resting, mail' = mail, event' = event
        PROVE  Blank'
    <2>1. proc'[p] = row /\ \A q \in Processes \ {p} : proc'[q] = proc[q]
      BY <1>1, <1>2, ChangedRow
    <2> QED
      BY <1>1, <1>2, <2>1 DEF Blank
  <1>3. ASSUME NEW p \in Processes,
               \/ StartCycle(p) \/ EvaluateNow(p) \/ SendNow(p)
               \/ \E c \in Events : EventNotListed(p, c)
               \/ EndScan(p) \/ NothingDue(p) \/ CredentialsUnreadable(p) \/ SaveStatus(p)
               \/ Crash(p) \/ Restart(p)
        PROVE  Blank'
    <2>1. mail' = mail /\ event' = event
      BY <1>3 DEF StartCycle, EvaluateNow, SendNow, EventNotListed, EndScan, NothingDue,
                  CredentialsUnreadable, SaveStatus, Crash, Restart, rowVars
    <2>2. PICK row \in ProcRow : proc' = [proc EXCEPT ![p] = row] /\ row.phase \in Resting
      BY <1>1, <1>3, IdleRow
    <2> QED
      BY <1>2, <2>1, <2>2
  <1>4. ASSUME NEW p \in Processes, ScanNext(p) PROVE Blank'
    <2>1. \A c \in Events : ~CreateEvent(p, c)
      <3> SUFFICES ASSUME NEW c \in Events, CreateEvent(p, c) PROVE FALSE
        OBVIOUS
      <3>1. created' = Append(created, c)
        BY <1>1 DEF CreateEvent
      <3> QED
        BY <1>1, <3>1
    <2>2. ~NotComposable(p) /\ ~QueueMail(p) /\ ~LinkEvent(p)
      BY <1>1 DEF NotComposable, QueueMail, LinkEvent, Resting
    <2> QED
      BY <1>3, <1>4, <2>1, <2>2 DEF ScanNext
  <1>5. ASSUME NEW p \in Processes, DeliveryNext(p) PROVE Blank'
    <2>1. \A m \in Keys : ~Claim(p, m)
      BY <1>1 DEF Claim, Claimable
    <2>2. ~Load(p) /\ ~Send(p) /\ ~Record(p) /\ ~Mirror(p)
      BY <1>1 DEF Load, Send, Record, Mirror, Resting
    <2> QED
      BY <1>3, <1>5, <2>1, <2>2 DEF DeliveryNext
  <1>6. ASSUME NEW p \in Processes, RequestNext(p) PROVE FALSE
    <2>1. ASSUME NEW m \in Notices, QueueNotice(p, m) PROVE FALSE
      <3>1. m \in Keys /\ mail \in [Keys -> MailRow]
        BY <1>1, Constants DEF TypeInv, TypeOK
      <3>2. mail' = [mail EXCEPT ![m] = [NoMail EXCEPT !.status = "queued"]]
        BY <2>1 DEF QueueNotice, Inserted
      <3>3. mail'[m].status = "queued" /\ NoMail.status = "none"
        BY <3>1, <3>2 DEF NoMail
      <3> QED
        BY <3>3 DEF Noticed
    <2>2. \A m \in Keys : ~Retry(p, m) /\ ~Requeue(p, m)
      BY <1>1 DEF Retry, Requeue, Requeueable
    <2>3. ~RetryReads(p) /\ ~RetryWrites(p) /\ ~RequeueWrites(p)
      BY <1>1 DEF RetryReads, RetryWrites, RequeueWrites, Resting
    <2> QED
      BY <1>6, <2>1, <2>2, <2>3 DEF RequestNext
  <1>7. CASE (\E c \in Events, s \in Situations : CmdbChanges(c, s)) \/ BecomesDue
             \/ SaveSettings \/ Tick \/ UNCHANGED vars
    <2>1. event' = event /\ proc' = proc
      BY <1>7 DEF CmdbChanges, BecomesDue, SaveSettings, Tick, vars, rowVars
    <2>2. \A m \in Keys : mail'[m].status = "none"
      BY <1>1, <1>7 DEF CmdbChanges, BecomesDue, SaveSettings, Tick, vars, rowVars, NoMail
    <2> QED
      BY <1>1, <2>1, <2>2 DEF Blank
  <1> QED
    BY <1>3, <1>4, <1>5, <1>6, <1>7 DEF Next, EnvironmentNext

LEMMA NextNotice ==
    ASSUME OneRequeuer, NoticeInv, [Next]_vars, [OneKind]_vars
    PROVE  NoticeInv'
  <1>1. TypeInv /\ TypeInv' /\ created \in Seq(Events) /\ created' \in Seq(Events)
    BY NextTypes DEF NoticeInv, TypeInv, TypeOK
  <1>2. \A m \in Keys : mail'[m].status = "none" => mail'[m] = NoMail
    BY MailStays DEF NoticeInv
  <1>3. Noticed => Noticed'
    <2> SUFFICES ASSUME NEW m \in Notices, mail[m] # NoMail PROVE mail'[m] # NoMail
      BY DEF Noticed
    <2> QED
      BY MailStays, Constants DEF NoMail
  <1>4. created' = <<>> => created = <<>>
    <2>1. created' = created \/ \E c \in Events : created' = Append(created, c)
      BY DEF Next, ScanNext, StartCycle, EvaluateNow, SendNow, CreateEvent, EventNotListed,
         NotComposable, QueueMail, LinkEvent, EndScan, DeliveryNext, Claim, NothingDue, Load,
         CredentialsUnreadable, Send, Record, Mirror, SaveStatus, RequestNext, QueueNotice,
         Retry, RetryReads, RetryWrites, Requeue, RequeueWrites, EnvironmentNext, SaveSettings,
         Crash, Restart, CmdbChanges, BecomesDue, Tick, vars, rowVars
    <2> QED
      BY <1>1, <2>1
  <1>5. created' = <<>> /\ ~Noticed' => Blank'
    BY <1>3, <1>4, BlankStays DEF NoticeInv
  <1>6. ASSUME Noticed' PROVE DeliveryInv'
    <2>1. CASE UNCHANGED vars
      BY <1>6, <2>1 DEF NoticeInv, Noticed, DeliveryInv, TypeInv, TypeOK, CreatedExist, Fits,
         SendersHold, OneSender, Delivering, RequeuesHold, MirrorsHold, EvidenceIsTrue, vars,
         rowVars
    <2>2. CASE Noticed /\ OneKind
      <3>1. NoRetry
        <4> SUFFICES ASSUME NEW p \in Admins, NEW m \in Keys, Retry(p, m) PROVE FALSE
          BY DEF NoRetry
        <4> DEFINE row == [Off EXCEPT !.phase = "retry", !.key = m]
        <4>1. row \in ProcRow /\ row.phase = "retry" /\ p \in Processes
          BY OffIsRow, Constants DEF ProcRow
        <4>2. proc' = [proc EXCEPT ![p] = row]
          BY DEF Retry
        <4> HIDE DEF row
        <4>3. proc'[p].phase = "retry"
          BY <1>1, <4>1, <4>2, ChangedRow
        <4> QED
          BY <2>2, <4>3 DEF OneKind, OfNotices
      <3> QED
        BY <2>2, <3>1, NextDelivery DEF NoticeInv
    <2>3. CASE ~Noticed /\ OneKind
      <3>1. Blank
        BY <1>6, <2>3 DEF OneKind, NoticeFirst, NoticeInv
      <3>2. NoRetry
        BY <1>6, <2>3 DEF NoRetry, Retry, rowVars, Noticed
      <3> QED
        BY <1>1, <3>1, <3>2, BlankDelivery, NextDelivery
    <2> QED
      BY <2>1, <2>2, <2>3
  <1> QED
    BY <1>1, <1>2, <1>5, <1>6 DEF NoticeInv

\* The evidence that a run checks once a notice was sent first: retries before it do not
\* matter, for any number of events, notices and workers.
THEOREM NoticedEvidence ==
    OneRequeuer /\ Spec /\ [][OneKind]_vars => []NoticedEvidenceIsTrue
  <1> SUFFICES ASSUME OneRequeuer PROVE Spec /\ [][OneKind]_vars => []NoticedEvidenceIsTrue
    OBVIOUS
  <1>1. Init => NoticeInv
    <2> SUFFICES ASSUME Init PROVE NoticeInv
      OBVIOUS
    <2>1. /\ \A m \in Keys : mail[m] = NoMail
          /\ \A c \in Events : event[c].status = "none"
          /\ \A p \in Processes : proc[p].phase = "off"
      BY OffIsRow DEF Init
    <2>2. ~Noticed
      BY <2>1, Constants DEF Noticed
    <2>3. Blank
      BY <2>1 DEF Blank, NoMail, Resting
    <2> QED
      BY <2>1, <2>2, <2>3, InitTypes DEF NoticeInv
  <1>2. NoticeInv /\ [Next]_vars /\ [OneKind]_vars => NoticeInv'
    BY NextNotice
  <1>3. NoticeInv => NoticedEvidenceIsTrue
    BY DEF NoticeInv, DeliveryInv, NoticedEvidenceIsTrue
  <1> QED
    BY <1>1, <1>2, <1>3, PTL DEF Spec
=============================================================================
