--------------------------- MODULE MCNotifications ---------------------------
(***************************************************************************)
(* NotificationDelivery without fairness, and with one of two kinds of      *)
(* administrators in a behaviour: those who send a notice and requeue dead  *)
(* letters, and those who retry messages and save the settings. Bounds the  *)
(* steps of the run; the notice is sent before there are any events.        *)
(***************************************************************************)
EXTENDS NotificationDelivery

Noticed == \E m \in Notices : mail[m] # NoMail

\* Before the first notice there is none of what only the other kind does.
NoticeFirst ==
    /\ settings = 1 /\ created = <<>>
    /\ \A p \in Admins : proc[p] = Off

\* Here what is due stays due; NotificationDelivery_delivery lets it come and go.
OfNotices == /\ settings' = settings
             /\ \A p \in Admins : proc'[p].phase # "retry"
             /\ \A c \in Events : situation[c] = "ready" => situation'[c] = "ready"

\* Messages are retried with one event, or none.
OfRetries == /\ Len(created') <= 1
             /\ \A p \in Admins : proc'[p].phase # "requeue"
             /\ \A c \in Events : situation'[c] # situation[c] => created = <<>>

OneKind == IF Noticed THEN OfNotices
           ELSE IF Noticed' THEN NoticeFirst
           ELSE OfRetries

\* What an administrator reads in the evidence is true, unless somebody retries:
\* once the notice is sent, whatever is requeued then, nobody does.
NoticedEvidenceIsTrue ==
    Noticed /\ (\A p \in Admins : proc[p].phase # "claim") => EvidenceIsTrue
=============================================================================
