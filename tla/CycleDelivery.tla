---------------------------- MODULE CycleDelivery ----------------------------
(***************************************************************************)
(* The end of a Fast Loop cycle: the report is assembled, archived and     *)
(* mailed (to each subscriber, or to the owner with the old push beside    *)
(* it), side artefacts follow, and the quota alerts and the row of the run *)
(* are written.  Alerts recorded by then are saved while the report is     *)
(* assembled, later ones at the end of the phase; an alert about a report  *)
(* that did not arrive is saved by itself.                                 *)
(*                                                                         *)
(* What the report says is not modelled; the reveal sweep is the subject   *)
(* of Attestation.                                                         *)
(***************************************************************************)
EXTENDS Integers, FiniteSets

CONSTANTS Subscribers,
          MaxQuotaAlerts,   \* bound: alerts the adapters record in the cycle
          None

VARIABLES setup,        \* configuration of the cycle
          step,         \* where _run_fast_loop is
          recorded,     \* length of the monitor's list of alerts
          persisted,    \* persisted_alerts: its length when the phase began
          saves,        \* history: times each alert was saved
          refused,      \* history: alerts whose insert failed
          todo,         \* recipients without an attempt yet
          channels,     \* mail outcome per recipient
          report_sent,
          assembled,    \* history: fetch_report_context was reached
          cycle_row     \* report_delivered, once known

alertVars == <<recorded, saves, refused>>
deliveryVars == <<setup, step, alertVars, persisted, todo, channels,
                  report_sent, assembled, cycle_row>>

Recipients == Subscribers \cup {"owner"}
Outcomes == {"sent", "skipped", "failed"}

(* fan_out: subscribers and a Resend key; mail: the owner's notifier is    *)
(* not a NullNotifier.                                                     *)
Setups == [fan_out : BOOLEAN, mail : BOOLEAN]
Steps == {"graph", "assemble", "archive", "mail", "artefacts", "finally", "row", "end"}

Init ==
    /\ setup \in Setups
    /\ step = "graph"
    /\ recorded = 0 /\ persisted = 0
    /\ saves = [a \in 1 .. MaxQuotaAlerts + 1 |-> 0]
    /\ refused = {}
    /\ todo = IF setup.fan_out THEN Subscribers ELSE {"owner"}
    /\ channels = [c \in Recipients |-> None]
    /\ report_sent = FALSE
    /\ assembled = FALSE
    /\ cycle_row = None

-----------------------------------------------------------------------------
(* persist_quota_alerts: each alert by itself, an insert may fail.         *)
Persist(ids) ==
    \E lost \in SUBSET ids :
       /\ saves' = [a \in DOMAIN saves |-> IF a \in ids \ lost THEN saves[a] + 1 ELSE saves[a]]
       /\ refused' = refused \cup lost

(* An adapter records an alert: a limit, an open circuit, a failed send.   *)
Record ==
    /\ step \in {"graph", "mail", "artefacts"}
    /\ recorded < MaxQuotaAlerts
    /\ recorded' = recorded + 1
    /\ UNCHANGED <<setup, step, persisted, saves, refused, todo, channels,
                   report_sent, assembled, cycle_row>>

(* _dispatch_reports *)
Dispatch ==
    /\ step = "graph"
    /\ step' = "assemble"
    /\ persisted' = recorded
    /\ UNCHANGED <<setup, alertVars, todo, channels, report_sent, assembled, cycle_row>>

(* assemble: fetch_report_context saves what was recorded so far.          *)
Assemble ==
    /\ step = "assemble"
    /\ step' = "archive"
    /\ assembled' = TRUE
    /\ Persist(1 .. recorded)
    /\ UNCHANGED <<setup, recorded, persisted, todo, channels, report_sent, cycle_row>>

(* The archive copy goes out, or fails as a channel. *)
Archive ==
    /\ step = "archive"
    /\ step' = "mail"
    /\ UNCHANGED <<setup, alertVars, persisted, todo, channels, report_sent,
                   assembled, cycle_row>>

SkippedWithoutChannel == ~ setup.fan_out /\ ~ setup.mail

Send(c) ==
    /\ step = "mail" /\ c \in todo
    /\ todo' = todo \ {c}
    /\ \E outcome \in (IF SkippedWithoutChannel THEN {"skipped"} ELSE {"sent", "failed"}) :
          channels' = [channels EXCEPT ![c] = outcome]
    /\ UNCHANGED <<setup, step, alertVars, persisted, report_sent, assembled, cycle_row>>

(* The old push has its own try; the phase of the mails is over.           *)
ReportSent ==
    /\ step = "mail" /\ todo = {}
    /\ step' = "artefacts"
    /\ report_sent' = TRUE
    /\ UNCHANGED <<setup, alertVars, persisted, todo, channels, assembled, cycle_row>>

(* Scorecard, reveals, push digest. *)
Artefacts ==
    /\ step = "artefacts"
    /\ step' = "finally"
    /\ UNCHANGED <<setup, alertVars, persisted, todo, channels, report_sent,
                   assembled, cycle_row>>

(* An exception outside the channels ends the phase. *)
Raises ==
    /\ step \in {"assemble", "archive", "mail", "artefacts"}
    /\ step' = "finally"
    /\ UNCHANGED <<setup, alertVars, persisted, todo, channels, report_sent,
                   assembled, cycle_row>>

email_delivered == \A c \in Recipients : channels[c] # "failed"
delivered == report_sent /\ email_delivered

SaveAll == \* mutant: deliver_report without persisted_alerts, its default
    /\ step = "finally"
    /\ step' = "row"
    /\ Persist(1 .. recorded)
    /\ cycle_row' = IF SkippedWithoutChannel THEN "none" ELSE IF delivered THEN "yes" ELSE "no"
    /\ UNCHANGED <<setup, recorded, persisted, todo, channels, report_sent, assembled>>

(* The alerts of the phase are saved, and _report_delivery says whether    *)
(* the mail arrived, where there was one.                                  *)
Finally ==
    /\ step = "finally"
    /\ step' = "row"
    /\ Persist(persisted + 1 .. recorded)
    /\ cycle_row' = IF SkippedWithoutChannel THEN "none" ELSE IF delivered THEN "yes" ELSE "no"
    /\ UNCHANGED <<setup, recorded, persisted, todo, channels, report_sent, assembled>>

(* flag_undelivered_report, then the row of the run. *)
Finish ==
    /\ step = "row"
    /\ step' = "end"
    /\ IF cycle_row = "no"
       THEN recorded' = recorded + 1 /\ Persist({recorded + 1})
       ELSE UNCHANGED alertVars
    /\ UNCHANGED <<setup, persisted, todo, channels, report_sent, assembled, cycle_row>>

Ended == step = "end" /\ UNCHANGED deliveryVars

Next ==
    \/ Record \/ Dispatch \/ Assemble \/ Archive
    \/ \E c \in Recipients : Send(c)
    \/ ReportSent \/ Artefacts \/ Raises \/ Finally \/ Finish \/ Ended

Spec == Init /\ [][Next]_deliveryVars

-----------------------------------------------------------------------------
(* The variables hold what the code's values stand for.                    *)
TypeOK ==
    /\ setup \in Setups /\ step \in Steps
    /\ recorded \in 0 .. MaxQuotaAlerts + 1 /\ persisted \in 0 .. recorded
    /\ saves \in [1 .. MaxQuotaAlerts + 1 -> Nat]
    /\ refused \subseteq 1 .. recorded
    /\ todo \subseteq Recipients
    /\ channels \in [Recipients -> Outcomes \cup {None}]
    /\ report_sent \in BOOLEAN /\ assembled \in BOOLEAN
    /\ cycle_row \in {None, "none", "yes", "no"}

Unreached == {c \in (IF setup.fan_out THEN Subscribers ELSE {"owner"}) : channels[c] # "sent"}

(* However the phase ends, an alert is in the history once: what was       *)
(* recorded before the report was assembled, while it was sent and about   *)
(* its loss, unless its own insert failed or the report never got as far   *)
(* as saving.  The row of the run never claims a delivery that somebody    *)
(* missed, and a missed one leaves an alert of its own.                    *)
DeliveryAccountedFor ==
    /\ \A a \in DOMAIN saves : saves[a] <= 1
    /\ step = "end" =>
          /\ assembled => \A a \in 1 .. recorded : saves[a] = 1 \/ a \in refused
          /\ cycle_row = "yes" => Unreached = {}
          /\ cycle_row = "none" <=> SkippedWithoutChannel
          /\ Unreached # {} /\ ~ SkippedWithoutChannel
                => cycle_row = "no" /\ (saves[recorded] = 1 \/ recorded \in refused)

(* The inductive invariant.  The alerts swept so far were saved once or    *)
(* refused, the others not touched; a recipient is waiting or has an       *)
(* outcome; the row of the run is decided when the outcomes are final.     *)
Audience == IF setup.fan_out THEN Subscribers ELSE {"owner"}

Swept == IF step \in {"row", "end"} THEN 1 .. recorded
         ELSE IF assembled THEN 1 .. persisted ELSE {}

SavedOnce ==
    /\ step # "end" => recorded <= MaxQuotaAlerts
    /\ step \in {"graph", "assemble"} => ~ assembled
    /\ step \in {"archive", "mail", "artefacts"} => assembled
    /\ step = "assemble" => persisted = recorded
    /\ \A a \in DOMAIN saves : saves[a] <= 1 /\ (a \notin Swept => saves[a] = 0)
    /\ \A a \in 1 .. persisted : assembled => saves[a] = 1 \/ a \in refused
    /\ step \in {"row", "end"} =>
          \A a \in persisted + 1 .. recorded : saves[a] = 1 \/ a \in refused

OutcomesOK ==
    /\ todo \subseteq Audience
    /\ report_sent => todo = {}
    /\ \A c \in Audience \ todo : channels[c] # None
    /\ \A c \in Recipients : channels[c] = "skipped" => SkippedWithoutChannel
    /\ step \in {"row", "end"} =>
          cycle_row = IF SkippedWithoutChannel THEN "none" ELSE IF delivered THEN "yes" ELSE "no"
    /\ step = "end" /\ cycle_row = "no" =>
          recorded > 0 /\ (saves[recorded] = 1 \/ recorded \in refused)

IInv == TypeOK /\ SavedOnce /\ OutcomesOK
=============================================================================
