----------------------------- MODULE MailWindow -----------------------------
(***************************************************************************)
(* Which sudden moves the mail of a Fast Loop tells: those stored since    *)
(* the start of the last Fast Loop whose mail went out.  The watch stores  *)
(* moves at any time, also while a cycle runs; the row of a cycle is       *)
(* written after its mail and may be lost; each read may fail.             *)
(***************************************************************************)
EXTENDS Integers, FiniteSetsExt

CONSTANTS None,
          FallbackLookback,  \* the window when the last mail is not known
          LastHour,          \* bound: time
          MaxShocks,         \* bound: moves
          MaxMails           \* bound: cycles

VARIABLES hour,
          shock_alerts,   \* times of the stored moves
          cycle_runs,     \* rows of cycles: start and whether the mail went out
          cycle,          \* None, or the cycle under way
          mails,          \* history: the mails that went out
          n_cycles

vars == <<hour, shock_alerts, cycle_runs, cycle, mails, n_cycles>>

Hours == 0 .. LastHour

Init ==
    /\ hour = 0 /\ shock_alerts = {} /\ cycle_runs = {} /\ cycle = None
    /\ mails = {} /\ n_cycles = 0

-----------------------------------------------------------------------------
get_shock_alerts_since(since) == {s \in shock_alerts : s >= since}

get_last_report_at(before) ==
    LET starts == {r.started_at : r \in {q \in cycle_runs :
                                  q.report_delivered /\ q.started_at < before}}
    IN  IF starts = {} THEN None ELSE Max(starts)

(* The start of the window when the row can be read, and when it cannot.   *)
WindowStart(started_at, known) ==
    LET last == IF known THEN get_last_report_at(started_at) ELSE None
    IN  IF last = None THEN started_at - FallbackLookback ELSE last

(* The section of the mail: the moves, or None when they cannot be read.   *)
shocks_since_last_mail(started_at, known, readable) ==
    IF readable THEN get_shock_alerts_since(WindowStart(started_at, known))
                ELSE None

-----------------------------------------------------------------------------
Tick ==
    /\ hour < LastHour
    /\ hour' = hour + 1
    /\ UNCHANGED <<shock_alerts, cycle_runs, cycle, mails, n_cycles>>

StoreShock ==
    /\ hour \notin shock_alerts /\ Cardinality(shock_alerts) < MaxShocks
    /\ shock_alerts' = shock_alerts \cup {hour}
    /\ UNCHANGED <<hour, cycle_runs, cycle, mails, n_cycles>>

(* Fast Loops exclude each other, so no two start at once.                 *)
StartCycle ==
    /\ cycle = None /\ n_cycles < MaxMails
    /\ \A r \in cycle_runs \cup mails : r.started_at < hour
    /\ cycle' = [started_at |-> hour, step |-> "symbols"]
    /\ n_cycles' = n_cycles + 1
    /\ UNCHANGED <<hour, shock_alerts, cycle_runs, mails>>

Assemble ==
    /\ cycle # None /\ cycle.step = "symbols"
    /\ \E known, readable \in BOOLEAN :
          cycle' = [started_at |-> cycle.started_at, step |-> "assembled",
                    assembled_at |-> hour,
                    fallback |-> ~known \/ get_last_report_at(cycle.started_at) = None,
                    shocks |-> shocks_since_last_mail(cycle.started_at, known, readable)]
    /\ UNCHANGED <<hour, shock_alerts, cycle_runs, mails, n_cycles>>

(* The mail goes out or not.                                               *)
Dispatch ==
    /\ cycle # None /\ cycle.step = "assembled"
    /\ \E delivered \in BOOLEAN :
          /\ cycle' = [started_at |-> cycle.started_at, step |-> "sent",
                       report_delivered |-> delivered]
          /\ mails' = IF ~delivered THEN mails
                      ELSE mails \cup
                          {[started_at |-> cycle.started_at,
                            assembled_at |-> cycle.assembled_at,
                            fallback |-> cycle.fallback, shocks |-> cycle.shocks]}
    /\ UNCHANGED <<hour, shock_alerts, cycle_runs, n_cycles>>

(* The row of the cycle is its last write.                                 *)
persist_cycle_run ==
    /\ cycle # None /\ cycle.step = "sent"
    /\ cycle_runs' = cycle_runs \cup
          {[started_at |-> cycle.started_at,
            report_delivered |-> cycle.report_delivered]}
    /\ cycle' = None
    /\ UNCHANGED <<hour, shock_alerts, mails, n_cycles>>

(* The insert fails or the run is ended, at any step.                      *)
CycleEnds ==
    /\ cycle # None
    /\ cycle' = None
    /\ UNCHANGED <<hour, shock_alerts, cycle_runs, mails, n_cycles>>

Next ==
    \/ Tick
    \/ StoreShock
    \/ StartCycle
    \/ Assemble
    \/ Dispatch
    \/ persist_cycle_run
    \/ CycleEnds
    \/ /\ hour = LastHour   \* the bound
       /\ cycle = None
       /\ UNCHANGED vars

Spec == Init /\ [][Next]_vars

-----------------------------------------------------------------------------
Mail == [started_at : Hours, assembled_at : Hours, fallback : BOOLEAN,
         shocks : (SUBSET Hours) \cup {None}]

TypeOK ==
    /\ hour \in Hours /\ n_cycles \in 0 .. MaxMails
    /\ shock_alerts \subseteq Hours /\ mails \subseteq Mail
    /\ cycle_runs \subseteq [started_at : Hours, report_delivered : BOOLEAN]
    /\ cycle # None =>
          /\ cycle.step \in {"symbols", "assembled", "sent"}
          /\ cycle.started_at \in Hours

Tells(m, s) == m.shocks # None /\ s \in m.shocks

(* The mail that had to tell a move left it out: it could not read them,   *)
(* or it did not know the last mail and the move is older than its window. *)
LeavesOut(m, s) ==
    \/ m.shocks = None
    \/ m.fallback /\ s < m.started_at - FallbackLookback

(* A move stored before a mail was put together is told by it, or was by   *)
(* an earlier one, unless such a mail could not read what it needed.  Also *)
(* one stored while the mail before was under way.                         *)
MovesReachTheMail ==
    \A m \in mails : \A s \in shock_alerts :
        s < m.assembled_at =>
            \E k \in mails : k.started_at <= m.started_at
                             /\ (Tells(k, s) \/ LeavesOut(k, s))

(* Told again only if it was stored while the cycle that told it ran, the  *)
(* row of that cycle is not there, or the second mail did not know it.     *)
ToldAgainOnlyInOverlap ==
    \A k, m \in mails : \A s \in shock_alerts :
        k.started_at < m.started_at /\ Tells(k, s) /\ Tells(m, s) =>
            \/ s >= k.started_at
            \/ m.fallback
            \/ [started_at |-> k.started_at, report_delivered |-> TRUE] \notin cycle_runs

(* The inductive invariant.  A mail, and the one that is put together,     *)
(* tells what it has to; what an older one told is told again only from    *)
(* behind its start; every row of a mail that went out has the mail.       *)
Assembled == cycle # None /\ cycle.step = "assembled"

Accounted(m, others) ==
    \A s \in shock_alerts : s < m.assembled_at =>
        \E k \in others \cup {m} : k.started_at <= m.started_at
                                   /\ (Tells(k, s) \/ LeavesOut(k, s))

BehindOlder(m) ==
    \A r \in cycle_runs : \A s \in shock_alerts :
        r.report_delivered /\ r.started_at < m.started_at /\ Tells(m, s) /\ ~ m.fallback
            => s >= r.started_at

Content(m) ==
    /\ m.assembled_at \in Hours /\ m.started_at <= m.assembled_at /\ m.assembled_at <= hour
    /\ m.fallback \in BOOLEAN /\ m.shocks \in (SUBSET Hours) \cup {None}
    /\ Accounted(m, mails) /\ BehindOlder(m)

CycleOK ==
    /\ cycle.started_at <= hour
    /\ \A r \in cycle_runs : r.started_at < cycle.started_at
    /\ \A m \in mails : m.started_at <= cycle.started_at
    /\ cycle.step # "sent" => \A m \in mails : m.started_at < cycle.started_at
    /\ cycle.step = "sent" => cycle.report_delivered \in BOOLEAN
    /\ cycle.step = "sent" /\ cycle.report_delivered =>
          \E m \in mails : m.started_at = cycle.started_at

IInv ==
    /\ TypeOK
    /\ \A s \in shock_alerts : s <= hour
    /\ \A m \in mails : Content(m)
    /\ \A r \in cycle_runs : r.report_delivered => \E m \in mails : m.started_at = r.started_at
    /\ cycle # None => CycleOK
    /\ Assembled => Content(cycle)
=============================================================================
