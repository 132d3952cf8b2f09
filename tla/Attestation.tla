---------------------------- MODULE Attestation ----------------------------
(***************************************************************************)
(* The verifiable track record (R-16): every saved prediction is committed *)
(* to by a salted hash, the hashes of a Fast Loop cycle are the leaves of  *)
(* one published root, and the salt of a settled prediction is revealed.   *)
(*                                                                         *)
(* A run works on a checkout of the branch attestation-log.  The lines it  *)
(* appends are durable only after the publish job pushed them, both files  *)
(* in one commit; until then a cancelled job, or a push that failed, takes *)
(* them along.  The database is written directly.  So a run can die        *)
(* between a row and its leaf, between a reveal and its push, and between  *)
(* a push and the stamp of the row.                                        *)
(*                                                                         *)
(* Runs queue behind each other (concurrency group), so there is one run   *)
(* at a time.  A hash is the pair of what it hides; the collector's two    *)
(* critical sections are one action each.  The hour may change between any *)
(* two steps; a runner whose clock is ahead of the database's reads no row *)
(* where there is one, as a failed read does.  A manual re-run of a publish*)
(* job that failed is not modelled: its lines are lost.                    *)
(***************************************************************************)
EXTENDS Integers, FiniteSets

CONSTANTS Symbols,
          Payloads,  \* contents a prediction may have
          MinAge,    \* hours before a prediction is settled
          MaxHour,   \* bound: hours of the model
          MaxSalt,   \* bound: salts drawn
          None

ASSUME AgeAssumption == MinAge \in Nat \ {0} /\ MaxHour \in Nat /\ MaxSalt \in Nat

VARIABLES now,       \* the hour
          row,       \* prediction_logs: one row per symbol and hour
          salts,     \* number of salts drawn
          crossed,   \* history: salts of a row the seal read and the upsert, an hour later, did not write
          durable,   \* the ledger on the branch attestation-log
          node,      \* where the run is
          calm,      \* prophecy: no fault will meet this run
          todo,      \* symbols the cycle has still to analyse
          symbol,    \* the symbol it is analysing
          sealed,    \* its commitment, the one its row is to replace, and the hour of the row read for it
          leaves,    \* CycleCommitmentCollector._leaves
          ledger,    \* the run's checkout, with the lines it appended
          harmed     \* history: a fault took the only copy of a salt

database == <<row, salts, crossed>>
graph == <<todo, symbol, sealed>>
vars == <<now, database, durable, node, calm, graph, leaves, ledger, harmed>>

Hours == 0 .. MaxHour
Commitments == [payload : Payloads, salt : 1 .. MaxSalt]
Rows == [commitment : Commitments, settled : BOOLEAN, revealed : BOOLEAN]
Seals == [commitment : Commitments, superseded : Commitments \cup {None}, hour : Hours]
ASSUME NoneAssumption == None \notin Commitments \cup Rows \cup Seals

Statuses == {"settled", "superseded", "incomplete_cycle"}
Reveals == [commitment : Commitments, status : Statuses, root : (SUBSET Commitments) \cup {None}]
Ledgers == [roots : SUBSET SUBSET Commitments, reveals : SUBSET Reveals]

Running == {"reconcile", "analyze", "commit", "save", "supersede", "leaf", "seal", "sweep"}
Nodes == {"idle", "publish"} \cup Running

Saved == {k \in Symbols \X Hours : row[k] # None}

(* CommitmentLedger.published, FileAttestationLedger.revealed_commitments *)
published(l) == UNION l.roots
revealed_commitments(l) == {r.commitment : r \in l.reveals}

AddReveals(l, rs) == [l EXCEPT !.reveals = @ \cup rs]
Merge(l, m) == [roots |-> l.roots \cup m.roots, reveals |-> l.reveals \cup m.reveals]

(* get_unrevealed_commitments: settled, not stamped. *)
Unrevealed == {k \in Saved : row[k].settled /\ ~ row[k].revealed}

(* A settled row's reveal: with the root of a cycle the commitment is a    *)
(* leaf of, or saying that no root of it went out.                         *)
anchored_reveal_record(c) ==
    IF c \in published(ledger)
    THEN [commitment |-> c, status |-> "settled", root |-> CHOOSE m \in ledger.roots : c \in m]
    ELSE [commitment |-> c, status |-> "incomplete_cycle", root |-> None]

superseded_reveal_record(c) == [commitment |-> c, status |-> "superseded", root |-> None]

-----------------------------------------------------------------------------
Nothing == [roots |-> {}, reveals |-> {}]

Init ==
    /\ now = 0
    /\ row = [k \in Symbols \X Hours |-> None]
    /\ salts = 0
    /\ crossed = {}
    /\ durable = Nothing
    /\ node = "idle"
    /\ calm = FALSE
    /\ todo = {}
    /\ symbol = None
    /\ sealed = None
    /\ leaves = {}
    /\ ledger = Nothing
    /\ harmed = FALSE

Tick ==
    /\ now < MaxHour
    /\ now' = now + 1
    /\ UNCHANGED <<database, durable, node, calm, graph, leaves, ledger, harmed>>

(* The workflow checks the branch out before the agent's step. *)
Checkout(fate) ==
    /\ node = "idle"
    /\ calm' = fate
    /\ node' = "reconcile"
    /\ todo' = Symbols
    /\ leaves' = {}
    /\ ledger' = durable
    /\ UNCHANGED <<now, database, durable, symbol, sealed, harmed>>

(* reconcile: stamps the rows whose reveal survived the last push.  A row  *)
(* whose update fails is left; an unreadable ledger leaves them all.       *)
Stampable == {k \in Unrevealed : row[k].commitment \in revealed_commitments(ledger)}

Reconcile(done) ==
    /\ node = "reconcile"
    /\ calm => done = Stampable
    /\ row' = [k \in DOMAIN row |-> IF k \in done THEN [row[k] EXCEPT !.revealed = TRUE] ELSE row[k]]
    /\ node' = "analyze"
    /\ UNCHANGED <<now, calm, salts, crossed, durable, graph, leaves, ledger, harmed>>

(* The graph of one symbol first settles what is old enough. *)
Due(s) == {k \in Saved : k[1] = s /\ ~ row[k].settled /\ now - k[2] >= MinAge}

Analyze(s, done) ==
    /\ node = "analyze"
    /\ s \in todo
    /\ row' = [k \in DOMAIN row |-> IF k \in done THEN [row[k] EXCEPT !.settled = TRUE] ELSE row[k]]
    /\ todo' = todo \ {s}
    /\ symbol' = s
    /\ node' = "commit"
    /\ UNCHANGED <<now, calm, salts, crossed, durable, sealed, leaves, ledger, harmed>>

(* Gated, or failed before its prediction. *)
NoPrediction ==
    /\ node = "commit"
    /\ node' = "analyze"
    /\ symbol' = None
    /\ UNCHANGED <<now, calm, database, durable, todo, sealed, leaves, ledger, harmed>>

Seal(p, salt, superseded, harm) ==
    /\ harmed' = (harmed \/ harm)
    /\ sealed' = [commitment |-> [payload |-> p, salt |-> salt], superseded |-> superseded, hour |-> now]
    /\ salts' = IF salt > salts THEN salt ELSE salts
    /\ node' = "save"
    /\ UNCHANGED <<now, calm, row, crossed, durable, todo, symbol, leaves, ledger>>

(* _commitment_salt: the row of this hour keeps its salt for the same      *)
(* payload; another payload draws a fresh one and supersedes the stored    *)
(* commitment.  Either read may fail: without the salt the row looks new,  *)
(* without the hash the salt is used again.                                *)
new_salt == salts + 1

Stored == row[<<symbol, now>>]

SealFresh(p) ==
    /\ node = "commit"
    /\ salts < MaxSalt
    /\ Seal(p, new_salt, None, Stored # None)

SealStoredAlways(p) == \* mutant: the row keeps its salt, whatever it now says
    /\ node = "commit"
    /\ Stored # None
    /\ Seal(p, Stored.commitment.salt, None, FALSE)

SealStored(p) ==
    /\ node = "commit"
    /\ Stored # None
    /\ IF Stored.commitment.payload = p
       THEN Seal(p, Stored.commitment.salt, None, FALSE)
       ELSE salts < MaxSalt /\ Seal(p, new_salt, Stored.commitment, FALSE)

SealReuse(p) ==
    /\ node = "commit"
    /\ Stored # None
    /\ Seal(p, Stored.commitment.salt, None, Stored.commitment.payload # p)

(* save_prediction: upsert on (symbol, hour of the database's clock).  The *)
(* columns of a settlement are not in the record.  The hour may have       *)
(* changed since the seal read its row: the upsert then makes a row of its *)
(* own and leaves the one that was read as it is.                          *)
LeftBehind == {k \in Saved : k = <<symbol, sealed.hour>> /\ sealed.hour # now}

Upsert ==
    LET k == <<symbol, now>>
    IN  /\ row' = [row EXCEPT ![k] =
               IF row[k] = None
               THEN [commitment |-> sealed.commitment, settled |-> FALSE, revealed |-> FALSE]
               ELSE [row[k] EXCEPT !.commitment = sealed.commitment]]
        /\ crossed' = crossed \cup {row[j].commitment.salt : j \in LeftBehind}

Save ==
    /\ node = "save"
    /\ Upsert
    /\ node' = IF sealed.superseded = None THEN "leaf" ELSE "supersede"
    /\ UNCHANGED <<now, calm, salts, durable, graph, leaves, ledger, harmed>>

(* Nothing is published of a prediction that was not saved. *)
SaveFailsHalfway == \* mutant: the commitment outlives its prediction
    /\ node = "save"
    /\ node' = "analyze"
    /\ symbol' = None
    /\ UNCHANGED <<now, calm, database, durable, todo, sealed, leaves, ledger, harmed>>

SaveFailsLate == \* mutant: the reveal and the leaf do not wait for the save
    /\ node = "save"
    /\ node' = IF sealed.superseded = None THEN "leaf" ELSE "supersede"
    /\ UNCHANGED <<now, calm, database, durable, graph, leaves, ledger, harmed>>

SaveFails ==
    /\ node = "save"
    /\ node' = "analyze"
    /\ symbol' = None
    /\ sealed' = None
    /\ UNCHANGED <<now, calm, database, durable, todo, leaves, ledger, harmed>>

(* The upsert commits, but its reply is lost: the symbol fails as if       *)
(* nothing had been saved, and the salt of the commitment it replaced is   *)
(* nowhere any more.                                                       *)
SaveReplyLost ==
    /\ node = "save"
    /\ Upsert
    /\ harmed' = (harmed \/ (Stored # None /\ Stored.commitment # sealed.commitment))
    /\ node' = "analyze"
    /\ symbol' = None
    /\ sealed' = None
    /\ UNCHANGED <<now, calm, salts, durable, todo, leaves, ledger>>

(* A file that cannot be written loses its line and nothing else. *)
PublishSuperseded ==
    /\ node = "supersede"
    /\ \/ /\ ledger' = AddReveals(ledger, {superseded_reveal_record(sealed.superseded)})
          /\ UNCHANGED harmed
       \/ /\ harmed' = TRUE
          /\ UNCHANGED ledger
    /\ node' = "leaf"
    /\ UNCHANGED <<now, calm, database, durable, graph, leaves>>

(* CycleCommitmentCollector.publish_commitment *)
PublishCommitment ==
    /\ node = "leaf"
    /\ leaves' = leaves \cup {sealed.commitment}
    /\ node' = "analyze"
    /\ symbol' = None
    /\ sealed' = None
    /\ UNCHANGED <<now, calm, database, durable, todo, ledger, harmed>>

(* The finally after the symbols: also when they raised, but not when the  *)
(* process died.  The sweep follows a report that was sent.  The root of   *)
(* an empty cycle anchors nothing and is left out of the model's ledger.   *)
SealCycle(next, written) ==
    /\ node \in {"analyze", "seal"}
    /\ node = "analyze" => todo = {}
    /\ calm => next = "sweep" /\ written
    /\ ledger' = IF written THEN [ledger EXCEPT !.roots = @ \cup ({leaves} \ {{}})] ELSE ledger
    /\ node' = next
    /\ leaves' = {}
    /\ UNCHANGED <<now, calm, database, durable, graph, harmed>>

RevealInHand == node = "supersede"

CycleRaises ==
    /\ node \in {"analyze", "commit", "save", "supersede", "leaf"}
    /\ ~ calm
    /\ node' = "seal"
    /\ todo' = {} /\ symbol' = None /\ sealed' = None
    /\ harmed' = (harmed \/ RevealInHand)
    /\ UNCHANGED <<now, calm, database, durable, leaves, ledger>>

(* RevealAttestationsUseCase.run: publishes without a stamp.  The ledger   *)
(* it reads is the checkout with the lines of this run.                    *)
SweepOfTheWindow == \* mutant: only rows of a recent window are read
    {k \in Unrevealed : /\ row[k].commitment \notin revealed_commitments(ledger)
                        /\ now - k[2] < MinAge}

Sweepable == {k \in Unrevealed : row[k].commitment \notin revealed_commitments(ledger)}

StampAtOnce(done) == \* mutant: the stamp follows the append, not the push
    /\ node = "sweep"
    /\ calm => done = Sweepable
    /\ ledger' = AddReveals(ledger, {anchored_reveal_record(row[k].commitment) : k \in done})
    /\ row' = [k \in DOMAIN row |-> IF k \in done THEN [row[k] EXCEPT !.revealed = TRUE] ELSE row[k]]
    /\ node' = "publish"
    /\ UNCHANGED <<now, calm, salts, crossed, durable, graph, leaves, harmed>>

Sweep(done) ==
    /\ node = "sweep"
    /\ calm => done = Sweepable
    /\ ledger' = AddReveals(ledger, {anchored_reveal_record(row[k].commitment) : k \in done})
    /\ node' = "publish"
    /\ UNCHANGED <<now, calm, database, durable, graph, leaves, harmed>>

(* The process dies: its step fails, the lines on the disk are published.  *)
Reset == /\ todo' = {} /\ symbol' = None /\ sealed' = None /\ leaves' = {}

Killed ==
    /\ node \in Running
    /\ ~ calm
    /\ node' = "publish"
    /\ Reset
    /\ harmed' = (harmed \/ RevealInHand)
    /\ UNCHANGED <<now, calm, database, durable, ledger>>

(* The job is cancelled, or runs into its time limit: no artifact. *)
RevealStaged(l) == \E r \in l.reveals \ durable.reveals : r.status = "superseded"

Cancelled ==
    /\ node # "idle"
    /\ ~ calm
    /\ harmed' = (harmed \/ RevealInHand \/ RevealStaged(ledger))
    /\ node' = "idle" /\ calm' = FALSE
    /\ Reset
    /\ ledger' = Nothing
    /\ UNCHANGED <<now, database, durable>>

(* The publish job: one commit of both files, rebased with merge=union. *)
PushRevealsOnly == \* mutant: the commitments are not added to the commit
    /\ node = "publish"
    /\ durable' = AddReveals(durable, ledger.reveals)
    /\ node' = "idle" /\ calm' = FALSE
    /\ ledger' = Nothing
    /\ UNCHANGED <<now, database, graph, leaves, harmed>>

Push ==
    /\ node = "publish"
    /\ durable' = Merge(durable, ledger)
    /\ node' = "idle" /\ calm' = FALSE
    /\ ledger' = Nothing
    /\ UNCHANGED <<now, database, graph, leaves, harmed>>

(* The lines stay in an artifact of the run, which nothing reads by itself. *)
PushFails ==
    /\ node = "publish"
    /\ ~ calm
    /\ harmed' = (harmed \/ RevealStaged(ledger))
    /\ node' = "idle" /\ calm' = FALSE
    /\ ledger' = Nothing
    /\ UNCHANGED <<now, database, durable, graph, leaves>>

RunStep ==
    \/ \E done \in SUBSET Stampable : Reconcile(done)
    \/ \E s \in Symbols : \E done \in SUBSET Due(s) : Analyze(s, done)
    \/ NoPrediction
    \/ \E p \in Payloads : SealFresh(p) \/ SealStored(p) \/ SealReuse(p)
    \/ Save \/ SaveFails \/ SaveReplyLost \/ PublishSuperseded \/ PublishCommitment
    \/ \E next \in {"sweep", "publish"}, written \in BOOLEAN : SealCycle(next, written)
    \/ \E done \in SUBSET Sweepable : Sweep(done)
    \/ CycleRaises \/ Killed \/ Cancelled
    \/ Push \/ PushFails

Next == Tick \/ (\E fate \in BOOLEAN : Checkout(fate)) \/ RunStep

Spec == Init /\ [][Next]_vars

(* The cron starts the next run and the time limit of the job ends one     *)
(* that hangs; again and again a run meets no fault, from its checkout to  *)
(* its push.                                                               *)
Fairness ==
    /\ WF_vars(\E fate \in BOOLEAN : Checkout(fate))
    /\ SF_vars(Checkout(TRUE))
    /\ WF_vars(RunStep)

FairSpec == Spec /\ Fairness

-----------------------------------------------------------------------------
(* Properties. *)

(* Types; a run holds lines, leaves and a sealed commitment only while it  *)
(* is under way.                                                           *)
TypeOK ==
    /\ now \in Hours
    /\ row \in [Symbols \X Hours -> Rows \cup {None}]
    /\ salts \in 0 .. MaxSalt
    /\ crossed \subseteq 1 .. MaxSalt
    /\ durable \in Ledgers /\ ledger \in Ledgers
    /\ node \in Nodes
    /\ todo \subseteq Symbols
    /\ symbol \in Symbols \cup {None}
    /\ sealed \in Seals \cup {None}
    /\ leaves \subseteq Commitments
    /\ harmed \in BOOLEAN
    /\ calm \in BOOLEAN
    /\ node \in {"save", "supersede", "leaf"} <=> sealed # None
    /\ node = "idle" => ledger = Nothing /\ leaves = {}

(* WIA-15: a row is stamped as revealed only when its salt is in the       *)
(* ledger that survived a push; otherwise the reveal of a missed           *)
(* prediction would be lost for ever with the lines of one run.            *)
StampedIsDurable ==
    \A k \in Saved : row[k].revealed => row[k].commitment \in revealed_commitments(durable)

(* _check_reveal: what a sceptic's verifier says of a reveal.  A reveal of *)
(* a commitment that no root published is a failure of the ledger whatever *)
(* it says; with its status it is called an incomplete cycle, without it   *)
(* it looks like a fabricated one.                                         *)
Check(l, r) ==
    IF r.commitment \notin published(l)
    THEN IF r.status = "incomplete_cycle" THEN "incomplete" ELSE "unpublished"
    ELSE IF r.root # None /\ r.root \notin l.roots THEN "tampered" ELSE "verified"

(* WIA-60: the reveal of a settled prediction verifies, or says itself     *)
(* that its cycle published no root: it never looks fabricated or tampered *)
(* with, whatever runs, roots and pushes were lost around it.              *)
SettledRevealsVerify ==
    \A r \in durable.reveals : r.status # "superseded" => Check(durable, r) \in {"verified", "incomplete"}

(* The same of every reveal, superseded ones included, as the comment of   *)
(* REVEAL_STATUS_INCOMPLETE_CYCLE says of any prediction whose cycle       *)
(* published no root.                                                      *)
LedgerVerifies == \A r \in durable.reveals : Check(durable, r) \in {"verified", "incomplete"}

(* R-16: no salt comes out while a row that is not settled still holds it; *)
(* what is revealed without the word "superseded" is in a settled row.     *)
(* So "superseded" is said only of a prediction that was really replaced.  *)
(* Excepted are the salts of a row that the seal read when the upsert fell *)
(* into another hour: the row stands, and its salt is published as         *)
(* superseded or shared with the new row.                                  *)
SharedBy(c) == {k \in Saved : row[k].commitment.salt = c.salt}

RevealedIsSettled ==
    \A r \in ledger.reveals \cup durable.reveals :
        /\ r.status # "superseded" => \E k \in Saved : row[k].settled /\ row[k].commitment = r.commitment
        /\ \A k \in SharedBy(r.commitment) : row[k].settled \/ r.commitment.salt \in crossed

(* WIA-01: a published hash can always be opened (its salt is in a row, in *)
(* a reveal, or in the hands of the run that replaces the row), unless one *)
(* of these happened: a failed read of the stored commitment, a lost line  *)
(* of a superseded reveal, a run stopped between the upsert and that line  *)
(* or before its push, a lost reply of an upsert that replaced a           *)
(* commitment.  No other fault costs a salt: not a save that failed in the *)
(* database, a lost root, a lost stamp, an upsert in another hour, nor a   *)
(* run stopped anywhere else.                                              *)
HiddenOnlyByFault ==
    harmed \/ \A c \in published(durable) :
        \/ \E k \in Saved : row[k].commitment = c
        \/ c \in revealed_commitments(durable) \cup revealed_commitments(ledger)
        \/ sealed # None /\ sealed.superseded = c

(* The inductive invariant behind these properties.                        *)
(* RowsInv: no row is ahead of the clock, a prediction is settled after    *)
(* the hour of its row, and stamped after it was settled.                  *)
RowsInv ==
    \A k \in Saved :
        /\ k[2] <= now
        /\ row[k].settled => k[2] < now
        /\ row[k].revealed => row[k].settled

(* RunInv: what a run holds in hand where; until it reconciled, its        *)
(* checkout is what the branch holds.                                      *)
RunInv ==
    /\ node \in {"commit", "save"} => symbol \in Symbols
    /\ node = "supersede" => sealed.superseded # None
    /\ node \in {"sweep", "publish"} => leaves = {}
    /\ node = "reconcile" => ledger = durable

(* AnchorInv: a reveal names a published root its commitment is a leaf of, *)
(* or says that there is none.                                             *)
Anchored(l) ==
    \A r \in l.reveals :
        /\ r.status = "settled" => r.root \in l.roots /\ r.commitment \in r.root
        /\ r.status = "incomplete_cycle" => r.root = None

AnchorInv == Anchored(durable) /\ Anchored(ledger)

(* OpenInv: the salt of every commitment that is published, or is about to *)
(* be, can be found; and the upsert replaces no commitment but its own and *)
(* the one it hands to the reveal.                                         *)
AboutToBePublished ==
    published(durable) \cup published(ledger) \cup leaves
      \cup {c \in Commitments : node \in {"supersede", "leaf"} /\ c = sealed.commitment}

CanBeOpened(c) ==
    \/ \E k \in Saved : row[k].commitment = c
    \/ c \in revealed_commitments(durable) \cup revealed_commitments(ledger)
    \/ node = "supersede" /\ sealed.superseded = c

OpenInv ==
    harmed \/ /\ \A c \in AboutToBePublished : CanBeOpened(c)
              /\ node = "save" /\ Stored # None =>
                     Stored.commitment \in {sealed.commitment, sealed.superseded}

(* SaltsInv: two rows share a salt, or a salt that is out or in hand is in *)
(* a row it should not be in, only after an upsert in another hour; a      *)
(* fresh salt is in no row and in no reveal.                               *)
OnlyIn(c, k) == SharedBy(c) \subseteq {k} \/ c.salt \in crossed

OutBefore(c) == \E r \in ledger.reveals \cup durable.reveals : r.commitment.salt = c.salt

SaltsInv ==
    /\ \A k \in Saved : row[k].commitment.salt <= salts /\ OnlyIn(row[k].commitment, k)
    /\ \A r \in ledger.reveals \cup durable.reveals : r.commitment.salt <= salts
    /\ node = "save" =>
           /\ sealed.commitment.salt <= salts
           /\ OnlyIn(sealed.commitment, <<symbol, sealed.hour>>)
           /\ OutBefore(sealed.commitment) => sealed.commitment.salt \in crossed
           /\ sealed.superseded # None =>
                  /\ sealed.superseded.salt # sealed.commitment.salt
                  /\ OnlyIn(sealed.superseded, <<symbol, sealed.hour>>)
    /\ node \in {"save", "supersede"} /\ sealed.superseded # None => sealed.superseded.salt <= salts
    /\ node = "supersede" =>
           \A k \in SharedBy(sealed.superseded) : row[k].settled \/ sealed.superseded.salt \in crossed

IInv ==
    /\ TypeOK /\ RowsInv /\ RunInv /\ AnchorInv /\ SaltsInv
    /\ StampedIsDurable /\ RevealedIsSettled /\ OpenInv

(* WIA-03: whatever fails on the way, a settled prediction is revealed and *)
(* its row is stamped in the end.                                          *)
EverySettledIsRevealed ==
    \A k \in Symbols \X Hours : (k \in Saved /\ row[k].settled) ~> (k \in Saved /\ row[k].revealed)
=============================================================================
