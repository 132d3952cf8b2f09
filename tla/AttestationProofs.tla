------------------------- MODULE AttestationProofs -------------------------
(***************************************************************************)
(* The track record for any set of symbols and payloads and any number of  *)
(* hours and salts: the inductive invariant, and what it says of stamps,   *)
(* reveals and hidden salts.                                               *)
(***************************************************************************)
EXTENDS Attestation, TLAPS

(* A stamp or a settlement marks rows and keeps what they commit to.       *)
LEMMA Stamped ==
    ASSUME TypeOK, NEW done \in SUBSET Saved,
           row' = [k \in DOMAIN row |-> IF k \in done THEN [row[k] EXCEPT !.revealed = TRUE] ELSE row[k]]
    PROVE  /\ row' \in [Symbols \X Hours -> Rows \cup {None}] /\ Saved' = Saved
           /\ \A k \in Saved : /\ row'[k].commitment = row[k].commitment
                               /\ row'[k].revealed <=> row[k].revealed \/ k \in done
                               /\ row'[k].settled <=> row[k].settled
<1>1. \A k \in Symbols \X Hours :
          row'[k] = IF k \in done THEN [row[k] EXCEPT !.revealed = TRUE] ELSE row[k]
  BY DEF TypeOK
<1>2. ASSUME NEW k \in Saved
      PROVE  /\ row'[k] \in Rows
             /\ row'[k].commitment = row[k].commitment
             /\ row'[k].revealed <=> row[k].revealed \/ k \in done
             /\ row'[k].settled <=> row[k].settled
  <2>1. row[k] \in Rows /\ k \in Symbols \X Hours
    BY DEF TypeOK, Saved
  <2>2. CASE k \in done
    <3>1. row'[k] = [row[k] EXCEPT !.revealed = TRUE]
      BY <1>1, <2>1, <2>2
    <3>2. QED
      BY <2>1, <2>2, <3>1 DEF Rows
  <2>3. CASE k \notin done
    BY <1>1, <2>1, <2>3
  <2>4. QED
    BY <2>2, <2>3
<1>3. \A k \in (Symbols \X Hours) \ Saved : row'[k] = None
  BY <1>1 DEF Saved
<1>4. row' \in [Symbols \X Hours -> Rows \cup {None}]
  <2>1. \A k \in Symbols \X Hours : row'[k] \in Rows \cup {None}
    BY <1>2, <1>3
  <2>2. DOMAIN row = Symbols \X Hours
    BY DEF TypeOK
  <2>3. QED
    BY <2>1, <2>2
<1>5. Saved' = Saved
  <2>1. ASSUME NEW k \in Saved PROVE row'[k] # None
    BY <1>2, NoneAssumption
  <2>2. Saved' = {k \in Symbols \X Hours : row'[k] # None} /\ Saved \subseteq Symbols \X Hours
    BY DEF Saved, Hours
  <2>3. QED
    BY <1>3, <2>1, <2>2
<1>6. QED
  BY <1>2, <1>4, <1>5

LEMMA Settled ==
    ASSUME TypeOK, NEW done \in SUBSET Saved,
           row' = [k \in DOMAIN row |-> IF k \in done THEN [row[k] EXCEPT !.settled = TRUE] ELSE row[k]]
    PROVE  /\ row' \in [Symbols \X Hours -> Rows \cup {None}] /\ Saved' = Saved
           /\ \A k \in Saved : /\ row'[k].commitment = row[k].commitment
                               /\ row'[k].settled <=> row[k].settled \/ k \in done
                               /\ row'[k].revealed <=> row[k].revealed
<1>1. \A k \in Symbols \X Hours :
          row'[k] = IF k \in done THEN [row[k] EXCEPT !.settled = TRUE] ELSE row[k]
  BY DEF TypeOK
<1>2. ASSUME NEW k \in Saved
      PROVE  /\ row'[k] \in Rows
             /\ row'[k].commitment = row[k].commitment
             /\ row'[k].settled <=> row[k].settled \/ k \in done
             /\ row'[k].revealed <=> row[k].revealed
  <2>1. row[k] \in Rows /\ k \in Symbols \X Hours
    BY DEF TypeOK, Saved
  <2>2. CASE k \in done
    <3>1. row'[k] = [row[k] EXCEPT !.settled = TRUE]
      BY <1>1, <2>1, <2>2
    <3>2. QED
      BY <2>1, <2>2, <3>1 DEF Rows
  <2>3. CASE k \notin done
    BY <1>1, <2>1, <2>3
  <2>4. QED
    BY <2>2, <2>3
<1>3. \A k \in (Symbols \X Hours) \ Saved : row'[k] = None
  BY <1>1 DEF Saved
<1>4. row' \in [Symbols \X Hours -> Rows \cup {None}]
  <2>1. \A k \in Symbols \X Hours : row'[k] \in Rows \cup {None}
    BY <1>2, <1>3
  <2>2. DOMAIN row = Symbols \X Hours
    BY DEF TypeOK
  <2>3. QED
    BY <2>1, <2>2
<1>5. Saved' = Saved
  <2>1. ASSUME NEW k \in Saved PROVE row'[k] # None
    BY <1>2, NoneAssumption
  <2>2. Saved' = {k \in Symbols \X Hours : row'[k] # None} /\ Saved \subseteq Symbols \X Hours
    BY DEF Saved, Hours
  <2>3. QED
    BY <1>3, <2>1, <2>2
<1>6. QED
  BY <1>2, <1>4, <1>5

(* The upsert replaces the commitment of one row, which was not settled.   *)
LEMMA Upserted ==
    ASSUME TypeOK, RowsInv, RunInv, node = "save", Upsert
    PROVE  LET k == <<symbol, now>>
           IN  /\ k \in Symbols \X Hours /\ sealed \in Seals
               /\ row' \in [Symbols \X Hours -> Rows \cup {None}]
               /\ Saved' = Saved \cup {k}
               /\ \A j \in Saved \ {k} : row'[j] = row[j]
               /\ row'[k].commitment = sealed.commitment
               /\ row'[k].settled = FALSE /\ row'[k].revealed = FALSE
               /\ k \in Saved => ~ row[k].settled /\ ~ row[k].revealed
               /\ crossed' \subseteq 1 .. MaxSalt /\ crossed \subseteq crossed'
               /\ \A j \in Saved : j = <<symbol, sealed.hour>> /\ j # k => row[j].commitment.salt \in crossed'
<1> DEFINE k == <<symbol, now>>
<1>1. node = "save" /\ k \in Symbols \X Hours /\ now \in Nat
  BY DEF RunInv, TypeOK, Hours
<1>2. sealed \in Seals /\ sealed.commitment \in Commitments
  BY <1>1 DEF TypeOK, Seals
<1>3. row' = [row EXCEPT ![k] =
                 IF row[k] = None
                 THEN [commitment |-> sealed.commitment, settled |-> FALSE, revealed |-> FALSE]
                 ELSE [row[k] EXCEPT !.commitment = sealed.commitment]]
  BY DEF Upsert
<1>4. k \in Saved => ~ row[k].settled /\ ~ row[k].revealed /\ row[k] \in Rows
  <2>1. SUFFICES ASSUME k \in Saved PROVE ~ row[k].settled /\ ~ row[k].revealed /\ row[k] \in Rows
    OBVIOUS
  <2>2. row[k] \in Rows
    BY <2>1, <1>1 DEF TypeOK, Saved
  <2>3. ~ (k[2] < now)
    BY <1>1
  <2>4. ~ row[k].settled /\ ~ row[k].revealed
    BY <2>1, <2>3 DEF RowsInv
  <2>5. QED
    BY <2>2, <2>4
<1>5. /\ row'[k] \in Rows /\ row'[k].commitment = sealed.commitment
      /\ row'[k].settled = FALSE /\ row'[k].revealed = FALSE
  <2>1. row'[k] = IF row[k] = None
                  THEN [commitment |-> sealed.commitment, settled |-> FALSE, revealed |-> FALSE]
                  ELSE [row[k] EXCEPT !.commitment = sealed.commitment]
    BY <1>1, <1>3 DEF TypeOK
  <2>2. CASE row[k] = None
    BY <1>2, <2>1, <2>2 DEF Rows
  <2>3. CASE row[k] # None
    <3>1. k \in Saved
      BY <1>1, <2>3 DEF Saved
    <3>2. QED
      BY <1>2, <1>4, <2>1, <2>3, <3>1 DEF Rows
  <2>4. QED
    BY <2>2, <2>3
<1>6. /\ row' \in [Symbols \X Hours -> Rows \cup {None}]
      /\ \A j \in (Symbols \X Hours) \ {k} : row'[j] = row[j]
  BY <1>1, <1>3, <1>5 DEF TypeOK
<1>7. Saved' = Saved \cup {k} /\ \A j \in Saved \ {k} : row'[j] = row[j]
  BY <1>1, <1>5, <1>6, NoneAssumption DEF Saved
<1>8. /\ crossed' \subseteq 1 .. MaxSalt /\ crossed \subseteq crossed'
      /\ \A j \in Saved : j = <<symbol, sealed.hour>> /\ j # k => row[j].commitment.salt \in crossed'
  <2>1. crossed' = crossed \cup {row[j].commitment.salt : j \in LeftBehind}
    BY DEF Upsert
  <2>2. \A j \in Saved : row[j].commitment.salt \in 1 .. MaxSalt
    BY DEF TypeOK, Saved, Rows, Commitments
  <2>3. LeftBehind = {j \in Saved : j = <<symbol, sealed.hour>> /\ j # k}
    BY DEF LeftBehind
  <2>4. QED
    BY <2>1, <2>2, <2>3 DEF TypeOK
<1>9. QED
  BY <1>1, <1>2, <1>4, <1>5, <1>6, <1>7, <1>8

(* Lines are only appended.                                                *)
LEMMA Appended ==
    ASSUME NEW l \in Ledgers, NEW rs \in SUBSET Reveals
    PROVE  /\ AddReveals(l, rs) \in Ledgers
           /\ AddReveals(l, rs).roots = l.roots
           /\ AddReveals(l, rs).reveals = l.reveals \cup rs
BY DEF Ledgers, AddReveals

LEMMA Merged ==
    ASSUME NEW l \in Ledgers, NEW m \in Ledgers
    PROVE  /\ Merge(l, m) \in Ledgers
           /\ Merge(l, m).roots = l.roots \cup m.roots
           /\ Merge(l, m).reveals = l.reveals \cup m.reveals
BY DEF Ledgers, Merge

LEMMA Rooted ==
    ASSUME NEW l \in Ledgers, NEW ms \in SUBSET SUBSET Commitments
    PROVE  LET n == [l EXCEPT !.roots = @ \cup ms]
           IN  n \in Ledgers /\ n.roots = l.roots \cup ms /\ n.reveals = l.reveals
BY DEF Ledgers

LEMMA Empty ==
    Nothing \in Ledgers /\ Nothing.roots = {} /\ Nothing.reveals = {} /\ published(Nothing) = {}
BY DEF Nothing, Ledgers, published

(* The record a sweep writes of a commitment.                              *)
LEMMA SweptRecord ==
    ASSUME TypeOK, NEW c \in Commitments
    PROVE  LET r == anchored_reveal_record(c)
           IN  /\ r \in Reveals /\ r.commitment = c
               /\ \/ r.status = "settled" /\ r.root \in ledger.roots /\ c \in r.root
                  \/ r.status = "incomplete_cycle" /\ r.root = None
<1>1. ledger.roots \in SUBSET SUBSET Commitments
  BY DEF TypeOK, Ledgers
<1>2. CASE c \in published(ledger)
  <2>1. PICK m \in ledger.roots : c \in m
    BY <1>2 DEF published
  <2>2. /\ (CHOOSE n \in ledger.roots : c \in n) \in ledger.roots
        /\ c \in (CHOOSE n \in ledger.roots : c \in n)
    BY <2>1
  <2> DEFINE root == CHOOSE n \in ledger.roots : c \in n
  <2>3. anchored_reveal_record(c) = [commitment |-> c, status |-> "settled", root |-> root]
    BY <1>2 DEF anchored_reveal_record
  <2> HIDE DEF root
  <2>4. root \in ledger.roots /\ c \in root
    BY <2>2 DEF root
  <2>5. QED
    BY <1>1, <2>3, <2>4 DEF Reveals, Statuses
<1>3. CASE c \notin published(ledger)
  BY <1>3 DEF anchored_reveal_record, Reveals, Statuses
<1>4. QED
  BY <1>2, <1>3

(* What a sweep adds to the ledger, all of it of settled rows.             *)
LEMMA SweptRecords ==
    ASSUME TypeOK, NEW done \in SUBSET Sweepable
    PROVE  LET rs == {anchored_reveal_record(row[k].commitment) : k \in done}
           IN  /\ rs \in SUBSET Reveals
               /\ \A r \in rs :
                     /\ \E k \in Saved : row[k].settled /\ row[k].commitment = r.commitment
                     /\ \/ r.status = "settled" /\ r.root \in ledger.roots /\ r.commitment \in r.root
                        \/ r.status = "incomplete_cycle" /\ r.root = None
<1>1. ASSUME NEW k \in done
      PROVE  LET r == anchored_reveal_record(row[k].commitment)
             IN  /\ r \in Reveals
                 /\ k \in Saved /\ row[k].settled /\ row[k].commitment = r.commitment
                 /\ \/ r.status = "settled" /\ r.root \in ledger.roots /\ r.commitment \in r.root
                    \/ r.status = "incomplete_cycle" /\ r.root = None
  <2>1. k \in Saved /\ row[k].settled
    BY DEF Sweepable, Unrevealed
  <2>2. row[k].commitment \in Commitments
    BY <2>1 DEF TypeOK, Saved, Rows
  <2>3. QED
    BY <2>1, <2>2, SweptRecord
<1>2. QED
  BY <1>1

-----------------------------------------------------------------------------
LEMMA StepTypes ==
    ASSUME IInv, [Next]_vars
    PROVE  TypeOK'
<1> USE DEF Nodes, Running
<1>0. /\ TypeOK /\ RowsInv /\ RunInv
      /\ now \in Hours /\ row \in [Symbols \X Hours -> Rows \cup {None}]
      /\ salts \in 0 .. MaxSalt /\ durable \in Ledgers /\ ledger \in Ledgers /\ node \in Nodes
      /\ todo \subseteq Symbols /\ symbol \in Symbols \cup {None} /\ sealed \in Seals \cup {None}
      /\ leaves \subseteq Commitments /\ harmed \in BOOLEAN /\ calm \in BOOLEAN /\ crossed \subseteq 1 .. MaxSalt
      /\ node \in {"save", "supersede", "leaf"} <=> sealed # None
      /\ node = "idle" => ledger = Nothing /\ leaves = {}
  BY DEF IInv, TypeOK
<1>1. CASE UNCHANGED vars
  BY <1>0, <1>1 DEF vars, database, graph, TypeOK
<1>2. CASE Tick
  BY <1>0, <1>2, AgeAssumption DEF Tick, database, graph, TypeOK, Hours
<1>3. ASSUME NEW fate \in BOOLEAN, Checkout(fate) PROVE TypeOK'
  BY <1>0, <1>3 DEF Checkout, database, TypeOK
<1>4. ASSUME NEW done \in SUBSET Stampable, Reconcile(done) PROVE TypeOK'
  <2>1. done \in SUBSET Saved
    BY DEF Stampable, Unrevealed
  <2>2. row' \in [Symbols \X Hours -> Rows \cup {None}]
    BY <1>0, <1>4, <2>1, Stamped DEF Reconcile
  <2>3. QED
    BY <1>0, <1>4, <2>2 DEF Reconcile, graph, TypeOK
<1>5. ASSUME NEW s \in Symbols, NEW done \in SUBSET Due(s), Analyze(s, done) PROVE TypeOK'
  <2>1. done \in SUBSET Saved
    BY DEF Due
  <2>2. row' \in [Symbols \X Hours -> Rows \cup {None}]
    BY <1>0, <1>5, <2>1, Settled DEF Analyze
  <2>3. QED
    BY <1>0, <1>5, <2>2 DEF Analyze, TypeOK
<1>6. CASE NoPrediction \/ SaveFails
  BY <1>0, <1>6 DEF NoPrediction, SaveFails, database, TypeOK
<1>7. ASSUME NEW p \in Payloads, SealFresh(p) \/ SealStored(p) \/ SealReuse(p) PROVE TypeOK'
  <2>1. node = "commit" /\ symbol \in Symbols
    BY <1>0, <1>7 DEF SealFresh, SealStored, SealReuse, RunInv
  <2>2. Stored # None => Stored \in Rows /\ Stored.commitment \in Commitments /\ Stored.commitment.salt \in 1 .. MaxSalt
    BY <1>0, <2>1 DEF Stored, Rows, Commitments
  <2>3. PICK salt \in 1 .. MaxSalt, old \in Commitments \cup {None}, harm \in BOOLEAN : Seal(p, salt, old, harm)
    <3>1. CASE SealFresh(p)
      <4>1. new_salt \in 1 .. MaxSalt
        BY <1>0, <3>1, AgeAssumption DEF SealFresh, new_salt
      <4>2. QED
        BY <3>1, <4>1 DEF SealFresh
    <3>2. CASE SealStored(p)
      <4>1. CASE Stored.commitment.payload = p
        BY <2>2, <3>2, <4>1 DEF SealStored
      <4>2. CASE Stored.commitment.payload # p
        <5>1. Stored # None /\ salts < MaxSalt /\ Seal(p, new_salt, Stored.commitment, FALSE)
          BY <3>2, <4>2 DEF SealStored
        <5>2. new_salt \in 1 .. MaxSalt
          BY <1>0, <5>1, AgeAssumption DEF new_salt
        <5>3. QED
          BY <2>2, <5>1, <5>2
      <4>3. QED
        BY <4>1, <4>2
    <3>3. CASE SealReuse(p)
      BY <2>2, <3>3 DEF SealReuse
    <3>4. QED
      BY <1>7, <3>1, <3>2, <3>3
  <2>4. sealed' \in Seals
    BY <1>0, <2>3 DEF Seal, Seals, Commitments
  <2>5. salts' \in 0 .. MaxSalt
    BY <1>0, <2>3, AgeAssumption DEF Seal
  <2>6. QED
    BY <1>0, <2>3, <2>4, <2>5, NoneAssumption DEF Seal, TypeOK
<1>8. CASE Save \/ SaveReplyLost
  <2>1. row' \in [Symbols \X Hours -> Rows \cup {None}] /\ crossed' \subseteq 1 .. MaxSalt
    BY <1>0, <1>8, Upserted DEF Save, SaveReplyLost
  <2>2. QED
    BY <1>0, <1>8, <2>1 DEF Save, SaveReplyLost, graph, TypeOK
<1>9. CASE PublishSuperseded
  <2>1. node = "supersede" /\ sealed \in Seals
    BY <1>0, <1>9 DEF PublishSuperseded
  <2>2. superseded_reveal_record(sealed.superseded) \in Reveals
    BY <1>0, <2>1 DEF RunInv, superseded_reveal_record, Seals, Reveals, Statuses
  <2>3. ledger' \in Ledgers /\ harmed' \in BOOLEAN
    <3>1. AddReveals(ledger, {superseded_reveal_record(sealed.superseded)}) \in Ledgers
      BY <1>0, <2>2, Appended
    <3>2. QED
      BY <1>0, <1>9, <3>1 DEF PublishSuperseded
  <2>4. QED
    BY <1>0, <1>9, <2>3 DEF PublishSuperseded, database, graph, TypeOK
<1>10. CASE PublishCommitment
  <2>1. sealed \in Seals /\ sealed.commitment \in Commitments
    BY <1>0, <1>10 DEF PublishCommitment, Seals
  <2>2. QED
    BY <1>0, <1>10, <2>1 DEF PublishCommitment, database, TypeOK
<1>11. ASSUME NEW next \in {"sweep", "publish"}, NEW written \in BOOLEAN, SealCycle(next, written)
       PROVE  TypeOK'
  <2>1. ledger' \in Ledgers
    BY <1>0, <1>11, Rooted DEF SealCycle
  <2>2. QED
    BY <1>0, <1>11, <2>1 DEF SealCycle, database, graph, TypeOK
<1>12. ASSUME NEW done \in SUBSET Sweepable, Sweep(done) PROVE TypeOK'
  <2>1. ledger' \in Ledgers
    BY <1>0, <1>12, SweptRecords, Appended DEF Sweep
  <2>2. QED
    BY <1>0, <1>12, <2>1 DEF Sweep, database, graph, TypeOK
<1>13. CASE CycleRaises \/ Killed \/ Cancelled
  <2>1. harmed' \in BOOLEAN
    BY <1>0, <1>13 DEF CycleRaises, Killed, Cancelled
  <2>2. QED
    BY <1>0, <1>13, <2>1, Empty DEF CycleRaises, Killed, Cancelled, Reset, database, TypeOK
<1>14. CASE Push \/ PushFails
  <2>1. harmed' \in BOOLEAN /\ durable' \in Ledgers
    <3>1. CASE Push
      BY <1>0, <3>1, Merged DEF Push
    <3>2. CASE PushFails
      BY <1>0, <3>2 DEF PushFails, RevealStaged
    <3>3. QED
      BY <1>14, <3>1, <3>2
  <2>2. leaves = {}
    BY <1>0, <1>14 DEF Push, PushFails, RunInv
  <2>3. QED
    BY <1>0, <1>14, <2>1, <2>2, Empty DEF Push, PushFails, database, graph, TypeOK
<1>15. QED
  BY <1>1, <1>2, <1>3, <1>4, <1>5, <1>6, <1>7, <1>8, <1>9, <1>10, <1>11, <1>12, <1>13, <1>14 DEF Next, RunStep

-----------------------------------------------------------------------------
(* Where the rows and the run may be.                                      *)
LEMMA StepRows ==
    ASSUME IInv, [Next]_vars
    PROVE  RowsInv'
<1> DEFINE Fine(k) == /\ k[2] <= now /\ (row[k].settled => k[2] < now)
                      /\ (row[k].revealed => row[k].settled)
<1>0. /\ TypeOK /\ RowsInv /\ RunInv /\ now \in Nat /\ \A k \in Saved : k[2] \in Nat /\ Fine(k)
  BY DEF IInv, TypeOK, Hours, Saved, RowsInv
<1>1. CASE Tick
  BY <1>0, <1>1 DEF Tick, database, RowsInv, Saved
<1>2. ASSUME NEW done \in SUBSET Stampable, Reconcile(done) PROVE RowsInv'
  <2>1. done \in SUBSET Saved /\ now' = now /\ \A k \in done : row[k].settled
    BY <1>2 DEF Stampable, Unrevealed, Reconcile
  <2>2. /\ Saved' = Saved
        /\ \A k \in Saved : /\ row'[k].settled <=> row[k].settled
                            /\ row'[k].revealed <=> row[k].revealed \/ k \in done
    BY <1>0, <1>2, <2>1, Stamped DEF Reconcile
  <2>3. QED
    BY <1>0, <2>1, <2>2 DEF RowsInv
<1>3. ASSUME NEW s \in Symbols, NEW done \in SUBSET Due(s), Analyze(s, done) PROVE RowsInv'
  <2>1. done \in SUBSET Saved /\ now' = now /\ \A k \in done : now - k[2] >= MinAge
    BY <1>3 DEF Due, Analyze
  <2>2. /\ Saved' = Saved
        /\ \A k \in Saved : /\ row'[k].settled <=> row[k].settled \/ k \in done
                            /\ row'[k].revealed <=> row[k].revealed
    BY <1>0, <1>3, <2>1, Settled DEF Analyze
  <2>3. \A k \in done : k[2] < now
    BY <1>0, <2>1, AgeAssumption
  <2>4. QED
    BY <1>0, <2>1, <2>2, <2>3 DEF RowsInv
<1>4. CASE Save \/ SaveReplyLost
  <2> DEFINE k == <<symbol, now>>
  <2>1. /\ Saved' = Saved \cup {k} /\ now' = now
        /\ \A j \in Saved \ {k} : row'[j] = row[j]
        /\ row'[k].settled = FALSE /\ row'[k].revealed = FALSE
    BY <1>0, <1>4, Upserted DEF Save, SaveReplyLost
  <2>2. k[2] = now
    OBVIOUS
  <2> HIDE DEF k
  <2>3. QED
    BY <1>0, <2>1, <2>2 DEF RowsInv
<1>5. CASE UNCHANGED <<row, now>>
  BY <1>0, <1>5 DEF RowsInv, Saved
<1>6. \/ Tick \/ Save \/ SaveReplyLost \/ UNCHANGED <<row, now>>
      \/ \E done \in SUBSET Stampable : Reconcile(done)
      \/ \E s \in Symbols : \E done \in SUBSET Due(s) : Analyze(s, done)
  BY DEF Next, RunStep, Checkout, NoPrediction, SealFresh, SealStored, SealReuse, Seal, SaveFails, SaveReplyLost,
     PublishSuperseded, PublishCommitment, SealCycle, Sweep, CycleRaises, Killed, Cancelled, Push, PushFails,
     vars, database
<1>7. QED
  BY <1>1, <1>2, <1>3, <1>4, <1>5, <1>6

LEMMA StepRun ==
    ASSUME IInv, [Next]_vars
    PROVE  RunInv'
<1>0. TypeOK /\ RunInv
  BY DEF IInv
<1>1. CASE Tick \/ UNCHANGED vars
  BY <1>0, <1>1 DEF Tick, vars, database, graph, RunInv
<1>2. CASE \E fate \in BOOLEAN : Checkout(fate)
  BY <1>2 DEF Checkout, RunInv
<1>3. ASSUME NEW done \in SUBSET Stampable, Reconcile(done) PROVE RunInv'
  BY <1>3 DEF Reconcile, RunInv
<1>4. ASSUME NEW s \in Symbols, NEW done \in SUBSET Due(s), Analyze(s, done) PROVE RunInv'
  BY <1>4 DEF Analyze, RunInv
<1>5. CASE NoPrediction \/ SaveFails \/ SaveReplyLost \/ PublishSuperseded \/ PublishCommitment \/ CycleRaises \/ Cancelled
            \/ Killed \/ Push \/ PushFails
  BY <1>0, <1>5 DEF NoPrediction, SaveFails, SaveReplyLost, PublishSuperseded, PublishCommitment, CycleRaises, Cancelled,
     Killed, Reset, Push, PushFails, RunInv, TypeOK
<1>6. ASSUME NEW p \in Payloads, SealFresh(p) \/ SealStored(p) \/ SealReuse(p) PROVE RunInv'
  <2>1. node = "commit" /\ node' = "save" /\ symbol' = symbol
    BY <1>6 DEF SealFresh, SealStored, SealReuse, Seal
  <2>2. QED
    BY <1>0, <2>1 DEF RunInv
<1>7. CASE Save
  BY <1>0, <1>7 DEF Save, graph, RunInv
<1>8. ASSUME NEW next \in {"sweep", "publish"}, NEW written \in BOOLEAN, SealCycle(next, written)
      PROVE  RunInv'
  BY <1>8 DEF SealCycle, RunInv
<1>9. ASSUME NEW done \in SUBSET Sweepable, Sweep(done) PROVE RunInv'
  BY <1>0, <1>9 DEF Sweep, RunInv
<1>10. QED
  BY <1>1, <1>2, <1>3, <1>4, <1>5, <1>6, <1>7, <1>8, <1>9 DEF Next, RunStep

-----------------------------------------------------------------------------
(* What a step does to the branch and to the checkout.                     *)
LEMMA Lines ==
    ASSUME IInv, [Next]_vars
    PROVE  \/ UNCHANGED <<durable, ledger>>
           \/ /\ UNCHANGED durable
              /\ \/ node = "idle" /\ ledger' = durable
                 \/ ledger' = Nothing /\ (Cancelled \/ PushFails)
                 \/ PublishSuperseded /\ ledger' = AddReveals(ledger, {superseded_reveal_record(sealed.superseded)})
                 \/ node \in {"analyze", "seal"} /\ ledger' = [ledger EXCEPT !.roots = @ \cup ({leaves} \ {{}})]
                 \/ \E done \in SUBSET Sweepable :
                       ledger' = AddReveals(ledger, {anchored_reveal_record(row[k].commitment) : k \in done})
           \/ Push /\ durable' = Merge(durable, ledger) /\ ledger' = Nothing
<1>1. CASE \/ Tick \/ UNCHANGED vars \/ NoPrediction \/ Save \/ SaveFails \/ SaveReplyLost
           \/ PublishCommitment \/ CycleRaises \/ Killed
  BY <1>1 DEF Tick, vars, NoPrediction, Save, SaveFails, SaveReplyLost, PublishCommitment, CycleRaises, Killed, database
<1>2. CASE \E fate \in BOOLEAN : Checkout(fate)
  BY <1>2 DEF Checkout
<1>3. CASE \/ \E done \in SUBSET Stampable : Reconcile(done)
           \/ \E s \in Symbols : \E done \in SUBSET Due(s) : Analyze(s, done)
           \/ \E p \in Payloads : SealFresh(p) \/ SealStored(p) \/ SealReuse(p)
  BY <1>3 DEF Reconcile, Analyze, SealFresh, SealStored, SealReuse, Seal
<1>4. CASE PublishSuperseded
  BY <1>4 DEF PublishSuperseded
<1>5. CASE \E next \in {"sweep", "publish"}, written \in BOOLEAN : SealCycle(next, written)
  BY <1>5 DEF SealCycle
<1>6. CASE \E done \in SUBSET Sweepable : Sweep(done)
  BY <1>6 DEF Sweep
<1>7. CASE Cancelled \/ PushFails \/ Push
  BY <1>7 DEF Cancelled, PushFails, Push
<1>8. QED
  BY <1>1, <1>2, <1>3, <1>4, <1>5, <1>6, <1>7 DEF Next, RunStep

LEMMA StepAnchor ==
    ASSUME IInv, [Next]_vars
    PROVE  AnchorInv'
<1>0. /\ TypeOK /\ durable \in Ledgers /\ ledger \in Ledgers
      /\ Anchored(durable) /\ Anchored(ledger) /\ leaves \subseteq Commitments
  BY DEF IInv, TypeOK, AnchorInv
<1>1. CASE UNCHANGED <<durable, ledger>>
  BY <1>0, <1>1 DEF AnchorInv, Anchored
<1>2. CASE UNCHANGED durable /\ ledger' = durable
  BY <1>0, <1>2 DEF AnchorInv, Anchored
<1>3. CASE UNCHANGED durable /\ ledger' = Nothing
  BY <1>0, <1>3, Empty DEF AnchorInv, Anchored
<1>4. CASE /\ UNCHANGED durable /\ PublishSuperseded
           /\ ledger' = AddReveals(ledger, {superseded_reveal_record(sealed.superseded)})
  <2>1. node = "supersede" /\ sealed \in Seals
    BY <1>0, <1>4 DEF PublishSuperseded, TypeOK
  <2>2. /\ superseded_reveal_record(sealed.superseded) \in Reveals
        /\ superseded_reveal_record(sealed.superseded).status = "superseded"
    BY <2>1 DEF IInv, RunInv, superseded_reveal_record, Seals, Reveals, Statuses
  <2>3. ledger'.roots = ledger.roots /\ ledger'.reveals = ledger.reveals \cup {superseded_reveal_record(sealed.superseded)}
    BY <1>0, <1>4, <2>2, Appended
  <2>4. QED
    BY <1>0, <1>4, <2>2, <2>3 DEF AnchorInv, Anchored
<1>5. CASE UNCHANGED durable /\ ledger' = [ledger EXCEPT !.roots = @ \cup ({leaves} \ {{}})]
  <2>1. ledger'.roots = ledger.roots \cup ({leaves} \ {{}}) /\ ledger'.reveals = ledger.reveals
    BY <1>0, <1>5, Rooted
  <2>2. QED
    BY <1>0, <1>5, <2>1 DEF AnchorInv, Anchored
<1>6. ASSUME UNCHANGED durable, NEW done \in SUBSET Sweepable,
             ledger' = AddReveals(ledger, {anchored_reveal_record(row[k].commitment) : k \in done})
      PROVE  AnchorInv'
  <2> DEFINE rs == {anchored_reveal_record(row[k].commitment) : k \in done}
  <2>1. /\ rs \in SUBSET Reveals
        /\ \A r \in rs : \/ r.status = "settled" /\ r.root \in ledger.roots /\ r.commitment \in r.root
                         \/ r.status = "incomplete_cycle" /\ r.root = None
    BY <1>0, SweptRecords
  <2>2. ledger'.roots = ledger.roots /\ ledger'.reveals = ledger.reveals \cup rs
    BY <1>0, <1>6, <2>1, Appended
  <2> HIDE DEF rs
  <2>3. QED
    BY <1>0, <1>6, <2>1, <2>2 DEF AnchorInv, Anchored
<1>7. CASE durable' = Merge(durable, ledger) /\ ledger' = Nothing
  <2>1. durable'.roots = durable.roots \cup ledger.roots /\ durable'.reveals = durable.reveals \cup ledger.reveals
    BY <1>0, <1>7, Merged
  <2>2. QED
    BY <1>0, <1>7, <2>1, Empty DEF AnchorInv, Anchored
<1>8. QED
  BY <1>1, <1>2, <1>3, <1>4, <1>5, <1>6, <1>7, Lines

(* The branch only grows.                                                  *)
LEMMA BranchGrows ==
    ASSUME IInv, [Next]_vars
    PROVE  /\ published(durable) \subseteq published(durable')
           /\ durable.reveals \subseteq durable'.reveals
           /\ revealed_commitments(durable) \subseteq revealed_commitments(durable')
<1>1. CASE durable' = durable
  BY <1>1
<1>2. CASE durable' = Merge(durable, ledger)
  <2>1. durable'.roots = durable.roots \cup ledger.roots /\ durable'.reveals = durable.reveals \cup ledger.reveals
    BY <1>2, Merged DEF IInv, TypeOK
  <2>2. QED
    BY <2>1 DEF published, revealed_commitments
<1>3. QED
  BY <1>1, <1>2, Lines

LEMMA StepStamped ==
    ASSUME IInv, [Next]_vars
    PROVE  StampedIsDurable'
<1>0. /\ TypeOK /\ RowsInv /\ RunInv /\ StampedIsDurable
      /\ revealed_commitments(durable) \subseteq revealed_commitments(durable')
  BY BranchGrows DEF IInv
<1>1. ASSUME NEW done \in SUBSET Stampable, Reconcile(done) PROVE StampedIsDurable'
  <2>1. /\ done \in SUBSET Saved /\ durable' = durable
        /\ \A k \in done : row[k].commitment \in revealed_commitments(durable)
    BY <1>0, <1>1 DEF Stampable, Unrevealed, Reconcile, RunInv
  <2>2. /\ Saved' = Saved
        /\ \A k \in Saved : /\ row'[k].commitment = row[k].commitment
                            /\ row'[k].revealed <=> row[k].revealed \/ k \in done
    BY <1>0, <1>1, <2>1, Stamped DEF Reconcile
  <2>3. QED
    BY <1>0, <2>1, <2>2 DEF StampedIsDurable
<1>2. ASSUME NEW s \in Symbols, NEW done \in SUBSET Due(s), Analyze(s, done) PROVE StampedIsDurable'
  <2>1. done \in SUBSET Saved
    BY DEF Due
  <2>2. /\ Saved' = Saved
        /\ \A k \in Saved : /\ row'[k].commitment = row[k].commitment
                            /\ row'[k].revealed <=> row[k].revealed
    BY <1>0, <1>2, <2>1, Settled DEF Analyze
  <2>3. QED
    BY <1>0, <2>2 DEF StampedIsDurable
<1>3. CASE Save \/ SaveReplyLost
  <2> DEFINE k == <<symbol, now>>
  <2>1. /\ Saved' = Saved \cup {k}
        /\ \A j \in Saved \ {k} : row'[j] = row[j]
        /\ row'[k].revealed = FALSE
    BY <1>0, <1>3, Upserted DEF Save, SaveReplyLost
  <2> HIDE DEF k
  <2>2. QED
    BY <1>0, <2>1 DEF StampedIsDurable
<1>4. CASE UNCHANGED row
  BY <1>0, <1>4 DEF StampedIsDurable, Saved
<1>5. \/ Save \/ SaveReplyLost \/ UNCHANGED row
      \/ \E done \in SUBSET Stampable : Reconcile(done)
      \/ \E s \in Symbols : \E done \in SUBSET Due(s) : Analyze(s, done)
  BY DEF Next, RunStep, Tick, Checkout, NoPrediction, SealFresh, SealStored, SealReuse, Seal, SaveFails, SaveReplyLost,
     PublishSuperseded, PublishCommitment, SealCycle, Sweep, CycleRaises, Killed, Cancelled, Push, PushFails,
     vars, database
<1>6. QED
  BY <1>1, <1>2, <1>3, <1>4, <1>5

-----------------------------------------------------------------------------
(* A row keeps its commitment, but for the row that is upserted, which no  *)
(* settlement has reached.                                                 *)
LEMMA RowsStay ==
    ASSUME IInv, [Next]_vars, NEW k \in Saved,
           row[k].settled \/ ~ ((Save \/ SaveReplyLost) /\ k = <<symbol, now>>)
    PROVE  /\ k \in Saved' /\ row'[k].commitment = row[k].commitment
           /\ row[k].settled => row'[k].settled
<1>0. TypeOK /\ RowsInv /\ RunInv
  BY DEF IInv
<1>1. ASSUME NEW done \in SUBSET Stampable, Reconcile(done)
      PROVE  k \in Saved' /\ row'[k].commitment = row[k].commitment /\ (row[k].settled => row'[k].settled)
  <2>1. done \in SUBSET Saved
    BY DEF Stampable, Unrevealed
  <2>2. QED
    BY <1>0, <1>1, <2>1, Stamped DEF Reconcile
<1>2. ASSUME NEW s \in Symbols, NEW done \in SUBSET Due(s), Analyze(s, done)
      PROVE  k \in Saved' /\ row'[k].commitment = row[k].commitment /\ (row[k].settled => row'[k].settled)
  <2>1. done \in SUBSET Saved
    BY DEF Due
  <2>2. QED
    BY <1>0, <1>2, <2>1, Settled DEF Analyze
<1>3. CASE Save \/ SaveReplyLost
  <2> DEFINE n == <<symbol, now>>
  <2>1. /\ Saved' = Saved \cup {n} /\ \A j \in Saved \ {n} : row'[j] = row[j]
        /\ n \in Saved => ~ row[n].settled
    BY <1>0, <1>3, Upserted DEF Save, SaveReplyLost
  <2>2. k # n
    BY <1>3, <2>1
  <2> HIDE DEF n
  <2>3. QED
    BY <2>1, <2>2
<1>4. CASE UNCHANGED row
  BY <1>4 DEF Saved
<1>5. \/ Save \/ SaveReplyLost \/ UNCHANGED row
      \/ \E done \in SUBSET Stampable : Reconcile(done)
      \/ \E s \in Symbols : \E done \in SUBSET Due(s) : Analyze(s, done)
  BY DEF Next, RunStep, Tick, Checkout, NoPrediction, SealFresh, SealStored, SealReuse, Seal, SaveFails, SaveReplyLost,
     PublishSuperseded, PublishCommitment, SealCycle, Sweep, CycleRaises, Killed, Cancelled, Push, PushFails,
     vars, database
<1>6. QED
  BY <1>1, <1>2, <1>3, <1>4, <1>5

(* Only an upsert changes what rows commit to.                             *)
LEMMA RowsKept ==
    ASSUME IInv, [Next]_vars, ~ (Save \/ SaveReplyLost)
    PROVE  /\ Saved' = Saved /\ crossed' = crossed
           /\ \A k \in Saved : /\ row'[k].commitment = row[k].commitment
                               /\ row[k].settled => row'[k].settled
<1>0. TypeOK
  BY DEF IInv
<1>1. ASSUME NEW done \in SUBSET Stampable, Reconcile(done)
      PROVE  /\ Saved' = Saved /\ crossed' = crossed
             /\ \A k \in Saved : row'[k].commitment = row[k].commitment /\ (row[k].settled => row'[k].settled)
  <2>1. done \in SUBSET Saved
    BY DEF Stampable, Unrevealed
  <2>2. QED
    BY <1>0, <1>1, <2>1, Stamped DEF Reconcile
<1>2. ASSUME NEW s \in Symbols, NEW done \in SUBSET Due(s), Analyze(s, done)
      PROVE  /\ Saved' = Saved /\ crossed' = crossed
             /\ \A k \in Saved : row'[k].commitment = row[k].commitment /\ (row[k].settled => row'[k].settled)
  <2>1. done \in SUBSET Saved
    BY DEF Due
  <2>2. QED
    BY <1>0, <1>2, <2>1, Settled DEF Analyze
<1>3. CASE UNCHANGED <<row, crossed>>
  BY <1>3 DEF Saved
<1>4. \/ UNCHANGED <<row, crossed>>
      \/ \E done \in SUBSET Stampable : Reconcile(done)
      \/ \E s \in Symbols : \E done \in SUBSET Due(s) : Analyze(s, done)
  BY DEF Next, RunStep, Tick, Checkout, NoPrediction, SealFresh, SealStored, SealReuse, Seal, SaveFails,
     PublishSuperseded, PublishCommitment, SealCycle, Sweep, CycleRaises, Killed, Cancelled, Push, PushFails,
     vars, database
<1>5. QED
  BY <1>1, <1>2, <1>3, <1>4

(* Where a reveal comes from.                                              *)
LEMMA NewReveals ==
    ASSUME IInv, [Next]_vars, NEW r \in ledger'.reveals \cup durable'.reveals
    PROVE  \/ r \in ledger.reveals \cup durable.reveals
           \/ \E k \in Saved : row[k].settled /\ row[k].commitment = r.commitment
           \/ node = "supersede" /\ r = superseded_reveal_record(sealed.superseded)
<1>0. TypeOK /\ durable \in Ledgers /\ ledger \in Ledgers
  BY DEF IInv, TypeOK
<1> DEFINE Old == r \in ledger.reveals \cup durable.reveals
           Swept(q) == \E k \in Saved : row[k].settled /\ row[k].commitment = q.commitment
<1>1. CASE UNCHANGED <<durable, ledger>> \/ (UNCHANGED durable /\ ledger' = durable)
  BY <1>1
<1>2. CASE UNCHANGED durable /\ ledger' = Nothing
  BY <1>2, Empty
<1>3. CASE /\ UNCHANGED durable /\ PublishSuperseded
           /\ ledger' = AddReveals(ledger, {superseded_reveal_record(sealed.superseded)})
  <2>1. node = "supersede"
    BY <1>3 DEF PublishSuperseded
  <2>2. ledger'.reveals = ledger.reveals \cup {superseded_reveal_record(sealed.superseded)}
    BY <1>0, <1>3 DEF AddReveals, Ledgers
  <2>3. QED
    BY <1>3, <2>1, <2>2
<1>4. CASE UNCHANGED durable /\ ledger' = [ledger EXCEPT !.roots = @ \cup ({leaves} \ {{}})]
  <2>1. ledger'.reveals = ledger.reveals
    BY <1>4
  <2>2. QED
    BY <1>4, <2>1
<1>5. ASSUME UNCHANGED durable, NEW done \in SUBSET Sweepable,
             ledger' = AddReveals(ledger, {anchored_reveal_record(row[k].commitment) : k \in done})
      PROVE  Old \/ Swept(r)
  <2> DEFINE rs == {anchored_reveal_record(row[k].commitment) : k \in done}
  <2>1. rs \in SUBSET Reveals /\ \A q \in rs : Swept(q)
    BY <1>0, SweptRecords
  <2>2. ledger'.reveals = ledger.reveals \cup rs
    BY <1>0, <1>5, <2>1, Appended
  <2> HIDE DEF rs
  <2>3. QED
    BY <1>5, <2>1, <2>2
<1>6. CASE durable' = Merge(durable, ledger) /\ ledger' = Nothing
  <2>1. durable'.reveals = durable.reveals \cup ledger.reveals
    BY <1>0, <1>6, Merged
  <2>2. QED
    BY <1>6, <2>1, Empty
<1>7. QED
  BY <1>1, <1>2, <1>3, <1>4, <1>5, <1>6, Lines

(* The upsert leaves the lines of the ledgers alone.                       *)
LEMMA UpsertLines ==
    ASSUME Save \/ SaveReplyLost
    PROVE  /\ node = "save" /\ Upsert /\ UNCHANGED <<durable, ledger, salts>>
           /\ node' = "supersede" => sealed' = sealed /\ sealed.superseded # None
           /\ node' # "save"
BY DEF Save, SaveReplyLost, graph

LEMMA StepRevealed ==
    ASSUME IInv, [Next]_vars
    PROVE  RevealedIsSettled'
<1>0. TypeOK /\ RevealedIsSettled /\ RowsInv /\ RunInv /\ SaltsInv
  BY DEF IInv
<1>1. ASSUME NEW r \in ledger'.reveals \cup durable'.reveals, r.status # "superseded"
      PROVE  \E k \in Saved' : row'[k].settled /\ row'[k].commitment = r.commitment
  <2>1. PICK k \in Saved : row[k].settled /\ row[k].commitment = r.commitment
    BY <1>0, <1>1, NewReveals DEF RevealedIsSettled, superseded_reveal_record
  <2>2. k \in Saved' /\ row'[k].settled /\ row'[k].commitment = r.commitment
    BY <2>1, RowsStay
  <2>3. QED
    BY <2>2
<1>2. ASSUME NEW r \in ledger'.reveals \cup durable'.reveals, NEW k \in Saved',
             row'[k].commitment.salt = r.commitment.salt
      PROVE  row'[k].settled \/ r.commitment.salt \in crossed'
  <2>1. CASE ~ (Save \/ SaveReplyLost)
    <3>1. /\ k \in Saved /\ k \in SharedBy(r.commitment) /\ crossed' = crossed
          /\ row[k].settled => row'[k].settled
      BY <1>2, <2>1, RowsKept DEF SharedBy
    <3>2. CASE r \in ledger.reveals \cup durable.reveals
      BY <1>0, <3>1, <3>2 DEF RevealedIsSettled
    <3>3. ASSUME NEW j \in Saved, row[j].settled, row[j].commitment = r.commitment
          PROVE  row[k].settled \/ r.commitment.salt \in crossed
      BY <1>0, <3>1, <3>3 DEF SaltsInv, OnlyIn
    <3>4. CASE node = "supersede" /\ r = superseded_reveal_record(sealed.superseded)
      BY <1>0, <3>1, <3>4 DEF SaltsInv, superseded_reveal_record
    <3>5. QED
      BY <3>1, <3>2, <3>3, <3>4, NewReveals
  <2>2. CASE Save \/ SaveReplyLost
    <3> DEFINE n == <<symbol, now>>
    <3>1. /\ Saved' = Saved \cup {n} /\ \A j \in Saved \ {n} : row'[j] = row[j]
          /\ row'[n].commitment = sealed.commitment
          /\ crossed \subseteq crossed' /\ node = "save"
          /\ r \in ledger.reveals \cup durable.reveals
      BY <1>0, <1>2, <2>2, Upserted, UpsertLines
    <3> HIDE DEF n
    <3>2. CASE k = n
      BY <1>0, <1>2, <3>1, <3>2 DEF SaltsInv, OutBefore
    <3>3. CASE k # n
      BY <1>0, <1>2, <3>1, <3>3 DEF RevealedIsSettled, SharedBy
    <3>4. QED
      BY <3>2, <3>3
  <2>3. QED
    BY <2>1, <2>2
<1>3. QED
  BY <1>1, <1>2 DEF RevealedIsSettled, SharedBy

-----------------------------------------------------------------------------
(* Which rows share a salt.                                                *)
LEMMA SealedSalts ==
    ASSUME IInv, NEW p \in Payloads, SealFresh(p) \/ SealStored(p) \/ SealReuse(p)
    PROVE  SaltsInv'
<1>0. /\ TypeOK /\ RowsInv /\ RunInv /\ SaltsInv /\ RevealedIsSettled /\ node = "commit" /\ symbol \in Symbols
      /\ salts \in Nat /\ now \in Nat
      /\ \A k \in Saved : row[k] \in Rows /\ row[k].commitment \in Commitments /\ row[k].commitment.salt \in Nat
      /\ \A r \in ledger.reveals \cup durable.reveals : r.commitment.salt \in Nat
  <2>1. TypeOK /\ RowsInv /\ RunInv /\ SaltsInv /\ RevealedIsSettled /\ node = "commit" /\ symbol \in Symbols
    BY DEF IInv, SealFresh, SealStored, SealReuse, RunInv
  <2>2. salts \in Nat /\ now \in Nat
    BY <2>1 DEF TypeOK, Hours
  <2>3. \A k \in Saved : row[k] \in Rows
    BY <2>1 DEF TypeOK, Saved
  <2>4. \A k \in Saved : row[k].commitment \in Commitments /\ row[k].commitment.salt \in Nat
    BY <2>3 DEF Rows, Commitments
  <2>5. \A r \in ledger.reveals \cup durable.reveals : r.commitment.salt \in Nat
    BY <2>1 DEF TypeOK, Ledgers, Reveals, Commitments
  <2>6. QED
    BY <2>1, <2>2, <2>3, <2>4, <2>5
<1> DEFINE n == <<symbol, now>>
<1>1. PICK salt, old, harm :
          /\ Seal(p, salt, old, harm)
          /\ \/ salt = new_salt /\ (old = None \/ (Stored # None /\ old = Stored.commitment))
             \/ Stored # None /\ salt = Stored.commitment.salt /\ old = None
  BY DEF SealFresh, SealStored, SealReuse
<1>2. /\ UNCHANGED <<row, crossed, durable, ledger, symbol>> /\ node' = "save"
      /\ sealed'.commitment.salt = salt /\ sealed'.superseded = old /\ sealed'.hour = now
      /\ salts' = IF salt > salts THEN salt ELSE salts
  BY <1>1 DEF Seal
<1>3. Saved' = Saved /\ \A c : SharedBy(c)' = SharedBy(c)
  BY <1>2 DEF Saved, SharedBy
<1>4. Stored # None => n \in Saved /\ Stored = row[n] /\ ~ row[n].settled
  <2>1. SUFFICES ASSUME Stored # None PROVE n \in Saved /\ Stored = row[n] /\ ~ row[n].settled
    OBVIOUS
  <2>2. n \in Saved /\ Stored = row[n]
    BY <1>0, <2>1 DEF Stored, Saved, TypeOK
  <2>3. ~ (n[2] < now)
    BY <1>0
  <2>4. QED
    BY <1>0, <2>2, <2>3 DEF RowsInv
<1> HIDE DEF n
<1>5. salt \in Nat /\ salt <= salts' /\ salts <= salts' /\ salts' \in Nat
  BY <1>0, <1>1, <1>2, <1>4 DEF new_salt
<1>6. CASE salt = new_salt
  <2>1. /\ \A k \in Saved : row[k].commitment.salt # salt
        /\ \A r \in ledger.reveals \cup durable.reveals : r.commitment.salt # salt
    <3>1. /\ \A k \in Saved : row[k].commitment.salt <= salts
          /\ \A r \in ledger.reveals \cup durable.reveals : r.commitment.salt <= salts
      BY <1>0 DEF SaltsInv
    <3>2. QED
      BY <1>0, <1>6, <3>1 DEF new_salt
  <2>2. old # None => /\ old.salt # salt /\ old.salt <= salts /\ old.salt \in Nat
                      /\ SharedBy(old) \subseteq {n} \/ old.salt \in crossed
    <3>1. SUFFICES ASSUME old # None
                   PROVE  /\ old.salt # salt /\ old.salt <= salts /\ old.salt \in Nat
                          /\ SharedBy(old) \subseteq {n} \/ old.salt \in crossed
      OBVIOUS
    <3>2. Stored # None /\ old = Stored.commitment
      <4>1. CASE Stored # None /\ salt = Stored.commitment.salt /\ old = None
        BY <3>1, <4>1
      <4>2. QED
        BY <1>1, <3>1, <4>1
    <3>3. n \in Saved /\ old = row[n].commitment
      BY <1>4, <3>2
    <3>4. QED
      BY <1>0, <2>1, <3>3 DEF SaltsInv, OnlyIn
  <2>3. SharedBy(sealed'.commitment) = {}
    BY <1>2, <2>1 DEF SharedBy
  <2>4. /\ \A k \in Saved : row[k].commitment.salt <= salts' /\ OnlyIn(row[k].commitment, k)
        /\ \A r \in ledger.reveals \cup durable.reveals : r.commitment.salt <= salts'
    BY <1>0, <1>5 DEF SaltsInv
  <2>5. old # None => old.salt <= salts'
    BY <1>0, <1>5, <2>2
  <2>6. QED
    BY <1>2, <1>3, <1>5, <2>1, <2>2, <2>3, <2>4, <2>5 DEF SaltsInv, OnlyIn, OutBefore, n
<1>7. CASE Stored # None /\ salt = Stored.commitment.salt /\ old = None
  <2>1. n \in Saved /\ salt = row[n].commitment.salt /\ ~ row[n].settled
    BY <1>4, <1>7
  <2>2. /\ \A k \in Saved : row[k].commitment.salt <= salts' /\ OnlyIn(row[k].commitment, k)
        /\ \A r \in ledger.reveals \cup durable.reveals : r.commitment.salt <= salts'
    BY <1>0, <1>5 DEF SaltsInv
  <2>3. SharedBy(sealed'.commitment) = SharedBy(row[n].commitment)
    BY <1>2, <2>1 DEF SharedBy
  <2>4. OutBefore(sealed'.commitment) => salt \in crossed
    <3>1. SUFFICES ASSUME NEW r \in ledger.reveals \cup durable.reveals, r.commitment.salt = salt
                   PROVE  salt \in crossed
      BY <1>2 DEF OutBefore
    <3>2. n \in SharedBy(r.commitment)
      BY <2>1, <3>1 DEF SharedBy
    <3>3. QED
      BY <1>0, <2>1, <3>1, <3>2 DEF RevealedIsSettled
  <2>5. OutBefore(sealed.commitment)' <=> OutBefore(sealed'.commitment)
    BY <1>2 DEF OutBefore
  <2>6. QED
    BY <1>2, <1>3, <1>5, <1>7, <2>1, <2>2, <2>3, <2>4, <2>5 DEF SaltsInv, OnlyIn, OutBefore, n
<1>8. QED
  BY <1>1, <1>6, <1>7

LEMMA UpsertedSalts ==
    ASSUME IInv, Save \/ SaveReplyLost
    PROVE  SaltsInv'
<1> DEFINE n == <<symbol, now>>
           h == <<symbol, sealed.hour>>
<1>0. /\ TypeOK /\ SaltsInv /\ node = "save" /\ UNCHANGED <<durable, ledger, salts>>
      /\ Saved' = Saved \cup {n} /\ \A j \in Saved \ {n} : row'[j] = row[j]
      /\ row'[n].commitment = sealed.commitment
      /\ crossed \subseteq crossed'
      /\ \A j \in Saved : j = h /\ j # n => row[j].commitment.salt \in crossed'
      /\ node' # "save" /\ (node' = "supersede" => sealed' = sealed /\ sealed.superseded # None)
  BY Upserted, UpsertLines DEF IInv
<1>1. /\ sealed.commitment.salt <= salts /\ OnlyIn(sealed.commitment, h)
      /\ sealed.superseded # None => /\ sealed.superseded.salt # sealed.commitment.salt
                                     /\ OnlyIn(sealed.superseded, h) /\ sealed.superseded.salt <= salts
  BY <1>0 DEF SaltsInv
<1> HIDE DEF n, h
<1>2. \A j \in Saved : j # n /\ row[j].commitment.salt = sealed.commitment.salt => sealed.commitment.salt \in crossed'
  BY <1>0, <1>1 DEF OnlyIn, SharedBy
<1>3. ASSUME NEW k \in Saved'
      PROVE  row'[k].commitment.salt <= salts' /\ OnlyIn(row[k].commitment, k)'
  <2>1. CASE k = n
    <3>1. \A j \in SharedBy(row[k].commitment)' : j = n \/ sealed.commitment.salt \in crossed'
      BY <1>0, <1>2, <2>1 DEF SharedBy
    <3>2. QED
      BY <1>0, <1>1, <2>1, <3>1 DEF OnlyIn
  <2>2. CASE k # n
    <3>1. k \in Saved /\ row'[k] = row[k] /\ row[k].commitment.salt <= salts /\ OnlyIn(row[k].commitment, k)
      BY <1>0, <1>3, <2>2 DEF SaltsInv
    <3>2. \A j \in SharedBy(row[k].commitment)' : j = k \/ row[k].commitment.salt \in crossed'
      BY <1>0, <1>2, <2>2, <3>1 DEF SharedBy, OnlyIn
    <3>3. QED
      BY <1>0, <3>1, <3>2 DEF OnlyIn
  <2>3. QED
    BY <2>1, <2>2
<1>4. ASSUME node' = "supersede", NEW k \in SharedBy(sealed.superseded)'
      PROVE  sealed.superseded.salt \in crossed'
  <2>1. k \in Saved' /\ row'[k].commitment.salt = sealed.superseded.salt
    BY <1>0, <1>4 DEF SharedBy
  <2>2. k # n
    BY <1>0, <1>1, <1>4, <2>1
  <2>3. k \in SharedBy(sealed.superseded)
    BY <1>0, <2>1, <2>2 DEF SharedBy
  <2>4. k = h \/ sealed.superseded.salt \in crossed
    BY <1>0, <1>1, <1>4, <2>3 DEF OnlyIn
  <2>5. QED
    BY <1>0, <2>1, <2>2, <2>3, <2>4 DEF SharedBy
<1>5. \A r \in ledger'.reveals \cup durable'.reveals : r.commitment.salt <= salts'
  BY <1>0 DEF SaltsInv
<1>6. QED
  BY <1>0, <1>1, <1>3, <1>4, <1>5 DEF SaltsInv

(* What is in hand stays in hand unless it is sealed or saved.             *)
LEMMA HandKept ==
    ASSUME IInv, [Next]_vars, ~ (Save \/ SaveReplyLost),
           ~ \E p \in Payloads : SealFresh(p) \/ SealStored(p) \/ SealReuse(p)
    PROVE  /\ salts' = salts
           /\ node' = "save" => node = "save" /\ UNCHANGED <<sealed, symbol, durable, ledger>>
           /\ node' = "supersede" => node = "supersede" /\ sealed' = sealed
<1>1. salts' = salts
  BY DEF Next, RunStep, Tick, Checkout, Reconcile, Analyze, NoPrediction, SaveFails,
     PublishSuperseded, PublishCommitment, SealCycle, Sweep, CycleRaises, Killed, Cancelled, Push, PushFails,
     vars, database
<1>2. /\ node' = "save" => node = "save" /\ UNCHANGED <<sealed, symbol, durable, ledger>>
      /\ node' = "supersede" => node = "supersede" /\ sealed' = sealed
  BY DEF Next, RunStep, Tick, Checkout, Reconcile, Analyze, NoPrediction, SaveFails,
     PublishSuperseded, PublishCommitment, SealCycle, Sweep, CycleRaises, Killed, Cancelled, Push, PushFails,
     vars, database, graph
<1>3. QED
  BY <1>1, <1>2

LEMMA StepSalts ==
    ASSUME IInv, [Next]_vars
    PROVE  SaltsInv'
<1>1. CASE Save \/ SaveReplyLost
  BY <1>1, UpsertedSalts
<1>2. CASE \E p \in Payloads : SealFresh(p) \/ SealStored(p) \/ SealReuse(p)
  BY <1>2, SealedSalts
<1>3. CASE /\ ~ (Save \/ SaveReplyLost)
           /\ ~ \E p \in Payloads : SealFresh(p) \/ SealStored(p) \/ SealReuse(p)
  <2>0. TypeOK /\ SaltsInv
    BY DEF IInv
  <2>1. /\ Saved' = Saved /\ crossed' = crossed
        /\ \A k \in Saved : /\ row'[k].commitment = row[k].commitment
                            /\ row[k].settled => row'[k].settled
    BY <1>3, RowsKept
  <2>2. /\ salts' = salts
        /\ node' = "save" => node = "save" /\ UNCHANGED <<sealed, symbol, durable, ledger>>
        /\ node' = "supersede" => node = "supersede" /\ sealed' = sealed
    BY <1>3, HandKept
  <2>3. \A c : SharedBy(c)' = SharedBy(c)
    BY <2>1 DEF SharedBy
  <2>4. ASSUME NEW r \in ledger'.reveals \cup durable'.reveals PROVE r.commitment.salt <= salts
    BY <2>0, <2>4, NewReveals DEF SaltsInv, superseded_reveal_record, IInv, RunInv
  <2>5. \A k \in Saved : row[k].commitment.salt <= salts /\ OnlyIn(row[k].commitment, k)
    BY <2>0 DEF SaltsInv
  <2>6. \A k \in Saved' : row'[k].commitment.salt <= salts' /\ OnlyIn(row[k].commitment, k)'
    BY <2>1, <2>2, <2>3, <2>5 DEF OnlyIn
  <2>7. ASSUME node' = "save"
        PROVE  /\ sealed'.commitment.salt <= salts'
               /\ OnlyIn(sealed.commitment, <<symbol, sealed.hour>>)'
               /\ OutBefore(sealed.commitment)' => sealed'.commitment.salt \in crossed'
               /\ sealed'.superseded # None =>
                      /\ sealed'.superseded.salt # sealed'.commitment.salt
                      /\ sealed'.superseded.salt <= salts'
                      /\ OnlyIn(sealed.superseded, <<symbol, sealed.hour>>)'
    BY <2>0, <2>1, <2>2, <2>3, <2>7 DEF SaltsInv, OnlyIn, OutBefore
  <2>8. ASSUME node' = "supersede"
        PROVE  /\ sealed'.superseded # None => sealed'.superseded.salt <= salts'
               /\ \A k \in SharedBy(sealed.superseded)' :
                     row'[k].settled \/ sealed'.superseded.salt \in crossed'
    <3>1. /\ sealed.superseded # None => sealed.superseded.salt <= salts
          /\ \A k \in SharedBy(sealed.superseded) : row[k].settled \/ sealed.superseded.salt \in crossed
      BY <2>0, <2>2, <2>8 DEF SaltsInv
    <3>2. SharedBy(sealed.superseded)' = SharedBy(sealed.superseded) /\ SharedBy(sealed.superseded) \subseteq Saved
      BY <2>1, <2>2, <2>8 DEF SharedBy
    <3>3. QED
      BY <2>1, <2>2, <2>8, <3>1, <3>2
  <2>9. QED
    BY <2>2, <2>4, <2>6, <2>7, <2>8 DEF SaltsInv
<1>4. QED
  BY <1>1, <1>2, <1>3

-----------------------------------------------------------------------------
(* Salts.  What a step publishes was about to be published, or is the      *)
(* commitment of the row it saves.                                         *)
LEMMA NewlyPublished ==
    ASSUME IInv, [Next]_vars, NEW c \in AboutToBePublished'
    PROVE  c \in AboutToBePublished \/ (Save /\ c = sealed.commitment)
<1>0. TypeOK /\ durable \in Ledgers /\ ledger \in Ledgers /\ leaves \subseteq Commitments
  BY DEF IInv, TypeOK
<1>1. published(durable') \subseteq published(durable) \cup published(ledger)
  <2>1. CASE durable' = durable
    BY <2>1
  <2>2. CASE durable' = Merge(durable, ledger)
    <3>1. durable'.roots = durable.roots \cup ledger.roots
      BY <1>0, <2>2, Merged
    <3>2. QED
      BY <3>1 DEF published
  <2>3. QED
    BY <2>1, <2>2, Lines
<1>2. published(ledger') \subseteq published(durable) \cup published(ledger) \cup leaves
  <2>1. ledger'.roots \subseteq durable.roots \cup ledger.roots \cup {leaves}
    <3>1. ledger.roots \in SUBSET SUBSET Commitments
      BY <1>0 DEF Ledgers
    <3>2. \/ ledger' \in {ledger, durable, Nothing}
          \/ \E rs : ledger' = AddReveals(ledger, rs)
          \/ ledger' = [ledger EXCEPT !.roots = @ \cup ({leaves} \ {{}})]
      BY Lines
    <3>3. \A rs : AddReveals(ledger, rs).roots = ledger.roots
      BY <1>0 DEF AddReveals, Ledgers
    <3>4. [ledger EXCEPT !.roots = @ \cup ({leaves} \ {{}})].roots = ledger.roots \cup ({leaves} \ {{}})
      BY <1>0 DEF Ledgers
    <3>5. QED
      BY <3>2, <3>3, <3>4, Empty
  <2>2. QED
    BY <2>1 DEF published
<1>3. leaves' \subseteq leaves \cup (IF node = "leaf" THEN {sealed.commitment} ELSE {})
  BY DEF Next, RunStep, Tick, Checkout, Reconcile, Analyze, NoPrediction, SealFresh, SealStored, SealReuse, Seal,
     Save, SaveFails, SaveReplyLost, PublishSuperseded, PublishCommitment, SealCycle, Sweep, CycleRaises, Killed, Cancelled,
     Reset, Push, PushFails, vars
<1>4. node' \in {"supersede", "leaf"} => /\ sealed' = sealed
                                         /\ Save \/ node \in {"supersede", "leaf"}
  BY DEF Next, RunStep, Tick, Checkout, Reconcile, Analyze, NoPrediction, SealFresh, SealStored, SealReuse, Seal,
     Save, SaveFails, SaveReplyLost, PublishSuperseded, PublishCommitment, SealCycle, Sweep, CycleRaises, Killed, Cancelled,
     Reset, Push, PushFails, vars, graph
<1>5. node = "leaf" => sealed.commitment \in AboutToBePublished
  BY <1>0 DEF TypeOK, Seals, AboutToBePublished
<1>6. CASE c \in published(durable') \cup published(ledger')
  BY <1>1, <1>2, <1>6 DEF AboutToBePublished
<1>7. CASE c \in leaves'
  BY <1>3, <1>5, <1>7 DEF AboutToBePublished
<1>8. CASE c \in Commitments /\ node' \in {"supersede", "leaf"} /\ c = sealed'.commitment
  BY <1>4, <1>8 DEF AboutToBePublished
<1>9. QED
  BY <1>6, <1>7, <1>8 DEF AboutToBePublished, published

LEMMA HarmStays ==
    ASSUME IInv, [Next]_vars, ~ harmed'
    PROVE  /\ ~ harmed
           /\ Cancelled \/ PushFails => ~ RevealStaged(ledger)
           /\ node = "supersede" => \/ UNCHANGED <<node, sealed>>
                                   \/ /\ PublishSuperseded
                                      /\ ledger' = AddReveals(ledger, {superseded_reveal_record(sealed.superseded)})
<1>1. ~ harmed
  BY DEF IInv, TypeOK, Next, RunStep, Tick, Checkout, Reconcile, Analyze, NoPrediction, SealFresh, SealStored,
     SealReuse, Seal, Save, SaveFails, SaveReplyLost, PublishSuperseded, PublishCommitment, SealCycle, Sweep, CycleRaises,
     Killed, Cancelled, Push, PushFails, vars
<1>2. Cancelled \/ PushFails => ~ RevealStaged(ledger)
  BY DEF Cancelled, PushFails
<1>3. ASSUME node = "supersede"
      PROVE  \/ UNCHANGED <<node, sealed>>
             \/ /\ PublishSuperseded
                /\ ledger' = AddReveals(ledger, {superseded_reveal_record(sealed.superseded)})
  BY <1>3 DEF Next, RunStep, Tick, Checkout, Reconcile, Analyze, NoPrediction, SealFresh, SealStored,
     SealReuse, Save, SaveFails, SaveReplyLost, PublishSuperseded, PublishCommitment, SealCycle, Sweep, CycleRaises, Killed,
     Cancelled, RevealInHand, Push, PushFails, vars, graph
<1>4. QED
  BY <1>1, <1>2, <1>3

(* Without a fault, what can be opened stays open.                         *)
LEMMA StaysOpen ==
    ASSUME IInv, [Next]_vars, ~ harmed', NEW c, CanBeOpened(c)
    PROVE  CanBeOpened(c)'
<1>0. /\ TypeOK /\ RunInv /\ RevealedIsSettled /\ durable \in Ledgers /\ ledger \in Ledgers
      /\ node = "idle" => ledger = Nothing
  BY DEF IInv, TypeOK
<1>1. ASSUME NEW k \in Saved, row[k].commitment = c PROVE CanBeOpened(c)'
  <2>1. CASE (Save \/ SaveReplyLost) /\ k = <<symbol, now>>
    <3>1. /\ node = "save" /\ sealed \in Seals
          /\ Save => /\ sealed' = sealed
                     /\ node' = IF sealed.superseded = None THEN "leaf" ELSE "supersede"
      BY <1>0, <2>1 DEF Save, SaveReplyLost, graph, TypeOK
    <3>2. Stored = row[k] /\ Stored # None
      BY <1>1, <2>1 DEF Stored, Saved
    <3>3. c \in {sealed.commitment, sealed.superseded} /\ (SaveReplyLost => c = sealed.commitment)
      BY <1>1, <3>1, <3>2, HarmStays DEF IInv, OpenInv, SaveReplyLost
    <3>4. k \in Saved' /\ row'[k].commitment = sealed.commitment
      <4>1. /\ Saved' = Saved \cup {<<symbol, now>>}
            /\ row'[<<symbol, now>>].commitment = sealed.commitment
        BY <1>0, <2>1, Upserted DEF IInv, Save, SaveReplyLost
      <4>2. QED
        BY <2>1, <4>1
    <3>5. c # None
      BY <1>0, <1>1, NoneAssumption DEF TypeOK, Saved, Rows
    <3>6. QED
      BY <2>1, <3>1, <3>3, <3>4, <3>5 DEF CanBeOpened
  <2>2. CASE ~ ((Save \/ SaveReplyLost) /\ k = <<symbol, now>>)
    <3>1. k \in Saved' /\ row'[k].commitment = c
      BY <1>1, <2>2, RowsStay
    <3>2. QED
      BY <3>1 DEF CanBeOpened
  <2>3. QED
    BY <2>1, <2>2
<1>2. CASE c \in revealed_commitments(durable)
  BY <1>2, BranchGrows DEF CanBeOpened
<1>3. ASSUME NEW r \in ledger.reveals, r.commitment = c PROVE CanBeOpened(c)'
  <2>1. CASE ledger' = Nothing /\ (Cancelled \/ PushFails)
    <3>1. r \in durable.reveals \/ r.status # "superseded"
      BY <2>1, HarmStays DEF RevealStaged
    <3>2. CASE r \in durable.reveals
      BY <1>2, <1>3, <3>2 DEF revealed_commitments
    <3>3. CASE r.status # "superseded"
      <4>1. PICK k \in Saved : row[k].commitment = c
        BY <1>0, <1>3, <3>3 DEF RevealedIsSettled
      <4>2. QED
        BY <1>1, <4>1
    <3>4. QED
      BY <3>1, <3>2, <3>3
  <2>2. CASE node = "idle"
    BY <1>0, <1>3, <2>2, Empty
  <2>3. CASE durable' = Merge(durable, ledger)
    <3>1. r \in durable'.reveals
      BY <1>0, <1>3, <2>3, Merged
    <3>2. QED
      BY <1>3, <3>1 DEF CanBeOpened, revealed_commitments
  <2>4. CASE \/ ledger' = ledger \/ \E rs : ledger' = AddReveals(ledger, rs)
             \/ ledger' = [ledger EXCEPT !.roots = @ \cup ({leaves} \ {{}})]
    <3>1. r \in ledger'.reveals
      BY <1>0, <1>3, <2>4 DEF AddReveals, Ledgers
    <3>2. QED
      BY <1>3, <3>1 DEF CanBeOpened, revealed_commitments
  <2>5. QED
    BY <2>1, <2>2, <2>3, <2>4, Lines
<1>4. CASE node = "supersede" /\ sealed.superseded = c
  <2>1. CASE UNCHANGED <<node, sealed>>
    BY <1>4, <2>1 DEF CanBeOpened
  <2>2. CASE ledger' = AddReveals(ledger, {superseded_reveal_record(sealed.superseded)})
    <3>1. superseded_reveal_record(c) \in ledger'.reveals
      BY <1>0, <1>4, <2>2 DEF AddReveals, Ledgers
    <3>2. c \in revealed_commitments(ledger')
      BY <3>1 DEF revealed_commitments, superseded_reveal_record
    <3>3. QED
      BY <3>2 DEF CanBeOpened
  <2>3. QED
    BY <1>4, <2>1, <2>2, HarmStays
<1>5. QED
  BY <1>1, <1>2, <1>3, <1>4 DEF CanBeOpened, revealed_commitments

(* The upsert meets the row that was read when its commitment was sealed.  *)
LEMMA SealMeetsItsRow ==
    ASSUME IInv, [Next]_vars, ~ harmed', node' = "save", Stored' # None
    PROVE  Stored'.commitment \in {sealed'.commitment, sealed'.superseded}
<1>0. /\ TypeOK /\ RowsInv /\ RunInv /\ now \in Nat
      /\ node = "save" /\ Stored # None => Stored.commitment \in {sealed.commitment, sealed.superseded}
  BY HarmStays DEF IInv, TypeOK, Hours, OpenInv
<1>1. CASE UNCHANGED vars
  BY <1>0, <1>1 DEF vars, database, graph, Stored
<1>2. CASE Tick
  <2>1. row' = row /\ symbol' = symbol /\ now' = now + 1 /\ node = "save" /\ now' \in Hours /\ symbol \in Symbols
    BY <1>0, <1>2, AgeAssumption DEF Tick, database, graph, RunInv, Hours
  <2>2. <<symbol, now + 1>> \in Saved
    BY <2>1 DEF Stored, Saved
  <2>3. now + 1 <= now
    BY <2>2, <1>0 DEF RowsInv
  <2>4. QED
    BY <1>0, <2>3
<1>3. ASSUME NEW p \in Payloads, SealFresh(p) \/ SealStored(p) \/ SealReuse(p)
      PROVE  Stored'.commitment \in {sealed'.commitment, sealed'.superseded}
  <2>1. Stored' = Stored /\ node = "commit" /\ symbol \in Symbols
    BY <1>0, <1>3 DEF SealFresh, SealStored, SealReuse, Seal, Stored, RunInv
  <2>2. Stored.commitment \in Commitments
    BY <1>0, <2>1 DEF TypeOK, Stored, Rows
  <2>3. Stored.commitment = [payload |-> Stored.commitment.payload, salt |-> Stored.commitment.salt]
    BY <2>2 DEF Commitments
  <2>4. CASE SealFresh(p)
    BY <2>1, <2>4 DEF SealFresh, Seal
  <2>5. CASE SealReuse(p)
    <3>1. Stored.commitment.payload = p
      BY <2>5 DEF SealReuse, Seal
    <3>2. QED
      BY <2>1, <2>3, <2>5, <3>1 DEF SealReuse, Seal
  <2>6. CASE SealStored(p)
    <3>1. CASE Stored.commitment.payload = p
      BY <2>1, <2>3, <2>6, <3>1 DEF SealStored, Seal
    <3>2. CASE Stored.commitment.payload # p
      BY <2>1, <2>6, <3>2 DEF SealStored, Seal
    <3>3. QED
      BY <3>1, <3>2
  <2>7. QED
    BY <1>3, <2>4, <2>5, <2>6
<1>4. \/ UNCHANGED vars \/ Tick
      \/ \E p \in Payloads : SealFresh(p) \/ SealStored(p) \/ SealReuse(p)
  BY DEF Next, RunStep, Checkout, Reconcile, Analyze, NoPrediction, Save, SaveFails, SaveReplyLost, PublishSuperseded,
     PublishCommitment, SealCycle, Sweep, CycleRaises, Killed, Cancelled, Push, PushFails
<1>5. QED
  BY <1>1, <1>2, <1>3, <1>4

LEMMA StepOpen ==
    ASSUME IInv, [Next]_vars
    PROVE  OpenInv'
<1> SUFFICES ASSUME ~ harmed'
             PROVE  /\ \A c \in AboutToBePublished' : CanBeOpened(c)'
                    /\ node' = "save" /\ Stored' # None =>
                           Stored'.commitment \in {sealed'.commitment, sealed'.superseded}
  BY DEF OpenInv
<1>1. ASSUME NEW c \in AboutToBePublished' PROVE CanBeOpened(c)'
  <2>1. CASE c \in AboutToBePublished
    BY <2>1, StaysOpen, HarmStays DEF IInv, OpenInv
  <2>2. CASE Save /\ c = sealed.commitment
    <3>1. <<symbol, now>> \in Saved' /\ row'[<<symbol, now>>].commitment = c
      BY <2>2, Upserted DEF IInv, Save
    <3>2. QED
      BY <3>1 DEF CanBeOpened
  <2>3. QED
    BY <2>1, <2>2, NewlyPublished
<1>2. QED
  BY <1>1, SealMeetsItsRow

-----------------------------------------------------------------------------
LEMMA InitIInv ==
    Init => IInv
<1>1. SUFFICES ASSUME Init PROVE IInv
  OBVIOUS
<1>2. /\ durable = Nothing /\ ledger = Nothing /\ Saved = {} /\ node = "idle" /\ leaves = {}
      /\ published(durable) = {} /\ revealed_commitments(durable) = {}
  BY <1>1, Empty DEF Init, Saved, published, revealed_commitments
<1>3. TypeOK
  <2>1. now \in Hours /\ salts \in 0 .. MaxSalt
    BY <1>1, AgeAssumption DEF Init, Hours
  <2>2. row \in [Symbols \X Hours -> Rows \cup {None}]
    BY <1>1 DEF Init
  <2>3. durable \in Ledgers /\ ledger \in Ledgers
    BY <1>2, Empty
  <2>4. /\ node \in Nodes /\ todo \subseteq Symbols /\ symbol \in Symbols \cup {None}
        /\ sealed \in Seals \cup {None} /\ leaves \subseteq Commitments
        /\ harmed \in BOOLEAN /\ calm \in BOOLEAN /\ crossed \subseteq 1 .. MaxSalt
        /\ (node \in {"save", "supersede", "leaf"} <=> sealed # None)
        /\ (node = "idle" => ledger = Nothing /\ leaves = {})
    BY <1>1 DEF Init, Nodes
  <2>5. QED
    BY <2>1, <2>2, <2>3, <2>4 DEF TypeOK
<1>4. RowsInv /\ RunInv /\ StampedIsDurable
  BY <1>2 DEF RowsInv, RunInv, StampedIsDurable
<1>5. AnchorInv /\ RevealedIsSettled
  BY <1>2, Empty DEF AnchorInv, Anchored, RevealedIsSettled
<1>6. OpenInv
  BY <1>2 DEF OpenInv, AboutToBePublished
<1>7. SaltsInv
  BY <1>2, Empty DEF SaltsInv
<1>8. QED
  BY <1>3, <1>4, <1>5, <1>6, <1>7 DEF IInv

LEMMA NextIInv ==
    IInv /\ [Next]_vars => IInv'
BY StepTypes, StepRows, StepRun, StepAnchor, StepStamped, StepRevealed, StepSalts, StepOpen DEF IInv

(* The invariant of the track record, whatever runs, pushes and reads fail.*)
THEOREM RecordInvariant ==
    Spec => []IInv
<1>1. QED
  BY InitIInv, NextIInv, PTL DEF Spec

(* A run holds lines, leaves and a sealed commitment only while under way. *)
THEOREM TypeCorrect ==
    Spec => []TypeOK
<1>1. IInv => TypeOK
  BY DEF IInv
<1>2. QED
  BY <1>1, RecordInvariant, PTL

(* WIA-15: a stamped row has its salt in the ledger that survived a push.  *)
THEOREM StampsAreDurable ==
    Spec => []StampedIsDurable
<1>1. IInv => StampedIsDurable
  BY DEF IInv
<1>2. QED
  BY <1>1, RecordInvariant, PTL

(* R-16: no salt comes out while a prediction that still stands holds it   *)
(* unsettled, but for one whose upsert fell into the hour after its seal.  *)
THEOREM SecretsAreKept ==
    Spec => []RevealedIsSettled
<1>1. IInv => RevealedIsSettled
  BY DEF IInv
<1>2. QED
  BY <1>1, RecordInvariant, PTL

(* WIA-60: the reveal of a settled prediction verifies, or says that its   *)
(* cycle published no root.                                                *)
THEOREM RevealsVerify ==
    Spec => []SettledRevealsVerify
<1>1. ASSUME IInv, NEW r \in durable.reveals, r.status # "superseded"
      PROVE  Check(durable, r) \in {"verified", "incomplete"}
  <2>1. r.status \in Statuses
    BY <1>1 DEF IInv, TypeOK, Ledgers, Reveals
  <2>2. CASE r.status = "settled"
    <3>1. r.root \in durable.roots /\ r.commitment \in r.root
      BY <1>1, <2>2 DEF IInv, AnchorInv, Anchored
    <3>2. r.commitment \in published(durable)
      BY <3>1 DEF published
    <3>3. QED
      BY <3>1, <3>2 DEF Check
  <2>3. CASE r.status = "incomplete_cycle"
    <3>1. r.root = None
      BY <1>1, <2>3 DEF IInv, AnchorInv, Anchored
    <3>2. QED
      BY <2>3, <3>1 DEF Check
  <2>4. QED
    BY <1>1, <2>1, <2>2, <2>3 DEF Statuses
<1>2. IInv => SettledRevealsVerify
  BY <1>1 DEF SettledRevealsVerify
<1>3. QED
  BY <1>2, RecordInvariant, PTL

(* WIA-01: a published hash can be opened, but for the faults that took    *)
(* the only copy of its salt.                                              *)
THEOREM SaltsAreKept ==
    Spec => []HiddenOnlyByFault
<1>1. ASSUME IInv PROVE HiddenOnlyByFault
  <2>1. node = "supersede" => sealed # None
    BY <1>1 DEF IInv, TypeOK
  <2>2. QED
    BY <1>1, <2>1 DEF IInv, OpenInv, AboutToBePublished, CanBeOpened, HiddenOnlyByFault
<1>2. QED
  BY <1>1, RecordInvariant, PTL
=============================================================================
