------------------------- MODULE PaperLedgerProofs -------------------------
(***************************************************************************)
(* The paper ledger for any number of threads, predictions and attempts:   *)
(* its inductive invariant, the properties it implies and the refinement   *)
(* of the append-only log.                                                 *)
(***************************************************************************)
EXTENDS PaperLedger, FiniteSetTheorems, SequenceTheorems, TLAPS

USE DEF Entry, GENESIS_HASH, row_hash

(* The head of a set of rows with distinct seq is the hash of any last row. *)
LEMMA HeadOfLast ==
    ASSUME NEW S, NEW r, IsLast(r, S),
           \A x \in S : x.seq \in Nat,
           \A x, y \in S : x.seq = y.seq => x = y
    PROVE  HeadOf(S) = r.hash
<1>1. \A x : IsLast(x, S) => x = r
  BY DEF IsLast
<1>2. IsLast(CHOOSE x \in S : IsLast(x, S), S)
  BY DEF IsLast
<1>3. S # {}
  BY DEF IsLast
<1>4. QED
  BY <1>1, <1>2, <1>3 DEF HeadOf

(* A row added after every other is the new last row. *)
LEMMA HeadOfAdded ==
    ASSUME NEW S, NEW r,
           r.seq \in Nat,
           \A x \in S : x.seq \in Nat /\ x.seq < r.seq,
           \A x, y \in S : x.seq = y.seq => x = y
    PROVE  /\ IsLast(r, S \cup {r})
           /\ HeadOf(S \cup {r}) = r.hash
<1>1. IsLast(r, S \cup {r})
  BY DEF IsLast
<1>2. \A x, y \in S \cup {r} : x.seq = y.seq => x = y
  OBVIOUS
<1>3. QED
  BY <1>1, <1>2, HeadOfLast

(* The head is the hash of the last row, and a sequence of entries. *)
LEMMA HeadFacts ==
    ASSUME TypeOK, LinearChain, TableInv
    PROVE  /\ HeadHash \in Seq(Entry)
           /\ Len(HeadHash) = Cardinality(rows)
           /\ rows = {} => HeadHash = GENESIS_HASH
           /\ \A r \in rows : IsLast(r, rows) => HeadHash = r.hash
           /\ \A r \in rows : r.hash = HeadHash => IsLast(r, rows)
           /\ HeadHash \notin Prevs
<1>1. \A r \in rows : /\ r.seq \in Nat
                      /\ r.pid \in Predictions /\ r.side \in Sides
                      /\ r.prev \in Seq(Entry) /\ r.hash \in Seq(Entry)
  BY DEF TypeOK, Row
<1>2. \A r \in rows : IsLast(r, rows) => HeadHash = r.hash
  BY <1>1, HeadOfLast DEF TableInv, HeadHash
<1>3. rows = {} => HeadHash = GENESIS_HASH
  BY DEF HeadHash, HeadOf
<1>4. HeadHash \in Seq(Entry)
  <2>1. CASE rows = {}
    BY <2>1, <1>3
  <2>2. CASE rows # {}
    <3>1. PICK r \in rows : IsLast(r, rows)
      BY <2>2 DEF TableInv
    <3>2. QED
      BY <3>1, <1>1, <1>2
  <2>3. QED
    BY <2>1, <2>2
<1>5. \A r \in rows : r.hash = HeadHash => IsLast(r, rows)
  BY <1>4 DEF TableInv
<1>6. HeadHash \notin Prevs
  <2> SUFFICES ASSUME NEW q \in rows, q.prev = HeadHash
               PROVE  FALSE
    BY DEF Prevs
  <2>1. q.hash = Append(HeadHash, [pid |-> q.pid, side |-> q.side])
    BY DEF LinearChain
  <2>2. Len(q.hash) = Len(HeadHash) + 1
    BY <2>1, <1>1, <1>4, AppendProperties
  <2>3. IsLast(q, rows) \/ Len(q.hash) < Len(HeadHash)
    BY DEF TableInv
  <2>4. QED
    BY <2>2, <2>3, <1>2, <1>4, LenProperties
<1>7. QED
  BY <1>2, <1>3, <1>4, <1>5, <1>6 DEF TableInv

LEMMA InitIInv == Init => IInv
<1> SUFFICES ASSUME Init PROVE IInv
  OBVIOUS
<1>1. HeadHash = GENESIS_HASH
  BY DEF Init, HeadHash, HeadOf
<1>2. Cardinality(rows) = 0 /\ IsFiniteSet(rows)
  BY FS_EmptySet DEF Init
<1>3. TypeOK
  BY AttemptsAssumption DEF Init, TypeOK, Call, Idle, CallAt, Working, Ended
<1>4. LinearChain /\ GiveUpMeansOvertaken /\ HeadsAnchorHistory
  BY DEF Init, LinearChain, GiveUpMeansOvertaken, HeadsAnchorHistory, Idle, CallAt
<1>5. TableInv
  BY <1>1, <1>2 DEF Init, TableInv, Pids
<1>6. ThreadInv /\ PublicationInv
  BY DEF Init, ThreadInv, CallOK, PublicationInv, Idle, CallAt, Working
<1>7. QED
  BY <1>3, <1>4, <1>5, <1>6 DEF IInv

(* The lines stay in order while the table only grows: rows keep their seq *)
(* and their hash, and what was a prefix of the chain remains one.         *)
LEMMA GrownTable ==
    ASSUME IInv, UNCHANGED Publication,
           \A q \in rows : \E q2 \in rows' : q2.seq = q.seq /\ q2.hash = q.hash,
           \A s \in Seq(Entry) : IsPrefixOf(s, HeadHash) => IsPrefixOf(s, HeadHash')
    PROVE  HeadsAnchorHistory' /\ PublicationInv'
<1>1. day' = day /\ staged' = staged /\ kept' = kept /\ heads' = heads
  BY DEF Publication
<1>2. staged \cup kept \subseteq Line /\ \A i \in DOMAIN heads : heads[i] \in Line
  BY ElementOfSeq, LenProperties DEF IInv, TypeOK
<1>3. ASSUME NEW line \in Line, NamesRow(line), IsPrefixOf(line.head, HeadHash)
      PROVE  NamesRow(line)' /\ IsPrefixOf(line.head, HeadHash')
  BY <1>3 DEF NamesRow, Line
<1>4. HeadsAnchorHistory'
  <2> SUFFICES ASSUME NEW j \in DOMAIN heads
               PROVE  /\ NamesRow(heads[j])' /\ IsPrefixOf(heads[j].head, HeadHash')
                      /\ \A i \in DOMAIN heads :
                            /\ heads[i].day < heads[j].day =>
                                  IsPrefixOf(heads[i].head, heads[j].head)
                            /\ i < j => OneLineADay(i, j)
    BY <1>1 DEF HeadsAnchorHistory, OneLineADay, NamesRow
  <2>1. NamesRow(heads[j]) /\ IsPrefixOf(heads[j].head, HeadHash)
    BY DEF IInv, HeadsAnchorHistory
  <2>2. NamesRow(heads[j])' /\ IsPrefixOf(heads[j].head, HeadHash')
    BY <1>1, <1>2, <1>3, <2>1 DEF NamesRow
  <2>3. QED
    BY <2>2 DEF IInv, HeadsAnchorHistory
<1>5. PublicationInv'
  <2>1. \A line \in staged \cup kept : NamesRow(line)' /\ IsPrefixOf(line.head, HeadHash')
    BY <1>2, <1>3 DEF IInv, PublicationInv
  <2>2. QED
    BY <1>1, <2>1 DEF IInv, PublicationInv, NamesRow
<1>6. QED
  BY <1>4, <1>5

LEMMA SameTable ==
    ASSUME IInv, rows' = rows, HeadHash' = HeadHash, UNCHANGED Publication
    PROVE  HeadsAnchorHistory' /\ PublicationInv'
  BY GrownTable

(* A step that only moves thread t keeps the invariant when the call it    *)
(* leaves behind is itself in order.                                       *)
LEMMA ThreadStep ==
    ASSUME IInv, NEW t \in Threads,
           thread' \in [Threads -> Call],
           \A u \in Threads \ {t} : thread'[u] = thread[u],
           rows' = rows, nextSeq' \in Nat, nextSeq <= nextSeq', UNCHANGED Publication,
           CallOK(thread[t])',
           thread'[t].pc = "gave_up" => Cardinality(rows) >= thread'[t].base + Attempts
    PROVE  IInv'
<1>1. HeadHash' = HeadHash /\ Prevs' = Prevs /\ Pids' = Pids
  BY DEF HeadHash, Prevs, Pids
<1>2. thread \in [Threads -> Call]
  BY DEF IInv, TypeOK
<1>3. TypeOK'
  BY <1>2 DEF IInv, TypeOK, Publication
<1>4. LinearChain'
  BY DEF IInv, LinearChain, Before
<1>5. GiveUpMeansOvertaken'
  BY <1>2 DEF IInv, GiveUpMeansOvertaken
<1>6. HeadsAnchorHistory' /\ PublicationInv'
  BY <1>1, SameTable
<1>7. TableInv'
  BY <1>1 DEF IInv, TableInv, TypeOK, Row
<1>8. ThreadInv'
  <2> SUFFICES ASSUME NEW u \in Threads, u # t PROVE CallOK(thread[u])'
    BY <1>2 DEF ThreadInv
  <2>1. thread'[u] = thread[u] /\ thread[u] \in Call
    BY <1>2
  <2>2. CallOK(thread[u])
    BY DEF IInv, ThreadInv
  <2>3. QED
    BY <2>1, <2>2, <1>1 DEF CallOK, Call, IInv, TypeOK
<1>9. QED
  BY <1>3, <1>4, <1>5, <1>6, <1>7, <1>8 DEF IInv

LEMMA FailStep ==
    ASSUME IInv, NEW t \in Threads, Fail(t) \/ Duplicate(t) PROVE IInv'
<1>1. thread' = [thread EXCEPT ![t] = Idle] /\ thread \in [Threads -> Call]
  BY DEF Fail, Duplicate, IInv, TypeOK
<1>2. rows' = rows /\ nextSeq' = nextSeq /\ nextSeq \in Nat /\ UNCHANGED Publication
  BY DEF Fail, Duplicate, Table, Publication, IInv, TypeOK
<1>3. Idle \in Call /\ Idle.pc = "idle"
  BY AttemptsAssumption DEF Idle, CallAt, Call, Ended
<1>4. thread' \in [Threads -> Call] /\ thread'[t].pc = "idle"
  BY <1>1, <1>3
<1>5. CallOK(thread[t])'
  BY <1>4 DEF CallOK, Working
<1>6. QED
  BY <1>1, <1>2, <1>4, <1>5, ThreadStep

LEMMA StartStep ==
    ASSUME IInv, NEW t \in Threads, Start(t) PROVE IInv'
<1>1. PICK e \in Entry :
          thread' = [thread EXCEPT ![t] = [pc |-> "read", entry |-> e, attempt |-> 1,
                                           head |-> GENESIS_HASH, seq |-> 0, base |-> 0]]
  BY DEF Start, CallAt
<1>2. thread \in [Threads -> Call]
  BY DEF IInv, TypeOK
<1>3. rows' = rows /\ nextSeq' = nextSeq /\ nextSeq \in Nat /\ UNCHANGED Publication
  BY DEF Start, Table, Publication, IInv, TypeOK
<1>4. thread' \in [Threads -> Call]
  <2>1. [pc |-> "read", entry |-> e, attempt |-> 1,
         head |-> GENESIS_HASH, seq |-> 0, base |-> 0] \in Call
    BY AttemptsAssumption DEF Call, Working
  <2>2. QED
    BY <1>1, <1>2, <2>1
<1>5. Cardinality(rows)' \in Nat
  BY <1>3, FS_CardinalityType DEF IInv, TableInv
<1>6. /\ thread'[t].pc = "read" /\ thread'[t].entry = e
      /\ thread'[t].base = 0 /\ thread'[t].attempt = 1
  BY <1>1, <1>2
<1>7. CallOK(thread[t])'
  BY <1>5, <1>6 DEF CallOK, Working
<1>8. QED
  BY <1>1, <1>2, <1>3, <1>4, <1>6, <1>7, ThreadStep

LEMMA ReadHeadStep ==
    ASSUME IInv, NEW t \in Threads, ReadHead(t) PROVE IInv'
<1> DEFINE base == IF thread[t].attempt = 1 THEN Cardinality(rows) ELSE thread[t].base
<1>1. /\ thread \in [Threads -> Call]
      /\ thread[t] \in Call /\ CallOK(thread[t]) /\ thread[t].pc = "read"
  BY DEF IInv, TypeOK, ThreadInv, ReadHead
<1>2. Cardinality(rows) \in Nat
  BY FS_CardinalityType DEF IInv, TableInv
<1>3. /\ HeadHash \in Seq(Entry) /\ Len(HeadHash) = Cardinality(rows)
      /\ HeadHash = GENESIS_HASH \/ \E r \in rows : r.hash = HeadHash
  BY HeadFacts DEF IInv, TableInv
<1>4. base \in Nat /\ base + thread[t].attempt <= Len(HeadHash) + 1
  BY <1>1, <1>2, <1>3 DEF Call, CallOK
<1>5. thread' = [thread EXCEPT ![t] =
          [thread[t] EXCEPT !.pc = "draw", !.head = HeadHash, !.base = base]]
  BY <1>1 DEF ReadHead
<1> HIDE DEF base
<1>6. thread' \in [Threads -> Call]
  BY <1>1, <1>3, <1>4, <1>5 DEF Call, Working
<1>7. /\ rows' = rows /\ nextSeq' = nextSeq /\ nextSeq \in Nat
      /\ UNCHANGED Publication /\ HeadHash' = HeadHash
  BY DEF ReadHead, Table, Publication, HeadHash, IInv, TypeOK
<1>8. /\ thread'[t].pc = "draw" /\ thread'[t].entry \in Entry /\ thread'[t].head = HeadHash
      /\ thread'[t].base = base /\ thread'[t].attempt = thread[t].attempt
  BY <1>1, <1>5 DEF Call, CallOK, Working
<1>9. CallOK(thread[t])'
  BY <1>3, <1>4, <1>7, <1>8 DEF CallOK, Working
<1>10. QED
  BY <1>1, <1>5, <1>6, <1>7, <1>8, <1>9, ThreadStep

LEMMA DrawSeqStep ==
    ASSUME IInv, NEW t \in Threads, DrawSeq(t) PROVE IInv'
<1>1. /\ thread \in [Threads -> Call]
      /\ thread[t] \in Call /\ CallOK(thread[t]) /\ thread[t].pc = "draw"
  BY DEF IInv, TypeOK, ThreadInv, DrawSeq
<1>2. nextSeq \in Nat /\ \A r \in rows : r.seq \in Nat /\ r.seq < nextSeq
  BY DEF IInv, TypeOK, TableInv, Row
<1>3. rows' = rows /\ nextSeq' = nextSeq + 1 /\ UNCHANGED Publication
  BY DEF DrawSeq, Publication
<1>4. thread' = [thread EXCEPT ![t] = [thread[t] EXCEPT !.pc = "trigger", !.seq = nextSeq]]
  BY <1>1 DEF DrawSeq
<1>5. thread' \in [Threads -> Call]
  BY <1>1, <1>2, <1>4 DEF Call, Working
<1>6. /\ thread'[t].pc = "trigger" /\ thread'[t].entry \in Entry
      /\ thread'[t].head = thread[t].head /\ thread'[t].seq = nextSeq
      /\ thread'[t].base = thread[t].base /\ thread'[t].attempt = thread[t].attempt
  BY <1>1, <1>4 DEF Call, CallOK, Working
<1>7. CallOK(thread[t])'
  BY <1>1, <1>2, <1>3, <1>6 DEF CallOK, Working
<1>8. QED
  BY <1>1, <1>2, <1>3, <1>4, <1>5, <1>6, <1>7, ThreadStep

(* A thread whose head is no longer the current one, although it is the    *)
(* hash of a row or genesis, was overtaken since it read it.               *)
LEMMA ConflictStep ==
    ASSUME IInv, NEW t \in Threads, Conflict(t),
           UNCHANGED <<Table, Publication>>, thread[t].pc \in {"trigger", "unique"}, thread[t].head # HeadHash
    PROVE  IInv'
<1>1. thread \in [Threads -> Call] /\ thread[t] \in Call /\ CallOK(thread[t])
  BY DEF IInv, TypeOK, ThreadInv
<1>2. rows' = rows /\ nextSeq' = nextSeq /\ nextSeq \in Nat /\ UNCHANGED Publication
  BY DEF Table, Publication, IInv, TypeOK
<1>3. Cardinality(rows) \in Nat
  BY FS_CardinalityType DEF IInv, TableInv
<1>4. Len(thread[t].head) < Cardinality(rows)
  <2>1. HeadHash \in Seq(Entry) /\ Len(HeadHash) = Cardinality(rows)
    BY HeadFacts DEF IInv
  <2>2. CASE thread[t].head = GENESIS_HASH
    BY <2>1, <2>2, LenProperties
  <2>3. CASE thread[t].head # GENESIS_HASH
    <3>1. PICK r \in rows : r.hash = thread[t].head
      BY <1>1, <2>3 DEF CallOK, Working
    <3>2. QED
      BY <3>1, <2>1, HeadFacts DEF IInv, TableInv
  <2>4. QED
    BY <2>2, <2>3
<1>5. thread[t].base + thread[t].attempt <= Cardinality(rows)
  BY <1>1, <1>3, <1>4 DEF CallOK, Call, Working
<1>6. CASE thread[t].attempt < Attempts
  <2> DEFINE w == [pc |-> "read", entry |-> thread[t].entry, attempt |-> thread[t].attempt + 1,
                   head |-> GENESIS_HASH, seq |-> 0, base |-> thread[t].base]
  <2>1. thread' = [thread EXCEPT ![t] = w]
    BY <1>6 DEF Conflict, CallAt
  <2>2. thread' \in [Threads -> Call]
    <3>1. w \in Call
      BY <1>1, <1>6, AttemptsAssumption DEF Call, Working
    <3>2. QED
      BY <1>1, <2>1, <3>1
  <2>3. /\ thread'[t].pc = "read" /\ thread'[t].entry \in Entry
        /\ thread'[t].base = thread[t].base /\ thread'[t].attempt = thread[t].attempt + 1
    BY <1>1, <2>1 DEF Call, CallOK, Working
  <2>4. CallOK(thread[t])'
    BY <1>1, <1>2, <1>3, <1>5, <2>3 DEF CallOK, Call, Working
  <2>5. QED
    BY <1>1, <1>2, <2>1, <2>2, <2>3, <2>4, ThreadStep
<1>7. CASE ~(thread[t].attempt < Attempts)
  <2> DEFINE w == [pc |-> "gave_up", entry |-> NoEntry, attempt |-> 1,
                   head |-> GENESIS_HASH, seq |-> 0, base |-> thread[t].base]
  <2>1. thread' = [thread EXCEPT ![t] = w]
    BY <1>7 DEF Conflict, CallAt
  <2>2. thread' \in [Threads -> Call]
    <3>1. w \in Call
      BY <1>1, AttemptsAssumption DEF Call, Ended
    <3>2. QED
      BY <1>1, <2>1, <3>1
  <2>3. thread'[t].pc = "gave_up" /\ thread'[t].base = thread[t].base
    BY <1>1, <2>1
  <2>4. CallOK(thread[t])'
    BY <2>3 DEF CallOK, Working
  <2>5. Cardinality(rows) >= thread'[t].base + Attempts
    BY <1>1, <1>3, <1>5, <1>7, <2>3, AttemptsAssumption DEF Call
  <2>6. QED
    BY <1>1, <1>2, <2>1, <2>2, <2>4, <2>5, ThreadStep
<1>8. QED
  BY <1>6, <1>7

LEMMA PrefixOfAppend ==
    ASSUME NEW s \in Seq(Entry), NEW u \in Seq(Entry), NEW e \in Entry, IsPrefixOf(s, u)
    PROVE  IsPrefixOf(s, Append(u, e))
  BY DEF IsPrefixOf

(* The thread whose prev_hash is not taken holds the current head, and its *)
(* row becomes the last one.                                               *)
LEMMA InsertFacts ==
    ASSUME IInv, NEW t \in Threads, Insert(t)
    PROVE  /\ thread[t].entry \in Entry /\ thread[t].head = HeadHash
           /\ NewRow(t) \in Row
           /\ \A r \in rows : r.seq < NewRow(t).seq
           /\ IsLast(NewRow(t), rows')
           /\ HeadHash' = Append(HeadHash, thread[t].entry)
           /\ Prevs' = Prevs \cup {HeadHash}
           /\ Pids' = Pids \cup {thread[t].entry.pid}
           /\ thread[t].seq < nextSeq
<1> DEFINE w == thread[t]
           n == NewRow(t)
<1>1. w \in Call /\ CallOK(w) /\ w.pc = "unique"
  BY DEF IInv, TypeOK, ThreadInv, Insert
<1>2. /\ w.entry \in Entry /\ w.head \in Seq(Entry) /\ w.seq \in Nat /\ w.seq < nextSeq
      /\ w.head = GENESIS_HASH \/ \E r \in rows : r.hash = w.head
      /\ w.head = HeadHash => \A r \in rows : r.seq < w.seq
  BY <1>1 DEF Call, CallOK, Working
<1>3. w.head \notin Prevs
  BY DEF Insert
<1>4. w.head = HeadHash
  <2>1. CASE rows = {}
    BY <2>1, <1>2, HeadFacts DEF IInv
  <2>2. CASE rows # {}
    BY <2>2, <1>2, <1>3, HeadFacts DEF IInv, TableInv
  <2>3. QED
    BY <2>1, <2>2
<1>5. /\ n.seq = w.seq /\ n.pid = w.entry.pid /\ n.side = w.entry.side
      /\ n.prev = w.head /\ n.hash = Append(w.head, w.entry) /\ n.exit = NoExit
      /\ n \in Row
  BY <1>2, AppendProperties DEF NewRow, Row
<1>6. rows' = rows \cup {n}
  BY DEF Insert
<1> HIDE DEF n, w
<1>7. \A r \in rows : r.seq \in Nat /\ r.seq < n.seq
  BY <1>2, <1>4, <1>5 DEF IInv, TypeOK, Row
<1>8. \A x, y \in rows : x.seq = y.seq => x = y
  BY DEF IInv, TableInv
<1>9. IsLast(n, rows') /\ HeadOf(rows') = n.hash
  BY <1>2, <1>5, <1>6, <1>7, <1>8, HeadOfAdded
<1>10. HeadHash' = Append(HeadHash, w.entry)
  BY <1>4, <1>5, <1>9 DEF HeadHash
<1>11. Prevs' = Prevs \cup {HeadHash} /\ Pids' = Pids \cup {w.entry.pid}
  BY <1>4, <1>5, <1>6 DEF Prevs, Pids
<1>12. QED
  BY <1>2, <1>4, <1>5, <1>7, <1>9, <1>10, <1>11 DEF n, w

LEMMA InsertStep ==
    ASSUME IInv, NEW t \in Threads, Insert(t) PROVE IInv'
<1> DEFINE n == NewRow(t)
           e == thread[t].entry
<1>1. /\ rows' = rows \cup {n} /\ nextSeq' = nextSeq /\ UNCHANGED Publication
      /\ thread' = [thread EXCEPT ![t] = Idle]
      /\ e.pid \notin Pids
  BY DEF Insert
<1>2. /\ e \in Entry /\ n \in Row /\ IsLast(n, rows')
      /\ \A r \in rows : r.seq < n.seq
      /\ HeadHash' = Append(HeadHash, e)
      /\ Prevs' = Prevs \cup {HeadHash} /\ Pids' = Pids \cup {e.pid}
      /\ n.seq < nextSeq
  BY InsertFacts DEF NewRow
<1>3. /\ n.pid = e.pid /\ n.side = e.side /\ n.prev = HeadHash
      /\ n.hash = Append(HeadHash, e) /\ n.exit = NoExit
  BY InsertFacts DEF NewRow
<1>4. /\ HeadHash \in Seq(Entry) /\ Len(HeadHash) = Cardinality(rows)
      /\ rows = {} => HeadHash = GENESIS_HASH
      /\ \A r \in rows : IsLast(r, rows) => HeadHash = r.hash
      /\ HeadHash \notin Prevs
  BY HeadFacts DEF IInv
<1>5. Len(HeadHash') = Len(HeadHash) + 1 /\ HeadHash' # GENESIS_HASH
  BY <1>2, <1>4, AppendProperties
<1>6. /\ IsFiniteSet(rows') /\ Cardinality(rows') = Cardinality(rows) + 1
      /\ Cardinality(rows) \in Nat
  <2>1. n \notin rows
    BY <1>2 DEF IInv, TypeOK, Row
  <2>2. QED
    BY <1>1, <2>1, FS_AddElement, FS_CardinalityType DEF IInv, TableInv
<1>7. \A r \in rows : /\ r.seq \in Nat /\ r.prev \in Seq(Entry) /\ r.hash \in Seq(Entry)
                      /\ Len(r.hash) <= Len(HeadHash)
  <2>1. \A r \in rows : r.seq \in Nat /\ r.prev \in Seq(Entry) /\ r.hash \in Seq(Entry)
    BY DEF IInv, TypeOK, Row
  <2>2. \A r \in rows : HeadHash = r.hash \/ Len(r.hash) < Len(HeadHash)
    BY <1>4 DEF IInv, TableInv
  <2>3. Len(HeadHash) \in Nat /\ \A r \in rows : Len(r.hash) \in Nat
    BY <2>1, <1>4, LenProperties
  <2>4. ASSUME NEW r \in rows PROVE Len(r.hash) <= Len(HeadHash)
    <3>1. CASE HeadHash = r.hash
      BY <3>1, <2>3
    <3>2. CASE Len(r.hash) < Len(HeadHash)
      BY <3>2, <2>3
    <3>3. QED
      BY <2>2, <3>1, <3>2
  <2>5. QED
    BY <2>1, <2>4
<1> HIDE DEF n, e
<1>8. thread \in [Threads -> Call] /\ Idle \in Call /\ Idle.pc = "idle"
  <2>1. Idle \in Call /\ Idle.pc = "idle"
    BY AttemptsAssumption DEF Idle, CallAt, Call, Ended
  <2>2. QED
    BY <2>1 DEF IInv, TypeOK
<1>9. TypeOK'
  BY <1>1, <1>2, <1>8 DEF IInv, TypeOK, Publication
<1>10. LinearChain'
  <2> SUFFICES ASSUME NEW r \in rows'
               PROVE  /\ r.hash = row_hash([pid |-> r.pid, side |-> r.side], r.prev)
                      /\ \/ Before(r)' = {} /\ r.prev = GENESIS_HASH
                         \/ \E q \in Before(r)' :
                               r.prev = q.hash /\ \A o \in Before(r)' : o.seq <= q.seq
    BY DEF LinearChain
  <2>1. CASE r = n
    <3>1. Before(r)' = rows
      BY <1>1, <1>2, <1>7, <2>1 DEF Before, Row
    <3>2. [pid |-> r.pid, side |-> r.side] = e
      BY <1>2, <1>3, <2>1
    <3>3. CASE rows = {}
      BY <3>1, <3>2, <3>3, <2>1, <1>3, <1>4
    <3>4. CASE rows # {}
      <4>1. PICK q \in rows : IsLast(q, rows)
        BY <3>4 DEF IInv, TableInv
      <4>2. QED
        BY <4>1, <3>1, <3>2, <2>1, <1>3, <1>4 DEF IsLast
    <3>5. QED
      BY <3>3, <3>4
  <2>2. CASE r \in rows
    <3>1. Before(r)' = Before(r)
      BY <1>1, <1>2, <1>7, <2>2 DEF Before, Row
    <3>2. QED
      BY <2>2, <3>1 DEF IInv, LinearChain
  <2>3. QED
    BY <1>1, <2>1, <2>2
<1>11. GiveUpMeansOvertaken'
  <2> SUFFICES ASSUME NEW u \in Threads, thread'[u].pc = "gave_up"
               PROVE  Cardinality(rows') >= thread'[u].base + Attempts
    BY DEF GiveUpMeansOvertaken
  <2>1. u # t /\ thread'[u] = thread[u] /\ thread[u].base \in Nat
    BY <1>1, <1>8 DEF Call
  <2>2. QED
    BY <2>1, <1>6, AttemptsAssumption DEF IInv, GiveUpMeansOvertaken
<1>12. HeadsAnchorHistory' /\ PublicationInv'
  <2>1. \A s \in Seq(Entry) : IsPrefixOf(s, HeadHash) => IsPrefixOf(s, HeadHash')
    BY <1>2, <1>4, PrefixOfAppend DEF IInv
  <2>2. \A q \in rows : \E q2 \in rows' : q2.seq = q.seq /\ q2.hash = q.hash
    BY <1>1
  <2>3. QED
    BY <1>1, <2>1, <2>2, GrownTable
<1>13. TableInv'
  <2>1. rows' # {} /\ (\E r \in rows' : IsLast(r, rows')) /\ GENESIS_HASH \in Prevs'
    BY <1>1, <1>2, <1>4 DEF IInv, TableInv
  <2>2. \A r, q \in rows' : r.seq = q.seq \/ r.pid = q.pid => r = q
    BY <1>1, <1>2, <1>3, <1>7 DEF IInv, TableInv, Pids
  <2>3. \A r \in rows' : r.seq < nextSeq'
    BY <1>1, <1>2 DEF IInv, TableInv
  <2>4. \A r \in rows : r.hash \in Prevs' /\ Len(r.hash) < Len(HeadHash')
    BY <1>2, <1>4, <1>5, <1>7, LenProperties DEF IInv, TableInv
  <2>5. Len(HeadHash') = Cardinality(rows')
    BY <1>4, <1>5, <1>6
  <2>6. Pids' = {HeadHash'[i].pid : i \in DOMAIN HeadHash'}
    <3>1. /\ DOMAIN HeadHash' = DOMAIN HeadHash \cup {Len(HeadHash) + 1}
          /\ \A i \in DOMAIN HeadHash : HeadHash'[i] = HeadHash[i]
          /\ HeadHash'[Len(HeadHash) + 1] = e
      BY <1>2, <1>4, AppendProperties, LenProperties
    <3>2. Pids = {HeadHash[i].pid : i \in DOMAIN HeadHash}
      BY DEF IInv, TableInv
    <3>3. QED
      BY <3>1, <3>2, <1>2
  <2>7. QED
    BY <2>1, <2>2, <2>3, <2>4, <2>5, <2>6, <1>1, <1>2, <1>6 DEF TableInv
<1>14. ThreadInv'
  <2> SUFFICES ASSUME NEW u \in Threads PROVE CallOK(thread[u])'
    BY DEF ThreadInv
  <2>1. CASE u = t
    <3>1. thread'[u].pc = "idle"
      BY <2>1, <1>1, <1>8
    <3>2. QED
      BY <3>1 DEF CallOK, Working
  <2>2. CASE u # t
    <3>1. thread'[u] = thread[u] /\ thread[u] \in Call /\ CallOK(thread[u])
      BY <2>2, <1>1, <1>8 DEF IInv, ThreadInv
    <3>2. thread[u].pc \in Working \ {"read"} => thread[u].head # HeadHash'
      <4>1. \A r \in rows : r.hash # HeadHash'
        BY <1>5, <1>4, <1>7, LenProperties
      <4>2. QED
        BY <4>1, <1>5, <3>1 DEF CallOK
    <3>3. QED
      BY <3>1, <3>2, <1>1, <1>6 DEF CallOK, Call, Working
  <2>3. QED
    BY <2>1, <2>2
<1>15. QED
  BY <1>9, <1>10, <1>11, <1>12, <1>13, <1>14 DEF IInv

(* Closing a position rewrites one row, and of it only the exit.           *)
LEMMA CloseFacts ==
    ASSUME IInv, NEW p \in Predictions, NEW reason \in Reasons, ClosePaperTrade(p, reason)
    PROVE  \E r \in rows :
             /\ r.pid = p /\ r.exit = NoExit
             /\ rows' = (rows \ {r}) \cup {[r EXCEPT !.exit = reason]}
             /\ [r EXCEPT !.exit = reason] \in Row
             /\ HeadHash' = HeadHash /\ Prevs' = Prevs /\ Pids' = Pids
<1>1. PICK r \in rows : /\ r.pid = p /\ r.exit = NoExit
                       /\ rows' = (rows \ {r}) \cup {[r EXCEPT !.exit = reason]}
  BY DEF ClosePaperTrade
<1> DEFINE n == [r EXCEPT !.exit = reason]
<1>2. r \in Row
  BY DEF IInv, TypeOK
<1>3. /\ n \in Row /\ n.seq = r.seq /\ n.pid = r.pid /\ n.prev = r.prev /\ n.hash = r.hash
  BY <1>2 DEF Row
<1>4. rows' = (rows \ {r}) \cup {n}
  BY <1>1
<1> HIDE DEF n
<1>5. Prevs' = Prevs /\ Pids' = Pids
  BY <1>3, <1>4 DEF Prevs, Pids
<1>6. \A x \in rows' : x.seq \in Nat
  BY <1>3, <1>4 DEF IInv, TypeOK, Row
<1>7. \A x, y \in rows' : x.seq = y.seq => x = y
  BY <1>3, <1>4 DEF IInv, TableInv
<1>8. HeadHash' = HeadHash
  <2>1. PICK q \in rows : IsLast(q, rows)
    BY DEF IInv, TableInv
  <2>2. HeadHash = q.hash
    BY <2>1, HeadFacts DEF IInv
  <2>3. CASE q = r
    <3>1. IsLast(n, rows')
      BY <2>1, <2>3, <1>3, <1>4 DEF IsLast
    <3>2. QED
      BY <3>1, <2>2, <2>3, <1>3, <1>6, <1>7, HeadOfLast DEF HeadHash
  <2>4. CASE q # r
    <3>1. IsLast(q, rows')
      BY <2>1, <2>4, <1>3, <1>4 DEF IsLast
    <3>2. QED
      BY <3>1, <2>2, <1>6, <1>7, HeadOfLast DEF HeadHash
  <2>5. QED
    BY <2>3, <2>4
<1>9. QED
  BY <1>1, <1>3, <1>4, <1>5, <1>8 DEF n

LEMMA CloseStep ==
    ASSUME IInv, NEW p \in Predictions, NEW reason \in Reasons, ClosePaperTrade(p, reason)
    PROVE  IInv'
<1>1. PICK r \in rows : /\ r.pid = p /\ r.exit = NoExit
                       /\ rows' = (rows \ {r}) \cup {[r EXCEPT !.exit = reason]}
                       /\ [r EXCEPT !.exit = reason] \in Row
                       /\ HeadHash' = HeadHash /\ Prevs' = Prevs /\ Pids' = Pids
  BY CloseFacts
<1> DEFINE n == [r EXCEPT !.exit = reason]
<1>2. r \in Row /\ \A x \in rows : x \in Row
  BY DEF IInv, TypeOK
<1>3. /\ n \in Row /\ n.seq = r.seq /\ n.pid = r.pid /\ n.side = r.side
      /\ n.prev = r.prev /\ n.hash = r.hash
  BY <1>1, <1>2 DEF Row
<1>4. rows' = (rows \ {r}) \cup {n}
  BY <1>1
<1> HIDE DEF n
<1>5. nextSeq' = nextSeq /\ thread' = thread /\ UNCHANGED Publication
  BY DEF ClosePaperTrade, Publication
<1>6. IsFiniteSet(rows') /\ Cardinality(rows') = Cardinality(rows) /\ Cardinality(rows) \in Nat
  <2>1. n \notin rows \ {r}
    BY <1>3 DEF IInv, TableInv
  <2>2. IsFiniteSet(rows) /\ Cardinality(rows) \in Nat
    BY FS_CardinalityType DEF IInv, TableInv
  <2> DEFINE others == rows \ {r}
  <2>3. IsFiniteSet(others) /\ Cardinality(others) = Cardinality(rows) - 1
    BY <2>2, FS_RemoveElement
  <2> HIDE DEF others
  <2>4. IsFiniteSet(others \cup {n}) /\ Cardinality(others \cup {n}) = Cardinality(others) + 1
    BY <2>1, <2>3, FS_AddElement DEF others
  <2>5. QED
    BY <2>2, <2>3, <2>4, <1>4 DEF others
<1>7. TypeOK'
  BY <1>3, <1>4, <1>5 DEF IInv, TypeOK, Publication
<1>8. LinearChain'
  <2> SUFFICES ASSUME NEW x \in rows'
               PROVE  /\ x.hash = row_hash([pid |-> x.pid, side |-> x.side], x.prev)
                      /\ \/ Before(x)' = {} /\ x.prev = GENESIS_HASH
                         \/ \E q \in Before(x)' :
                               x.prev = q.hash /\ \A o \in Before(x)' : o.seq <= q.seq
    BY DEF LinearChain
  <2>1. PICK y \in rows : /\ x.seq = y.seq /\ x.pid = y.pid /\ x.side = y.side
                         /\ x.prev = y.prev /\ x.hash = y.hash
    BY <1>3, <1>4
  <2>2. \A q \in rows : \E q2 \in rows' : q2.seq = q.seq /\ q2.hash = q.hash
    BY <1>3, <1>4
  <2>3. \A q \in rows' : \E q2 \in rows : q2.seq = q.seq
    BY <1>3, <1>4
  <2>4. CASE Before(y) = {} /\ y.prev = GENESIS_HASH
    BY <2>1, <2>3, <2>4 DEF Before, IInv, LinearChain
  <2>5. ASSUME NEW q \in Before(y), y.prev = q.hash, \A o \in Before(y) : o.seq <= q.seq
        PROVE  \E q2 \in Before(x)' : x.prev = q2.hash /\ \A o \in Before(x)' : o.seq <= q2.seq
    BY <2>1, <2>2, <2>3, <2>5 DEF Before
  <2>6. QED
    BY <2>1, <2>4, <2>5 DEF IInv, LinearChain
<1>9. GiveUpMeansOvertaken'
  BY <1>5, <1>6 DEF IInv, GiveUpMeansOvertaken
<1>10. HeadsAnchorHistory' /\ PublicationInv'
  <2>1. \A q \in rows : \E q2 \in rows' : q2.seq = q.seq /\ q2.hash = q.hash
    BY <1>3, <1>4
  <2>2. QED
    BY <1>1, <1>5, <2>1, GrownTable
<1>11. TableInv'
  <2>1. rows' # {} /\ (\E x \in rows' : IsLast(x, rows')) /\ GENESIS_HASH \in Prevs'
    BY <1>1, <1>3, <1>4 DEF IInv, TableInv, IsLast
  <2>2. \A x, y \in rows' : x.seq = y.seq \/ x.pid = y.pid => x = y
    BY <1>3, <1>4 DEF IInv, TableInv
  <2>3. \A x \in rows' :
          /\ x.seq < nextSeq'
          /\ IsLast(x, rows') \/ (x.hash \in Prevs' /\ Len(x.hash) < Len(HeadHash'))
    BY <1>1, <1>3, <1>4, <1>5 DEF IInv, TableInv, IsLast
  <2>4. Pids' = {HeadHash'[i].pid : i \in DOMAIN HeadHash'}
    BY <1>1 DEF IInv, TableInv
  <2>5. Len(HeadHash') = Cardinality(rows')
    BY <1>1, <1>6 DEF IInv, TableInv
  <2>6. QED
    BY <2>1, <2>2, <2>3, <2>4, <2>5, <1>6 DEF TableInv
<1>12. ThreadInv'
  <2> SUFFICES ASSUME NEW u \in Threads PROVE CallOK(thread[u])'
    BY DEF ThreadInv
  <2>1. CallOK(thread[u])
    BY DEF IInv, ThreadInv
  <2>2. QED
    BY <2>1, <1>1, <1>3, <1>4, <1>5, <1>6 DEF CallOK
<1>13. QED
  BY <1>7, <1>8, <1>9, <1>10, <1>11, <1>12 DEF IInv

(* The publication leaves the table and the threads alone. *)
LEMMA PublicationFrame ==
    ASSUME IInv, PublishHead \/ PushHead \/ PushFails \/ PushAgain \/ NextDay
    PROVE  /\ rows' = rows /\ nextSeq' = nextSeq /\ thread' = thread
           /\ HeadHash' = HeadHash
           /\ LinearChain' /\ GiveUpMeansOvertaken' /\ TableInv' /\ ThreadInv'
<1>1. rows' = rows /\ nextSeq' = nextSeq /\ thread' = thread
  BY DEF PublishHead, PushHead, PushFails, PushAgain, NextDay, Table
<1>2. HeadHash' = HeadHash /\ Prevs' = Prevs /\ Pids' = Pids
  BY <1>1 DEF HeadHash, Prevs, Pids
<1>3. LinearChain' /\ GiveUpMeansOvertaken' /\ TableInv'
  BY <1>1, <1>2 DEF IInv, LinearChain, Before, GiveUpMeansOvertaken, TableInv
<1>4. ThreadInv'
  BY <1>1, <1>2 DEF IInv, ThreadInv, CallOK
<1>5. QED
  BY <1>1, <1>2, <1>3, <1>4

LEMMA LineTypes ==
    ASSUME TypeOK
    PROVE  /\ day \in Nat /\ staged \subseteq Line /\ kept \subseteq Line /\ heads \in Seq(Line)
           /\ Len(heads) \in Nat /\ DOMAIN heads = 1..Len(heads)
           /\ \A i \in DOMAIN heads : heads[i] \in Line
<1>1. /\ day \in Nat /\ staged \subseteq Line /\ kept \subseteq Line /\ heads \in Seq(Line)
  BY DEF TypeOK
<1>2. QED
  BY <1>1, ElementOfSeq, LenProperties

(* The new line is of today and anchors the whole chain; by a last line    *)
(* that was read no line of today is there, or a late one stands behind it.*)
LEMMA PublishHeadStep ==
    ASSUME IInv, PublishHead PROVE IInv'
<1>1. PICK readable \in BOOLEAN :
        /\ ShouldPublishHead(LastPublishedOn(readable))
        /\ staged' = {[day |-> day, seq |-> LastRow.seq, head |-> HeadHash,
                       how |-> IF readable THEN "first" ELSE "unread"]}
  BY DEF PublishHead
<1> DEFINE line == [day |-> day, seq |-> LastRow.seq, head |-> HeadHash,
                    how |-> IF readable THEN "first" ELSE "unread"]
<1>2. staged' = {line} /\ staged = {} /\ heads' = heads /\ kept' = kept /\ day' = day
  BY <1>1 DEF PublishHead
<1>3. /\ line \in Line /\ line.day = day /\ line.head = HeadHash /\ NamesRow(line)
      /\ line.how \in {"first", "unread"} /\ (line.how = "first" => readable)
  <2>1. PICK r \in rows : IsLast(r, rows)
    BY DEF PublishHead, IInv, TableInv
  <2>2. LastRow \in rows /\ IsLast(LastRow, rows)
    BY <2>1 DEF LastRow, IsLast
  <2>3. HeadHash = LastRow.hash /\ rows # {}
    BY <2>2, HeadFacts DEF HeadHash, HeadOf, LastRow, IInv
  <2>4. HeadHash \in Seq(Entry) /\ LastRow.seq \in Nat /\ day \in Nat
    BY <2>2, HeadFacts DEF IInv, TypeOK, Row
  <2>5. QED
    BY <2>2, <2>3, <2>4 DEF Line, NamesRow
<1> HIDE DEF line
<1>4. IsPrefixOf(HeadHash, HeadHash)
  BY HeadFacts, LenProperties DEF IInv, IsPrefixOf
<1>5. ASSUME NEW i \in DOMAIN heads, heads[i].day = line.day, line.how # "unread"
      PROVE  \E k \in i..Len(heads) : heads[k].how = "late"
  <2>1. heads # <<>> /\ Len(heads) \in DOMAIN heads
    BY LineTypes DEF IInv
  <2>2. heads[Len(heads)].day < day
    BY <1>1, <1>3, <1>5, <2>1 DEF ShouldPublishHead, LastPublishedOn
  <2>3. i < Len(heads)
    BY <1>3, <1>5, <2>1, <2>2, LineTypes DEF IInv, Line
  <2>4. heads[Len(heads)].how # "late" => heads[i].day <= heads[Len(heads)].day
    BY <2>1, <2>3 DEF IInv, HeadsAnchorHistory, OneLineADay
  <2>5. heads[Len(heads)].how = "late"
    <3>1. heads[i].day \in Nat /\ heads[Len(heads)].day \in Nat /\ day \in Nat
      BY <2>1, LineTypes DEF IInv, Line
    <3>2. heads[i].day = day
      BY <1>3, <1>5
    <3>3. QED
      BY <2>2, <2>4, <3>1, <3>2
  <2>6. QED
    BY <2>3, <2>5, LineTypes DEF IInv
<1>6. TypeOK'
  BY <1>2, <1>3, PublicationFrame DEF IInv, TypeOK
<1>7. HeadsAnchorHistory'
  BY <1>2, PublicationFrame DEF IInv, HeadsAnchorHistory, OneLineADay, NamesRow
<1>8. PublicationInv'
  <2>1. \A i \in DOMAIN heads :
           heads[i].day \in Nat /\ heads[i].day <= day /\ IsPrefixOf(heads[i].head, HeadHash)
    BY LineTypes DEF IInv, PublicationInv, HeadsAnchorHistory, Line
  <2>2. \A l \in kept :
           l.day \in Nat /\ l.day <= day /\ NamesRow(l) /\ IsPrefixOf(l.head, HeadHash)
    BY LineTypes DEF IInv, PublicationInv, Line
  <2>3. line.day \in Nat
    BY <1>3 DEF Line
  <2>4. \A l \in staged' \cup kept' :
          /\ l.day <= day
          /\ NamesRow(l) /\ IsPrefixOf(l.head, HeadHash)
          /\ \A i \in DOMAIN heads :
                /\ heads[i].day < l.day => IsPrefixOf(heads[i].head, l.head)
                /\ l.day < heads[i].day => IsPrefixOf(l.head, heads[i].head)
          /\ \A m \in staged' \cup kept' : l.day < m.day => IsPrefixOf(l.head, m.head)
    <3>1. CASE TRUE
      <4>1. ASSUME NEW l \in kept
            PROVE  \A m \in staged' \cup kept' : l.day < m.day => IsPrefixOf(l.head, m.head)
        BY <1>2, <1>3, <2>2 DEF IInv, PublicationInv
      <4>2. \A m \in staged' \cup kept' : ~ (line.day < m.day)
        BY <1>2, <1>3, <2>2, <2>3
      <4>3. \A i \in DOMAIN heads : ~ (line.day < heads[i].day)
        BY <1>3, <2>1, <2>3
      <4>4. \A l \in kept : \A i \in DOMAIN heads :
                /\ heads[i].day < l.day => IsPrefixOf(heads[i].head, l.head)
                /\ l.day < heads[i].day => IsPrefixOf(l.head, heads[i].head)
        BY DEF IInv, PublicationInv
      <4>5. line.day <= day
        BY <1>3, <2>3
      <4>6. QED
        BY <1>2, <1>3, <1>4, <2>1, <2>2, <4>1, <4>2, <4>3, <4>4, <4>5
    <3>2. QED
      BY <3>1
  <2>5. /\ line.how # "late"
        /\ \A l \in staged' \cup kept' : l.day <= line.day
        /\ \A i \in DOMAIN heads :
              /\ heads[i].day <= line.day
              /\ heads[i].day = line.day =>
                    line.how = "unread" \/ \E k \in i..Len(heads) : heads[k].how = "late"
    BY <1>2, <1>3, <1>5, <2>1, <2>2, <2>3
  <2>6. QED
    BY <1>2, <2>1, <2>4, <2>5, PublicationFrame DEF PublicationInv, NamesRow
<1>9. QED
  BY <1>6, <1>7, <1>8, PublicationFrame DEF IInv

(* A line that is appended, on time or late, was in order with all others  *)
(* before; only its place in the file is new.                              *)
LEMMA AppendedLine ==
    ASSUME IInv, rows' = rows, HeadHash' = HeadHash, day' = day,
           NEW line \in staged \cup kept, NEW new \in Line,
           new.day = line.day, new.seq = line.seq, new.head = line.head,
           heads' = Append(heads, new),
           staged' \cup kept' \subseteq staged \cup kept, staged' \subseteq staged, kept' \subseteq kept,
           new.how = "late" \/ (new = line /\ line \in staged /\ staged' = {})
    PROVE  HeadsAnchorHistory' /\ PublicationInv' /\ heads' \in Seq(Line)
<1> DEFINE n == Len(heads) + 1
<1>1. /\ heads' \in Seq(Line) /\ DOMAIN heads = 1..Len(heads) /\ Len(heads) \in Nat
      /\ DOMAIN heads' = 1..n /\ Len(heads') = n
      /\ \A i \in DOMAIN heads : heads'[i] = heads[i] /\ i \in DOMAIN heads'
      /\ heads'[n] = new
  BY LineTypes, AppendProperties, LenProperties DEF IInv
<1>2. n \in Nat /\ \A i \in DOMAIN heads' : i \in DOMAIN heads \/ i = n
  BY <1>1
<1>3. /\ \A i \in DOMAIN heads : i < n
      /\ \A i \in DOMAIN heads : i \in Nat
      /\ \A i \in DOMAIN heads : \A k \in i..Len(heads) : k \in DOMAIN heads /\ k \in i..n
      /\ \A i \in DOMAIN heads' : n \in i..n
  BY <1>1
<1> HIDE DEF n
<1>4. /\ line.day \in Nat /\ line.day <= day
      /\ NamesRow(new) /\ IsPrefixOf(new.head, HeadHash)
      /\ \A i \in DOMAIN heads :
            /\ heads[i].day < new.day => IsPrefixOf(heads[i].head, new.head)
            /\ new.day < heads[i].day => IsPrefixOf(new.head, heads[i].head)
      /\ \A l \in staged \cup kept :
            /\ new.day < l.day => IsPrefixOf(new.head, l.head)
            /\ l.day < new.day => IsPrefixOf(l.head, new.head)
  BY LineTypes DEF IInv, PublicationInv, NamesRow, Line
<1>5. \A i \in DOMAIN heads :
        /\ new.how # "late" => heads[i].day <= new.day
        /\ heads[i].day = new.day =>
              new.how = "unread" \/ \E k \in i..n : heads'[k].how = "late"
  <2> SUFFICES ASSUME NEW i \in DOMAIN heads
               PROVE  /\ new.how # "late" => heads[i].day <= new.day
                      /\ heads[i].day = new.day =>
                            new.how = "unread" \/ \E k \in i..n : heads'[k].how = "late"
    OBVIOUS
  <2>1. CASE new.how = "late"
    BY <1>1, <1>3, <2>1
  <2>2. CASE new.how # "late"
    <3>1. /\ heads[i].day <= line.day
          /\ heads[i].day = line.day =>
                line.how = "unread" \/ \E k \in i..Len(heads) : heads[k].how = "late"
      BY <2>2 DEF IInv, PublicationInv
    <3>2. QED
      BY <1>1, <1>3, <2>2, <3>1
  <2>3. QED
    BY <2>1, <2>2
<1>6. HeadsAnchorHistory'
  <2>1. ASSUME NEW j \in DOMAIN heads'
        PROVE  NamesRow(heads'[j]) /\ IsPrefixOf(heads'[j].head, HeadHash)
    BY <1>1, <1>2, <1>4 DEF IInv, HeadsAnchorHistory
  <2>2. ASSUME NEW i \in DOMAIN heads', NEW j \in DOMAIN heads', heads'[i].day < heads'[j].day
        PROVE  IsPrefixOf(heads'[i].head, heads'[j].head)
    <3>1. CASE i \in DOMAIN heads /\ j \in DOMAIN heads
      BY <1>1, <2>2, <3>1 DEF IInv, HeadsAnchorHistory
    <3>2. CASE i = n /\ j \in DOMAIN heads
      BY <1>1, <1>4, <2>2, <3>2
    <3>3. CASE i \in DOMAIN heads /\ j = n
      BY <1>1, <1>4, <2>2, <3>3
    <3>4. CASE i = n /\ j = n
      BY <1>1, <1>4, <2>2, <3>4
    <3>5. QED
      BY <1>2, <3>1, <3>2, <3>3, <3>4
  <2>3. ASSUME NEW i \in DOMAIN heads', NEW j \in DOMAIN heads', i < j
        PROVE  OneLineADay(i, j)'
    <3>1. CASE i \in DOMAIN heads /\ j \in DOMAIN heads
      <4>1. OneLineADay(i, j)
        BY <2>3, <3>1 DEF IInv, HeadsAnchorHistory
      <4>2. \A k \in i..j : k \in DOMAIN heads
        BY <1>1, <3>1
      <4>3. QED
        BY <1>1, <3>1, <4>1, <4>2 DEF OneLineADay
    <3>2. CASE i \in DOMAIN heads /\ j = n
      BY <1>1, <1>5, <3>2 DEF OneLineADay
    <3>3. CASE i = n
      BY <1>1, <1>2, <1>3, <2>3, <3>3
    <3>4. QED
      BY <1>2, <3>1, <3>2, <3>3
  <2>4. \A j \in DOMAIN heads' : NamesRow(heads'[j]) => NamesRow(heads[j])'
    BY DEF NamesRow
  <2>5. QED
    BY <2>1, <2>2, <2>3, <2>4 DEF HeadsAnchorHistory
<1>7. PublicationInv'
  <2>1. \A i \in DOMAIN heads' : heads'[i].day <= day
    BY <1>1, <1>2, <1>4 DEF IInv, PublicationInv
  <2>2. ASSUME NEW l \in staged' \cup kept'
        PROVE  /\ l.day <= day
               /\ NamesRow(l)' /\ IsPrefixOf(l.head, HeadHash)
               /\ \A i \in DOMAIN heads' :
                     /\ heads'[i].day < l.day => IsPrefixOf(heads'[i].head, l.head)
                     /\ l.day < heads'[i].day => IsPrefixOf(l.head, heads'[i].head)
               /\ \A m \in staged' \cup kept' : l.day < m.day => IsPrefixOf(l.head, m.head)
    <3>1. l \in staged \cup kept
      OBVIOUS
    <3>2. NamesRow(l) => NamesRow(l)'
      BY DEF NamesRow
    <3>3. QED
      BY <1>1, <1>2, <1>4, <3>1, <3>2 DEF IInv, PublicationInv
  <2>3. ASSUME NEW l \in staged'
        PROVE  /\ l.how # "late"
               /\ \A m \in staged' \cup kept' : m.day <= l.day
               /\ \A i \in DOMAIN heads' :
                     /\ heads'[i].day <= l.day
                     /\ heads'[i].day = l.day =>
                           l.how = "unread" \/ \E k \in i..Len(heads') : heads'[k].how = "late"
    <3>1. l \in staged /\ new.how = "late"
      OBVIOUS
    <3>2. l.how # "late" /\ \A m \in staged \cup kept : m.day <= l.day
      BY <3>1 DEF IInv, PublicationInv
    <3>3. new.day <= l.day
      BY <3>2
    <3>4. \A i \in DOMAIN heads' : \E k \in i..Len(heads') : heads'[k].how = "late"
      BY <1>1, <1>3, <3>1
    <3>5. QED
      BY <1>1, <1>2, <3>1, <3>2, <3>3, <3>4 DEF IInv, PublicationInv
  <2>4. QED
    BY <2>1, <2>2, <2>3 DEF PublicationInv
<1>8. QED
  BY <1>1, <1>6, <1>7

LEMMA PublicationStep ==
    ASSUME IInv, PublishHead \/ PushHead \/ PushFails \/ PushAgain \/ NextDay PROVE IInv'
<1>1. CASE PublishHead
  BY <1>1, PublishHeadStep
<1>2. CASE PushHead
  <2>1. PICK line \in staged : heads' = Append(heads, line)
    BY <1>2 DEF PushHead
  <2>2. staged' = {} /\ kept' = kept /\ day' = day /\ line \in Line
    BY <1>2, LineTypes DEF PushHead, IInv
  <2>3. HeadsAnchorHistory' /\ PublicationInv' /\ heads' \in Seq(Line)
    BY <1>2, <2>1, <2>2, AppendedLine, PublicationFrame
  <2>4. QED
    BY <1>2, <2>2, <2>3, PublicationFrame DEF IInv, TypeOK
<1>3. CASE PushAgain
  <2>1. PICK line \in kept : /\ heads' = Append(heads, [line EXCEPT !.how = "late"])
                             /\ kept' = kept \ {line}
    BY <1>3 DEF PushAgain
  <2> DEFINE new == [line EXCEPT !.how = "late"]
  <2>2. /\ staged' = staged /\ day' = day /\ new \in Line /\ new.how = "late"
        /\ new.day = line.day /\ new.seq = line.seq /\ new.head = line.head
    BY <1>3, LineTypes DEF PushAgain, IInv, Line
  <2>3. heads' = Append(heads, new) /\ kept' \subseteq kept
    BY <2>1
  <2> HIDE DEF new
  <2>4. HeadsAnchorHistory' /\ PublicationInv' /\ heads' \in Seq(Line)
    BY <1>3, <2>2, <2>3, AppendedLine, PublicationFrame
  <2>5. QED
    BY <1>3, <2>2, <2>3, <2>4, PublicationFrame DEF IInv, TypeOK
<1>4. CASE PushFails \/ NextDay
  <2>1. /\ staged' \subseteq staged /\ staged' \cup kept' \subseteq staged \cup kept
        /\ heads' = heads /\ day \in Nat /\ day' \in Nat /\ day <= day'
        /\ staged' = {} \/ kept' = kept
    BY <1>4, LineTypes DEF PushFails, NextDay, IInv
  <2>2. TypeOK'
    BY <1>4, <2>1, PublicationFrame DEF IInv, TypeOK
  <2>3. HeadsAnchorHistory'
    BY <1>4, <2>1, PublicationFrame DEF IInv, HeadsAnchorHistory, OneLineADay, NamesRow
  <2>4. PublicationInv'
    <3>1. \A i \in DOMAIN heads : heads[i].day <= day'
      BY <2>1, LineTypes DEF IInv, PublicationInv, Line
    <3>2. \A l \in staged \cup kept : l.day <= day'
      BY <2>1, LineTypes DEF IInv, PublicationInv, Line
    <3>3. QED
      BY <1>4, <2>1, <3>1, <3>2, PublicationFrame DEF IInv, PublicationInv, NamesRow
  <2>5. QED
    BY <1>4, <2>2, <2>3, <2>4, PublicationFrame DEF IInv
<1>5. QED
  BY <1>1, <1>2, <1>3, <1>4

LEMMA NextIInv == IInv /\ [Next]_vars => IInv'
<1> SUFFICES ASSUME IInv, [Next]_vars PROVE IInv'
  OBVIOUS
<1>1. ASSUME NEW t \in Threads, Start(t) PROVE IInv'
  BY <1>1, StartStep
<1>2. ASSUME NEW t \in Threads, AppendStep(t) PROVE IInv'
  <2>1. CASE ReadHead(t)
    BY <2>1, ReadHeadStep
  <2>2. CASE DrawSeq(t)
    BY <2>2, DrawSeqStep
  <2>3. CASE ChainHeadTrigger(t)
    <3>1. CASE thread[t].head = HeadHash
      <4>1. /\ thread[t].pc = "trigger" /\ thread' = [thread EXCEPT ![t].pc = "unique"]
            /\ thread \in [Threads -> Call] /\ CallOK(thread[t])
        BY <2>3, <3>1 DEF ChainHeadTrigger, IInv, TypeOK, ThreadInv
      <4>2. /\ rows' = rows /\ nextSeq' = nextSeq /\ nextSeq \in Nat
            /\ UNCHANGED Publication /\ HeadHash' = HeadHash
        BY <2>3 DEF ChainHeadTrigger, Table, Publication, HeadHash, IInv, TypeOK
      <4>3. thread' \in [Threads -> Call]
        BY <4>1 DEF Call, Working
      <4>4. CallOK(thread[t])'
        BY <4>1, <4>2 DEF CallOK, Call, Working
      <4>5. thread'[t].pc = "unique"
        BY <4>1
      <4>6. QED
        BY <4>1, <4>2, <4>3, <4>4, <4>5, ThreadStep
    <3>2. CASE thread[t].head # HeadHash
      BY <2>3, <3>2, ConflictStep DEF ChainHeadTrigger
    <3>3. QED
      BY <3>1, <3>2
  <2>4. CASE Duplicate(t) \/ Fail(t)
    BY <2>4, FailStep
  <2>5. CASE PrevHashTaken(t)
    <3>1. thread[t].head # HeadHash
      BY <2>5, HeadFacts DEF PrevHashTaken, IInv
    <3>2. QED
      BY <2>5, <3>1, ConflictStep DEF PrevHashTaken
  <2>6. CASE Insert(t)
    BY <2>6, InsertStep
  <2>7. QED
    BY <1>2, <2>1, <2>2, <2>3, <2>4, <2>5, <2>6 DEF AppendStep
<1>3. ASSUME NEW p \in Predictions, NEW r \in Reasons, ClosePaperTrade(p, r) PROVE IInv'
  BY <1>3, CloseStep
<1>4. CASE PublishHead \/ PushHead \/ PushFails \/ PushAgain \/ NextDay
  BY <1>4, PublicationStep
<1>5. CASE UNCHANGED vars
  <2>1. rows' = rows /\ nextSeq' = nextSeq /\ thread' = thread /\ UNCHANGED Publication
    BY <1>5 DEF vars, Publication
  <2>2. HeadHash' = HeadHash /\ Prevs' = Prevs /\ Pids' = Pids
    BY <2>1 DEF HeadHash, Prevs, Pids
  <2>3. HeadsAnchorHistory' /\ PublicationInv'
    BY <2>1, <2>2, SameTable
  <2>4. TypeOK' /\ LinearChain' /\ GiveUpMeansOvertaken' /\ TableInv' /\ ThreadInv'
    BY <2>1, <2>2 DEF IInv, TypeOK, LinearChain, Before, GiveUpMeansOvertaken, TableInv,
       ThreadInv, CallOK, Publication
  <2>5. QED
    BY <2>3, <2>4 DEF IInv
<1>6. QED
  BY <1>1, <1>2, <1>3, <1>4, <1>5 DEF Next

LEMMA Invariance == Spec => []IInv
  BY InitIInv, NextIInv, PTL DEF Spec

(* paper_trades is well typed whatever the threads do. *)
THEOREM TypeCorrect == Spec => []TypeOK
<1>1. IInv => TypeOK
  BY DEF IInv
<1>2. QED
  BY <1>1, Invariance, PTL

(* Threads racing for the head never fork the chain or leave a gap in it,  *)
(* for any number of them (append_paper_trade, 073_paper_trades.sql).      *)
THEOREM ChainIsLinear == Spec => []LinearChain
<1>1. IInv => LinearChain
  BY DEF IInv
<1>2. QED
  BY <1>1, Invariance, PTL

(* A trade is given up only after Attempts others overtook it. *)
THEOREM GiveUpIsOvertaken == Spec => []GiveUpMeansOvertaken
<1>1. IInv => GiveUpMeansOvertaken
  BY DEF IInv
<1>2. QED
  BY <1>1, Invariance, PTL

(* Every published head names a row of the table and is a prefix of the    *)
(* chain and of every head of a later day; lines are out of order or twice *)
(* on a day only behind a late push or an unreadable last line             *)
(* (publish_paper_ledger_head.py, ledger_head_publisher.py).               *)
THEOREM HeadsAreAnchors == Spec => []HeadsAnchorHistory
<1>1. IInv => HeadsAnchorHistory
  BY DEF IInv
<1>2. QED
  BY <1>1, Invariance, PTL

LEMMA ExitOfRow ==
    ASSUME IInv, NEW r \in rows PROVE RecordedExit(r.pid) = r.exit
<1>1. \A q \in rows : q.pid = r.pid => q = r
  BY DEF IInv, TableInv
<1>2. (CHOOSE q \in rows : q.pid = r.pid) = r
  BY <1>1
<1>3. QED
  BY <1>2 DEF RecordedExit

(* Optimistic appends, closes and publications implement the append-only   *)
(* log: no interleaving loses, reorders, duplicates or reopens a position. *)
THEOREM LedgerImplementsLog == Spec => ImplementsLog
<1> DEFINE exits == [p \in Predictions |-> RecordedExit(p)]
<1>1. Init => Log!Init
  BY DEF Init, Log!Init, HeadHash, HeadOf, RecordedExit
<1>2. ASSUME IInv, IInv', [Next]_vars PROVE [Log!Next]_Log!vars
  <2>1. ASSUME NEW t \in Threads, Insert(t) PROVE Log!Next
    <3> DEFINE e == thread[t].entry
               n == NewRow(t)
    <3>1. /\ e \in Entry /\ HeadHash' = Append(HeadHash, e) /\ n \in Row
      BY <1>2, <2>1, InsertFacts
    <3>2. rows' = rows \cup {n} /\ e.pid \notin Pids /\ n.pid = e.pid /\ n.exit = NoExit
      BY <2>1 DEF Insert, NewRow
    <3> HIDE DEF e, n
    <3>3. e.pid \notin Log!Recorded
      BY <1>2, <3>2 DEF Log!Recorded, IInv, TableInv
    <3>4. ASSUME NEW p \in Predictions PROVE RecordedExit(p)' = RecordedExit(p)
      <4>1. CASE p = e.pid
        <5>1. RecordedExit(p) = NoExit
          BY <4>1, <3>2 DEF RecordedExit, Pids
        <5>2. \A q \in rows' : q.pid = p => q = n
          BY <4>1, <3>2 DEF Pids
        <5>3. (CHOOSE q \in rows' : q.pid = p) = n
          BY <5>2, <4>1, <3>2
        <5>4. QED
          BY <5>1, <5>3, <4>1, <3>2 DEF RecordedExit
      <4>2. CASE p # e.pid
        <5>1. \A q : q \in rows' /\ q.pid = p <=> q \in rows /\ q.pid = p
          BY <4>2, <3>2
        <5>2. (CHOOSE q \in rows' : q.pid = p) = (CHOOSE q \in rows : q.pid = p)
          BY <5>1
        <5>3. QED
          BY <5>1, <5>2 DEF RecordedExit
      <4>3. QED
        BY <4>1, <4>2
    <3>5. exits' = exits
      BY <3>4
    <3>6. Log!Record(e)
      BY <3>1, <3>3, <3>5 DEF Log!Record
    <3>7. QED
      BY <3>1, <3>6 DEF Log!Next, Log!Position
  <2>2. ASSUME NEW p \in Predictions, NEW reason \in Reasons, ClosePaperTrade(p, reason)
        PROVE  Log!Next
    <3>1. PICK r \in rows : /\ r.pid = p /\ r.exit = NoExit
                           /\ rows' = (rows \ {r}) \cup {[r EXCEPT !.exit = reason]}
                           /\ [r EXCEPT !.exit = reason] \in Row
                           /\ HeadHash' = HeadHash /\ Prevs' = Prevs /\ Pids' = Pids
      BY <1>2, <2>2, CloseFacts
    <3> DEFINE n == [r EXCEPT !.exit = reason]
    <3>2. n.pid = p /\ n.exit = reason /\ rows' = (rows \ {r}) \cup {n}
      BY <1>2, <3>1 DEF IInv, TypeOK, Row
    <3> HIDE DEF n
    <3>3. RecordedExit(p) = NoExit
      BY <1>2, <3>1, ExitOfRow
    <3>4. RecordedExit(p)' = reason
      <4>1. \A q \in rows' : q.pid = p => q = n
        BY <1>2, <3>1, <3>2 DEF IInv, TableInv
      <4>2. (CHOOSE q \in rows' : q.pid = p) = n
        BY <4>1, <3>2
      <4>3. QED
        BY <4>2, <3>2 DEF RecordedExit
    <3>5. ASSUME NEW o \in Predictions, o # p PROVE RecordedExit(o)' = RecordedExit(o)
      <4>1. \A q : q \in rows' /\ q.pid = o <=> q \in rows /\ q.pid = o
        BY <3>1, <3>2, <3>5
      <4>2. (CHOOSE q \in rows' : q.pid = o) = (CHOOSE q \in rows : q.pid = o)
        BY <4>1
      <4>3. QED
        BY <4>1, <4>2 DEF RecordedExit
    <3>6. exits' = [exits EXCEPT ![p] = reason]
      BY <3>4, <3>5
    <3>7. p \in Log!Recorded
      BY <1>2, <3>1 DEF Log!Recorded, IInv, TableInv, Pids
    <3>8. Log!Settle(p, reason)
      BY <3>1, <3>3, <3>6, <3>7 DEF Log!Settle
    <3>9. QED
      BY <3>8 DEF Log!Next
  <2>3. ASSUME rows' = rows PROVE UNCHANGED Log!vars
    BY <2>3 DEF Log!vars, HeadHash, RecordedExit
  <2>4. QED
    BY <1>2, <2>1, <2>2, <2>3 DEF Next, AppendStep, Start, ReadHead, DrawSeq, ChainHeadTrigger,
       Duplicate, PrevHashTaken, Fail, PublishHead, PushHead, PushFails, PushAgain,
       NextDay, Table, vars
<1>3. QED
  BY <1>1, <1>2, Invariance, PTL DEF Spec, ImplementsLog, Log!Spec

=============================================================================
