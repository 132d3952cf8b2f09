---------------------------- MODULE PaperLedger ----------------------------
(***************************************************************************)
(* The append-only paper ledger (WIA-59): table paper_trades of migration  *)
(* 073, the optimistic append of SupabaseRepository.append_paper_trade run *)
(* by the threads of one Fast Loop cycle (symbol_concurrency), the closing *)
(* of positions and the daily publication of the chain head.               *)
(*                                                                         *)
(* A row hash is represented by what it commits to: the sequence of the    *)
(* entries hashed so far.  GENESIS_HASH is <<>> and row_hash(e, prev) is   *)
(* Append(prev, e), which is injective as SHA-256 is assumed to be.        *)
(*                                                                         *)
(* One INSERT is three steps, because Postgres runs it at READ COMMITTED   *)
(* beside the other threads' INSERTs: the identity column draws seq, the   *)
(* BEFORE INSERT trigger compares prev_hash with the head it can see, and  *)
(* the unique indexes decide when the row is inserted.                     *)
(***************************************************************************)
EXTENDS Integers, Sequences, FiniteSets

CONSTANTS Threads,      \* pool threads of a cycle, each appending one trade at a time
          Predictions,  \* ids of prediction_logs rows
          Sides,        \* TradeSide
          Reasons,      \* ExitReason
          NoExit,       \* exit_price IS NULL
          NoEntry,      \* the entry of a thread with no call in progress
          Attempts,     \* _PAPER_LEDGER_APPEND_ATTEMPTS
          MaxSeq,       \* bound on the identity column
          MaxDay        \* bound on the calendar

ASSUME AttemptsAssumption == Attempts \in Nat \ {0}
ASSUME BoundsAssumption == MaxSeq \in Nat /\ MaxDay \in Nat
ASSUME ExitAssumption == NoExit \notin Reasons

VARIABLES rows,     \* committed rows of paper_trades
          nextSeq,  \* next value of the identity column
          thread,   \* per thread: the append it is executing
          day,      \* calendar day of the runs
          staged,   \* head line appended to the checkout, not pushed yet
          kept,     \* lines of failed pushes that are kept as artifacts
          heads     \* lines of paper_ledger_heads.jsonl on attestation-log

vars == <<rows, nextSeq, thread, day, staged, kept, heads>>

GENESIS_HASH == <<>>
Entry == [pid: Predictions, side: Sides]

row_hash(entry, prev) == Append(prev, entry)

(* get_paper_ledger_head: the row with the largest seq. *)
IsLast(r, S) == r \in S /\ \A q \in S : q.seq <= r.seq
LastRow == CHOOSE r \in rows : IsLast(r, rows)
HeadOf(S) == IF S = {} THEN GENESIS_HASH ELSE (CHOOSE r \in S : IsLast(r, S)).hash
HeadHash == HeadOf(rows)

Pids == {r.pid : r \in rows}
Prevs == {r.prev : r \in rows}

(* Where the thread is in append_paper_trade.  A call that ended is "idle",  *)
(* except one that ran out of attempts, kept apart as "gave_up".           *)
Working == {"read", "draw", "trigger", "unique"}
Ended == {"idle", "gave_up"}

CallAt(pc, entry, attempt, base) ==
    [pc |-> pc, entry |-> entry, attempt |-> attempt, head |-> GENESIS_HASH,
     seq |-> 0, base |-> base]

Idle == CallAt("idle", NoEntry, 1, 0)

-----------------------------------------------------------------------------
Init ==
    /\ rows = {}
    /\ nextSeq = 1
    /\ thread = [t \in Threads |-> Idle]
    /\ day = 0
    /\ staged = {}
    /\ kept = {}
    /\ heads = <<>>

Table == <<rows, nextSeq>>
Publication == <<day, staged, kept, heads>>

(* A saved prediction opens a position: append_paper_trade is called.  A   *)
(* re-run of the cycle calls it again for a prediction already recorded,   *)
(* with the side of the overwritten record.                                *)
Start(t) ==
    /\ thread[t].pc \in Ended
    /\ \E e \in Entry :
          thread' = [thread EXCEPT ![t] = CallAt("read", e, 1, 0)]
    /\ UNCHANGED <<Table, Publication>>

(* head = self.get_paper_ledger_head(); row = chain_entry(entry, head).    *)
(* base is a history value: how many rows there were at the first read.    *)
ReadHead(t) ==
    /\ thread[t].pc = "read"
    /\ thread' = [thread EXCEPT ![t].pc = "draw", ![t].head = HeadHash,
                      ![t].base = IF thread[t].attempt = 1 THEN Cardinality(rows) ELSE @]
    /\ UNCHANGED <<Table, Publication>>

(* The INSERT evaluates its defaults: the identity column draws seq, which *)
(* is not given back when the statement fails.                             *)
DrawSeq(t) ==
    /\ thread[t].pc = "draw"
    /\ nextSeq <= MaxSeq
    /\ thread' = [thread EXCEPT ![t].pc = "trigger", ![t].seq = nextSeq]
    /\ nextSeq' = nextSeq + 1
    /\ UNCHANGED <<rows, Publication>>

(* Lost the race for the head (40001 or 23505): the loop continues from a  *)
(* new head, or raises after the last attempt and the trade is only logged *)
(* (_open_paper_trade catches PortError).                                  *)
ConflictKeepsHead(t) == \* mutant: the retry chains to the head read before
    LET w == thread[t]
    IN  thread' = [thread EXCEPT ![t] =
            IF w.attempt < Attempts
            THEN [w EXCEPT !.pc = "draw", !.attempt = w.attempt + 1]
            ELSE CallAt("gave_up", NoEntry, 1, w.base)]

ConflictTriesOnceMore(t) == \* mutant: one attempt too many
    LET w == thread[t]
    IN  thread' = [thread EXCEPT ![t] =
            IF w.attempt <= Attempts
            THEN CallAt("read", w.entry, w.attempt + 1, w.base)
            ELSE CallAt("gave_up", NoEntry, 1, w.base)]

Conflict(t) ==
    LET w == thread[t]
    IN  thread' = [thread EXCEPT ![t] =
            IF w.attempt < Attempts
            THEN CallAt("read", w.entry, w.attempt + 1, w.base)
            ELSE CallAt("gave_up", NoEntry, 1, w.base)]

(* paper_trades_chain_head: prev_hash must be the head the trigger sees. *)
ChainHeadTrigger(t) ==
    /\ thread[t].pc = "trigger"
    /\ IF thread[t].head = HeadHash
       THEN thread' = [thread EXCEPT ![t].pc = "unique"]
       ELSE Conflict(t)
    /\ UNCHANGED <<Table, Publication>>

(* ON CONFLICT (prediction_id) DO NOTHING comes first, then the unique     *)
(* index on prev_hash; the row enters open.                                *)
NewRow(t) ==
    LET w == thread[t]
    IN  [seq |-> w.seq, pid |-> w.entry.pid, side |-> w.entry.side, prev |-> w.head,
         hash |-> row_hash(w.entry, w.head), exit |-> NoExit]

DuplicateOverwrites(t) == \* mutant: upsert without ignore_duplicates
    /\ thread[t].pc = "unique"
    /\ thread[t].entry.pid \in Pids
    /\ rows' = {r \in rows : r.pid # thread[t].entry.pid} \cup {NewRow(t)}
    /\ thread' = [thread EXCEPT ![t] = Idle]
    /\ UNCHANGED <<nextSeq, Publication>>

Duplicate(t) ==
    /\ thread[t].pc = "unique"
    /\ thread[t].entry.pid \in Pids
    /\ thread' = [thread EXCEPT ![t] = Idle]
    /\ UNCHANGED <<Table, Publication>>

PrevHashTaken(t) ==
    /\ thread[t].pc = "unique"
    /\ thread[t].entry.pid \notin Pids
    /\ thread[t].head \in Prevs
    /\ Conflict(t)
    /\ UNCHANGED <<Table, Publication>>

InsertForks(t) == \* mutant: no unique index on prev_hash
    /\ thread[t].pc = "unique"
    /\ thread[t].entry.pid \notin Pids
    /\ rows' = rows \cup {NewRow(t)}
    /\ thread' = [thread EXCEPT ![t] = Idle]
    /\ UNCHANGED <<nextSeq, Publication>>

(* The row commits; whether the reply reaches the thread or the connection *)
(* drops after the commit, the call is over and the trade is in the chain. *)
Insert(t) ==
    /\ thread[t].pc = "unique"
    /\ thread[t].entry.pid \notin Pids
    /\ thread[t].head \notin Prevs
    /\ rows' = rows \cup {NewRow(t)}
    /\ thread' = [thread EXCEPT ![t] = Idle]
    /\ UNCHANGED <<nextSeq, Publication>>

(* Any other error of a request, or the death of the process. *)
Fail(t) ==
    /\ thread[t].pc \in Working
    /\ thread' = [thread EXCEPT ![t] = Idle]
    /\ UNCHANGED <<Table, Publication>>

-----------------------------------------------------------------------------
(* close_paper_trade: UPDATE ... WHERE prediction_id = p AND exit_price IS *)
(* NULL, under the close-only trigger.                                     *)
ClosePaperTrade(p, reason) ==
    /\ \E r \in rows :
          /\ r.pid = p
          /\ r.exit = NoExit
          /\ rows' = (rows \ {r}) \cup {[r EXCEPT !.exit = reason]}
    /\ UNCHANGED <<nextSeq, thread, Publication>>

(* PublishPaperLedgerHeadUseCase: the first run of a day that can read a   *)
(* head appends it to the checkout of attestation-log.  The day of the     *)
(* last line is what the file says last, and a file that cannot be read or *)
(* a last line that cannot be parsed is "never published".  how is a       *)
(* history value: why the line is where it is in the file.                 *)
Line == [day: Nat, seq: Nat, head: Seq(Entry), how: {"first", "unread", "late"}]

LastPublishedOn(readable) ==
    IF heads = <<>> \/ ~readable THEN {} ELSE {heads[Len(heads)].day}

ShouldPublishAgain(last) == \A d \in last : d <= day \* mutant: twice a day
ShouldPublishHead(last) == \A d \in last : d < day

PublishHead ==
    /\ staged = {}
    /\ rows # {}
    /\ \E readable \in BOOLEAN :
          /\ ShouldPublishHead(LastPublishedOn(readable))
          /\ staged' = {[day |-> day, seq |-> LastRow.seq, head |-> HeadHash,
                         how |-> IF readable THEN "first" ELSE "unread"]}
    /\ UNCHANGED <<Table, thread, day, kept, heads>>

(* The publishing job pushes the line behind those the branch has by then. *)
PushHead ==
    /\ staged # {}
    /\ \E line \in staged : heads' = Append(heads, line)
    /\ staged' = {}
    /\ UNCHANGED <<Table, thread, day, kept>>

(* Or it fails, and the next run checks out the branch without the line,   *)
(* which is then only in the artifact of the failed job; or the agent's    *)
(* job was cancelled before the upload and the line is gone.               *)
PushFails ==
    /\ staged # {}
    /\ staged' = {}
    /\ kept' \in {kept, kept \cup staged}
    /\ UNCHANGED <<Table, thread, day, heads>>

(* A failed job is run again while its artifact is kept: it commits on the *)
(* head the agent started from and rebases with merge=union, which takes   *)
(* the lines of the branch first and its own line after them.              *)
PushAgain ==
    /\ \E line \in kept :
          /\ heads' = Append(heads, [line EXCEPT !.how = "late"])
          /\ kept' = kept \ {line}
    /\ UNCHANGED <<Table, thread, day, staged>>

NextDay ==
    /\ day < MaxDay
    /\ day' = day + 1
    /\ UNCHANGED <<Table, thread, staged, kept, heads>>

AppendStep(t) ==
    \/ ReadHead(t)
    \/ DrawSeq(t)
    \/ ChainHeadTrigger(t)
    \/ Duplicate(t)
    \/ PrevHashTaken(t)
    \/ Insert(t)
    \/ Fail(t)

Next ==
    \/ \E t \in Threads : Start(t) \/ AppendStep(t)
    \/ \E p \in Predictions, r \in Reasons : ClosePaperTrade(p, r)
    \/ PublishHead
    \/ PushHead
    \/ PushFails
    \/ PushAgain
    \/ NextDay

Spec == Init /\ [][Next]_vars

-----------------------------------------------------------------------------
Row == [seq: Nat, pid: Predictions, side: Sides, prev: Seq(Entry), hash: Seq(Entry),
        exit: Reasons \cup {NoExit}]

Call == [pc: Working \cup Ended, entry: Entry \cup {NoEntry}, attempt: 1..Attempts,
         head: Seq(Entry), seq: Nat, base: Nat]

TypeOK ==
    /\ rows \subseteq Row
    /\ nextSeq \in Nat
    /\ thread \in [Threads -> Call]
    /\ day \in Nat
    /\ staged \cup kept \subseteq Line
    /\ heads \in Seq(Line)

(* The chain is linear: every row hashes its own entry after the hash of   *)
(* the row with the next smaller seq, and the first one after genesis.  So *)
(* reading paper_trades by seq and running first_broken_row over it finds  *)
(* nothing, whatever the threads raced for (073_paper_trades.sql:14-19).   *)
Before(r) == {q \in rows : q.seq < r.seq}

LinearChain ==
    \A r \in rows :
        /\ r.hash = row_hash([pid |-> r.pid, side |-> r.side], r.prev)
        /\ \/ Before(r) = {} /\ r.prev = GENESIS_HASH
           \/ \E q \in Before(r) :
                  /\ r.prev = q.hash
                  /\ \A o \in Before(r) : o.seq <= q.seq

(* append_paper_trade drops a trade only when the thread was overtaken on  *)
(* every attempt: at least Attempts other rows were committed during its   *)
(* call, so a cycle with fewer competing trades than that records all.     *)
GiveUpMeansOvertaken ==
    \A t \in Threads :
        thread[t].pc = "gave_up" => Cardinality(rows) >= thread[t].base + Attempts

(* A published head anchors all the history before it, in whatever order   *)
(* the lines reach the branch: every line of paper_ledger_heads.jsonl      *)
(* names a row of the table with that hash, is a prefix of the chain there *)
(* is now, and the line of an earlier day is a prefix of every line of a   *)
(* later one.  The file itself is in the order of the days with one line a *)
(* day, except where a failed push was run again (its line stands behind   *)
(* newer ones, and the next run takes its day for the last one published)  *)
(* or the last line could not be read.                                     *)
IsPrefixOf(s, u) == Len(s) <= Len(u) /\ \A i \in DOMAIN s : s[i] = u[i]

NamesRow(line) == \E r \in rows : r.seq = line.seq /\ r.hash = line.head

OneLineADay(i, j) ==
    /\ heads[j].how # "late" => heads[i].day <= heads[j].day
    /\ heads[i].day = heads[j].day =>
          heads[j].how = "unread" \/ \E k \in i..j : heads[k].how = "late"

HeadsAnchorHistory ==
    \A j \in DOMAIN heads :
        /\ NamesRow(heads[j]) /\ IsPrefixOf(heads[j].head, HeadHash)
        /\ \A i \in DOMAIN heads :
              /\ heads[i].day < heads[j].day => IsPrefixOf(heads[i].head, heads[j].head)
              /\ i < j => OneLineADay(i, j)

(* The inductive invariant behind these.  About the table: keys are        *)
(* unique, seq grows along the chain, every hash but the head is some      *)
(* row's prev_hash, and the head hash commits to exactly the rows there    *)
(* are.  About a thread: its head is genesis or the hash of a row, it has  *)
(* been overtaken once per attempt made so far, and if its head is still   *)
(* the current one then its seq is larger than any in the table.  About a  *)
(* line not pushed yet: what holds of the pushed ones, and that no line    *)
(* there is of a later day than the one of the run that still has to push. *)
TableInv ==
    /\ IsFiniteSet(rows)
    /\ rows # {} => (\E r \in rows : IsLast(r, rows)) /\ GENESIS_HASH \in Prevs
    /\ \A r, q \in rows : r.seq = q.seq \/ r.pid = q.pid => r = q
    /\ \A r \in rows :
          /\ r.seq < nextSeq
          /\ IsLast(r, rows) \/ (r.hash \in Prevs /\ Len(r.hash) < Len(HeadHash))
    /\ Len(HeadHash) = Cardinality(rows)
    /\ Pids = {HeadHash[i].pid : i \in DOMAIN HeadHash}

CallOK(w) ==
    /\ w.pc \in Working => w.entry \in Entry
    /\ w.pc = "read" => w.base + w.attempt <= Cardinality(rows) + 1
    /\ w.pc \in Working \ {"read"} =>
          /\ w.head = GENESIS_HASH \/ \E r \in rows : r.hash = w.head
          /\ w.base + w.attempt <= Len(w.head) + 1
    /\ w.pc \in {"trigger", "unique"} =>
          /\ w.seq < nextSeq
          /\ w.head = HeadHash => \A r \in rows : r.seq < w.seq

ThreadInv == \A t \in Threads : CallOK(thread[t])

PublicationInv ==
    /\ \A i \in DOMAIN heads : heads[i].day <= day
    /\ \A line \in staged \cup kept :
          /\ line.day <= day
          /\ NamesRow(line) /\ IsPrefixOf(line.head, HeadHash)
          /\ \A i \in DOMAIN heads :
                /\ heads[i].day < line.day => IsPrefixOf(heads[i].head, line.head)
                /\ line.day < heads[i].day => IsPrefixOf(line.head, heads[i].head)
          /\ \A l \in staged \cup kept : line.day < l.day => IsPrefixOf(line.head, l.head)
    /\ \A line \in staged :
          /\ line.how # "late"
          /\ \A l \in staged \cup kept : l.day <= line.day
          /\ \A i \in DOMAIN heads :
                /\ heads[i].day <= line.day
                /\ heads[i].day = line.day =>
                      line.how = "unread" \/ \E k \in i..Len(heads) : heads[k].how = "late"

IInv ==
    /\ TypeOK
    /\ LinearChain
    /\ GiveUpMeansOvertaken
    /\ HeadsAnchorHistory
    /\ TableInv
    /\ ThreadInv
    /\ PublicationInv

(* The table implements the abstract log: the log is what the head hash    *)
(* commits to, and a position's exit is that of its only row.              *)
RecordedExit(p) ==
    IF \E r \in rows : r.pid = p
    THEN (CHOOSE r \in rows : r.pid = p).exit
    ELSE NoExit

Log == INSTANCE AppendOnlyLog
           WITH log <- HeadHash, exits <- [p \in Predictions |-> RecordedExit(p)]

(* Every step of the threads, the closes and the publication is a step of  *)
(* the append-only log or leaves it alone (domain/paper_ledger.py:1-13).   *)
ImplementsLog == Log!Spec
=============================================================================
