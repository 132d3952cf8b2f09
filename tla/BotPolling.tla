------------------------------ MODULE BotPolling ------------------------------
(***************************************************************************)
(* The owner's Telegram bot: a poll every 15 minutes fetches the updates   *)
(* from the saved offset, answers each command and then saves the next     *)
(* offset.  Telegram keeps an update until a poll asks for a later offset  *)
(* or a day has passed.  Polls of the workflow (cron) do not overlap; a    *)
(* run on a developer's machine (local) may go on beside one, and its      *)
(* writes are skipped.                                                     *)
(*                                                                         *)
(* One symbol of the configuration.  The expiry of a mute is not modelled. *)
(* Whether a reply is delivered changes nothing but a count in the log.    *)
(***************************************************************************)
EXTENDS Integers, Sequences, FiniteSets, FiniteSetsExt

CONSTANTS MaxUpdates,   \* bound: updates sent to the bot
          BatchLimit,   \* UPDATES_LIMIT
          None

VARIABLES chat,           \* the updates sent, by update_id
          kept,           \* ids Telegram still keeps
          expired,        \* history: ids it dropped after a day
          update_offset,  \* bot_state
          symbol_mute,    \* symbol_mutes has a row for the symbol
          done,           \* history: last outcome of each id in a cron poll
          poll            \* the run in progress of cron and local

telegram == <<chat, kept, expired>>
botVars == <<telegram, update_offset, symbol_mute, done, poll>>

Polls == {"cron", "local"}
Writes(r) == r = "cron"

(* "read" is any command answered from the database, "unparsable" one on   *)
(* which parse_command raises, "dropped" a message of another chat or one  *)
(* without text.                                                           *)
Updates == {"mute", "unmute", "read", "unparsable", "dropped"}
Ids == 1 .. Len(chat)
Idle == [node |-> "idle", todo |-> {}, next |-> None]

Init ==
    /\ chat = <<>>
    /\ kept = {}
    /\ expired = {}
    /\ update_offset = None
    /\ symbol_mute = FALSE
    /\ done = [i \in 1 .. MaxUpdates |-> None]
    /\ poll = [r \in Polls |-> Idle]

Send(u) ==
    /\ Len(chat) < MaxUpdates
    /\ chat' = Append(chat, u)
    /\ kept' = kept \cup {Len(chat) + 1}
    /\ UNCHANGED <<expired, update_offset, symbol_mute, done, poll>>

ExpireOldest ==
    /\ kept # {}
    /\ kept' = kept \ {Min(kept)}
    /\ expired' = expired \cup {Min(kept)}
    /\ UNCHANGED <<chat, update_offset, symbol_mute, done, poll>>

(* getUpdates: asking from an offset confirms everything before it.        *)
Pending == {i \in kept : update_offset # None => i >= update_offset}
Batch == {i \in Pending : Cardinality({j \in Pending : j < i}) < BatchLimit}

(* fetch_messages: updates of other chats are left out but move the        *)
(* offset; with no update at all nothing is saved.                         *)
Fetch(r) ==
    /\ poll[r] = Idle
    /\ kept' = Pending
    /\ poll' = IF Batch = {} THEN poll
               ELSE [poll EXCEPT ![r] =
                        [node |-> "answer",
                         todo |-> {i \in Batch : chat[i] # "dropped"},
                         next |-> Max(Batch) + 1]]
    /\ UNCHANGED <<chat, expired, update_offset, symbol_mute, done>>

Take(r, i) ==
    /\ poll[r].node = "answer" /\ poll[r].todo # {}
    /\ i = Min(poll[r].todo)
    /\ poll' = [poll EXCEPT ![r].todo = @ \ {i}]

Outcome(r, i, outcome) ==
    done' = IF Writes(r) THEN [done EXCEPT ![i] = outcome] ELSE done

Answer(r, i) ==
    /\ Take(r, i)
    /\ chat[i] # "unparsable"
    /\ symbol_mute' = IF Writes(r) /\ chat[i] \in {"mute", "unmute"}
                      THEN chat[i] = "mute" ELSE symbol_mute
    /\ Outcome(r, i, "applied")
    /\ UNCHANGED <<telegram, update_offset>>

(* _safe_answer: a port fails, with its write done or not; the next        *)
(* command is answered all the same.                                       *)
AnswerFails(r, i) ==
    /\ Take(r, i)
    /\ chat[i] # "unparsable"
    /\ symbol_mute' \in {symbol_mute} \cup
          (IF Writes(r) /\ chat[i] \in {"mute", "unmute"} THEN {chat[i] = "mute"} ELSE {})
    /\ Outcome(r, i, "failed")
    /\ UNCHANGED <<telegram, update_offset>>

SaveOffset(r) ==
    /\ poll[r].node = "answer" /\ poll[r].todo = {}
    /\ update_offset' = IF Writes(r) THEN poll[r].next ELSE update_offset
    /\ poll' = [poll EXCEPT ![r] = Idle]
    /\ UNCHANGED <<telegram, symbol_mute, done>>

(* The offset cannot be saved, the job runs into its timeout, or a command *)
(* raises what is not a PortError: the batch comes again.                  *)
Dies(r) ==
    /\ poll[r] # Idle
    /\ poll' = [poll EXCEPT ![r] = Idle]
    /\ UNCHANGED <<telegram, update_offset, symbol_mute, done>>

Next ==
    \/ \E u \in Updates : Send(u)
    \/ ExpireOldest
    \/ \E r \in Polls :
          \/ Fetch(r) \/ SaveOffset(r) \/ Dies(r)
          \/ \E i \in Ids : Answer(r, i) \/ AnswerFails(r, i)

Spec == Init /\ [][Next]_botVars

-----------------------------------------------------------------------------
(* The variables hold what the code's values stand for.                    *)
TypeOK ==
    /\ chat \in Seq(Updates) /\ Len(chat) <= MaxUpdates
    /\ kept \subseteq Ids /\ expired \subseteq Ids
    /\ update_offset \in {None} \cup 2 .. MaxUpdates + 1
    /\ symbol_mute \in BOOLEAN
    /\ done \in [1 .. MaxUpdates -> {None, "applied", "failed"}]
    /\ \A r \in Polls : poll[r].node = "idle" \/ poll[r].next \in 2 .. MaxUpdates + 1

Passed == {i \in Ids : update_offset # None /\ i < update_offset}
Commands == {i \in Ids : chat[i] # "dropped"}
Changes == {i \in Ids : done[i] # None /\ chat[i] \in {"mute", "unmute"}}

PassedIsDone ==
    /\ \A i \in (Passed \cap Commands) \ expired : done[i] # None
    /\ Ids \ kept \subseteq Passed \cup expired

(* No command of the owner is lost to a run that died, to a local run or   *)
(* to a full batch: what the offset has passed, and what Telegram forgot   *)
(* for it, was carried out in a poll whose writes count, unless it had     *)
(* expired before.  And commands take effect in their order, however often *)
(* they are repeated: once the last change that was answered is passed,    *)
(* and had not expired by then, what it says holds.                        *)
NoCommandLost ==
    /\ PassedIsDone
    /\ Changes # {} /\ poll["cron"] = Idle =>
          LET last == Max(Changes)
          IN  last \in Passed \ expired /\ done[last] = "applied"
                 => symbol_mute = (chat[last] = "mute")
(* The inductive invariant: the offset never passes an update not sent,    *)
(* and the poll whose writes count holds everything it will pass that is   *)
(* not carried out yet, in the order of the updates; a change it has       *)
(* carried out as the last one of all is in force.                         *)
Batched(i) == i \in Ids /\ i < poll["cron"].next /\ i \notin Passed \cup expired

OffsetOK ==
    /\ update_offset # None => update_offset <= Len(chat) + 1
    /\ \A i \in 1 .. MaxUpdates : done[i] # None => i \in Ids
    /\ \A r \in Polls : poll[r].node = "answer" => poll[r].todo \subseteq Commands

CronOK ==
    poll["cron"] # Idle =>
       LET todo == poll["cron"].todo
       IN  /\ poll["cron"].next <= Len(chat) + 1
           /\ \A i \in todo : i < poll["cron"].next
           /\ update_offset # None =>
                 update_offset < poll["cron"].next /\ \A i \in todo : update_offset <= i
           /\ \A i \in Commands : Batched(i) => i \in todo \/ done[i] # None
           /\ \A i \in todo, j \in Commands : i < j /\ Batched(j) => j \in todo

InForce(i) == symbol_mute = (chat[i] = "mute")

ChangesOK ==
    \A i \in Changes :
       /\ \A j \in Changes : j <= i
       /\ done[i] = "applied" /\ i \notin expired
       /\ IF poll["cron"] = Idle THEN i \in Passed
                                 ELSE i < poll["cron"].next /\ i \notin poll["cron"].todo
       => InForce(i)

Running == [node : {"answer"}, todo : SUBSET Ids, next : 2 .. MaxUpdates + 1]
PollOK == poll \in [Polls -> Running \cup {Idle}]

IInv == TypeOK /\ PollOK /\ OffsetOK /\ CronOK /\ ChangesOK /\ PassedIsDone
===============================================================================
