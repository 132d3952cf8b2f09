---------------------------- MODULE CouncilDebate ----------------------------
(***************************************************************************)
(* One analysis of the advisory council: the personas are asked at once,   *)
(* each by a thread, under one time limit; if they are split and the       *)
(* debate is on, all are asked once more; the chairman tells the story and *)
(* the votes decide.  A call may answer, raise, or be late; what a late    *)
(* one says is read by nobody.                                             *)
(***************************************************************************)
EXTENDS Integers, FiniteSets

CONSTANTS None,
          Council,        \* the personas, as many as max_personas lets in
          Opinions,       \* instance: votes, records of recommendation and confidence
          Weightings      \* instance: weights of the personas, or None

Recommendations == <<"BUY", "SELL", "HOLD">>
Recs == {"BUY", "SELL", "HOLD"}

(* Weights are half a unit plus the hit rate, never 0 (persona_weight);    *)
(* confidences are natural numbers.                                        *)

VARIABLES weights, debate_mode,  \* chosen at the start
          phase,                 \* "round1", "round2", "chairman", "over"
          calls,                 \* of the round: their status and vote
          first_round,           \* votes of round 1, None of a persona without one
          opinions,              \* votes the verdict is made of
          council_verdict,       \* None or the verdict
          asked                  \* history: requests paid

vars == <<weights, debate_mode, phase, calls, first_round, opinions,
          council_verdict, asked>>

Votes == [Council -> Opinions \cup {None}]
NoVotes == [p \in Council |-> None]
Heard(votes) == {p \in Council : votes[p] # None}

Statuses == {"running", "answered", "raised", "late"}
AllCalled == [p \in Council |-> [status |-> "running", vote |-> None]]

Init ==
    /\ weights \in Weightings /\ debate_mode \in BOOLEAN
    /\ phase = "round1" /\ calls = AllCalled
    /\ first_round = NoVotes /\ opinions = NoVotes
    /\ council_verdict = None /\ asked = Cardinality(Council)

-----------------------------------------------------------------------------
InRound == phase \in {"round1", "round2"}

(* _call_investor and _call_revision: an answer, or an error (None).       *)
CallEnds(p, answer) ==
    /\ InRound /\ calls[p].status = "running"
    /\ calls' = [calls EXCEPT ![p] =
          [status |-> IF answer = None THEN "raised" ELSE "answered",
           vote |-> answer]]
    /\ UNCHANGED <<weights, debate_mode, phase, first_round, opinions,
                   council_verdict, asked>>

Running == {p \in Council : calls[p].status = "running"}

TotalTimeout ==
    /\ InRound /\ Running # {}
    /\ calls' = [p \in Council |->
          IF p \in Running THEN [calls[p] EXCEPT !.status = "late"] ELSE calls[p]]
    /\ UNCHANGED <<weights, debate_mode, phase, first_round, opinions,
                   council_verdict, asked>>

(* Every call of the round has ended or is given up.                       *)
RoundOver == InRound /\ Running = {}

(* A revision that raised keeps the vote of round 1, one that is late does *)
(* not.                                                                    *)
RoundVotes ==
    [p \in Council |-> IF phase = "round2" /\ calls[p].status = "raised"
                       THEN first_round[p] ELSE calls[p].vote]

is_split(votes) ==
    {"BUY", "SELL"} \subseteq {votes[p].recommendation : p \in Heard(votes)}

CouncilUnavailable ==
    /\ RoundOver /\ phase = "round1" /\ RoundVotes = NoVotes
    /\ phase' = "over"
    /\ UNCHANGED <<weights, debate_mode, calls, first_round, opinions,
                   council_verdict, asked>>

(* All personas are asked again, also those without a vote in round 1.     *)
StartRevision ==
    /\ RoundOver /\ phase = "round1" /\ debate_mode /\ is_split(RoundVotes)
    /\ phase' = "round2"
    /\ first_round' = RoundVotes
    /\ calls' = AllCalled
    /\ asked' = asked + Cardinality(Council)
    /\ UNCHANGED <<weights, debate_mode, opinions, council_verdict>>

(* The votes that count: of the only round, or of the revision unless it   *)
(* left none.                                                              *)
CloseVote ==
    /\ RoundOver /\ (RoundVotes # NoVotes \/ phase = "round2")
    /\ ~(phase = "round1" /\ debate_mode /\ is_split(RoundVotes))
    /\ opinions' = IF RoundVotes # NoVotes THEN RoundVotes ELSE first_round
    /\ phase' = "chairman"
    /\ asked' = asked + 1
    /\ UNCHANGED <<weights, debate_mode, calls, first_round, council_verdict>>

weight(p) == IF weights = None THEN 1 ELSE weights[p]

(* Twice the mass of a recommendation, unit by unit; heads when nobody is  *)
(* confident.                                                              *)
Units(personas) ==
    UNION {{p} \X (1 .. opinions[p].confidence * weight(p)) : p \in personas}

Mass(rec) ==
    LET of == {p \in Heard(opinions) : opinions[p].recommendation = rec}
    IN  IF \A p \in Heard(opinions) : opinions[p].confidence = 0
        THEN Cardinality(of)
        ELSE Cardinality(Units(of))

(* The greatest mass, the first of the list among equals.                  *)
derive_consensus ==
    CHOOSE i \in 1 .. 3 :
        /\ \A j \in 1 .. 3 : Mass(Recommendations[i]) >= Mass(Recommendations[j])
        /\ \A j \in 1 .. i - 1 : Mass(Recommendations[i]) > Mass(Recommendations[j])

(* The chairman answers or raises: the votes decide in both cases.         *)
Conclude ==
    /\ phase = "chairman"
    /\ council_verdict' =
          [final |-> Recommendations[derive_consensus],
           mass |-> Mass(Recommendations[derive_consensus]),
           total |-> Mass("BUY") + Mass("SELL") + Mass("HOLD"),
           failed_personas |-> Cardinality(Council) - Cardinality(Heard(opinions))]
    /\ phase' = "over"
    /\ UNCHANGED <<weights, debate_mode, calls, first_round, opinions, asked>>

(* The chairman's answer has views that are not a list: analyze raises and *)
(* the node goes on without a verdict.                                     *)
MalformedStory ==
    /\ phase = "chairman"
    /\ phase' = "over"
    /\ UNCHANGED <<weights, debate_mode, calls, first_round, opinions,
                   council_verdict, asked>>

Next ==
    \/ \E p \in Council : \E answer \in Opinions \cup {None} : CallEnds(p, answer)
    \/ TotalTimeout
    \/ CouncilUnavailable
    \/ StartRevision
    \/ CloseVote
    \/ Conclude
    \/ MalformedStory
    \/ /\ phase = "over"
       /\ UNCHANGED vars

Spec == Init /\ [][Next]_vars

-----------------------------------------------------------------------------
TypeOK ==
    /\ phase \in {"round1", "round2", "chairman", "over"}
    /\ calls \in [Council -> [status : Statuses, vote : Opinions \cup {None}]]
    /\ first_round \in Votes /\ opinions \in Votes

(* NIEZ-09 and the comment of analyze: the verdict is one of the votes     *)
(* given, in the last round that left any, and nobody's silence counts as  *)
(* a vote; an error in the revision keeps the vote of round 1; a council   *)
(* that agrees stays so whatever becomes of the chairman; nobody is asked  *)
(* more often than the envelope of the cost says.                          *)
VerdictOfRealVotes ==
    /\ asked <= Cardinality(Council) * (IF debate_mode THEN 2 ELSE 1) + 1
    /\ council_verdict # None =>
          LET said == {opinions[p].recommendation : p \in Heard(opinions)}
          IN  /\ council_verdict.final \in said
              /\ council_verdict.total > 0
              /\ Cardinality(said) = 1 => council_verdict.mass = council_verdict.total
              /\ council_verdict.failed_personas < Cardinality(Council)
              /\ \A p \in Heard(first_round) :
                    calls[p].status = "raised" => opinions[p] = first_round[p]
              /\ \A p \in Heard(opinions) :
                    \/ opinions[p] = calls[p].vote
                    \/ /\ opinions[p] = first_round[p]
                       /\ \/ calls[p].status = "raised"
                          \/ \A q \in Council : calls[q].status # "answered"

(* The inductive invariant.  A call has a vote exactly if it answered; the *)
(* revision is asked only of a council that has voted, and what the        *)
(* chairman is told is a vote of the round or of the one before.           *)
CallOK(call) ==
    IF call.status = "answered" THEN call.vote \in Opinions ELSE call.vote = None

PhaseOK ==
    CASE phase = "round1" -> first_round = NoVotes /\ asked = Cardinality(Council)
      [] phase = "round2" -> /\ debate_mode /\ Heard(first_round) # {}
                             /\ asked = Cardinality(Council) * 2
      [] OTHER -> asked <= Cardinality(Council) * (IF debate_mode THEN 2 ELSE 1) + 1

Kept == \A p \in Heard(first_round) : calls[p].status = "raised" => opinions[p] = first_round[p]

Given ==
    \A p \in Heard(opinions) :
       \/ opinions[p] = calls[p].vote
       \/ /\ opinions[p] = first_round[p]
          /\ calls[p].status = "raised" \/ \A q \in Council : calls[q].status # "answered"

VoteOK == phase = "chairman" => Heard(opinions) # {} /\ Kept /\ Given

IInv ==
    /\ TypeOK /\ weights \in Weightings /\ debate_mode \in BOOLEAN
    /\ \A p \in Council : CallOK(calls[p])
    /\ PhaseOK /\ VoteOK
    /\ phase # "over" => council_verdict = None
    /\ VerdictOfRealVotes
=============================================================================
