------------------------- MODULE MCPredictionCycle -------------------------
(* Small prediction cycles for TLC. *)
EXTENDS PredictionCycle, TLC

(* 100 -> 103 and 103 -> 100 pass a threshold of 2 percent, 101 <-> 103 do *)
(* not, so that two small moves can add up to a large one.                 *)
SmallPrices == {100, 101, 103}
TwoPrices == {100, 103}
OnePrice == {100}

(* Two quotes an hour: 101 stands in for 100 in hour 1.                    *)
Quotes == IF now = 1 THEN {101, 103} ELSE TwoPrices

HourlyQuotes == \A r \in Runs : run'[r].price \in Quotes \cup {None, run[r].price}

SerialSpec == Init /\ [][Next /\ HourlyQuotes]_vars

Symmetry == Permutations(Runs)
=============================================================================
