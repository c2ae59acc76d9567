------------------------------ MODULE WindowRuns ------------------------------
(***************************************************************************)
(* A user-defined window function over one partition (WindowEvaluator of   *)
(* user_defined.py).  The rows arrive in batches; the flags of the         *)
(* evaluator decide which of its three evaluate methods is called, with    *)
(* which ranges, and whether rows are answered before the partition ends.  *)
(* The operators that call it are DataFusion's and marked external.        *)
(***************************************************************************)
EXTENDS Integers, Sequences, FiniteSets

CONSTANTS MaxRows            \* bound: rows of the partition

WindowAssumption == MaxRows \in Nat \ {0}

VARIABLES keys,      \* ORDER BY values of all the rows, in order
          evaluator, \* what its flag methods return; ahead: does it read the next row too?
          arrived,   \* rows received
          ended,     \* is the partition complete?
          answered,  \* one range per row answered, <<start, end>> from 0
          method,    \* the evaluate methods called
          ranks,     \* the argument of evaluate_all_with_rank
          memoized   \* rows answered at the last memoize
vars == <<keys, evaluator, arrived, ended, answered, method, ranks, memoized>>

Rows == Len(keys)
SortedKeys == {s \in UNION {[1 .. n -> 1 .. 2] : n \in 1 .. MaxRows} :
                   \A i \in 1 .. Len(s) - 1 : s[i] <= s[i + 1]}
Evaluators == [uses_window_frame : BOOLEAN, supports_bounded_execution : BOOLEAN,
               include_rank : BOOLEAN, ahead : BOOLEAN]

TypeOK ==
    /\ keys \in SortedKeys /\ evaluator \in Evaluators
    /\ arrived \in 0 .. Rows /\ ended \in BOOLEAN /\ Len(answered) <= arrived
    /\ method \subseteq {"evaluate", "evaluate_all", "evaluate_all_with_rank"}
    /\ memoized \in 0 .. Len(answered)

Init ==
    /\ keys \in SortedKeys /\ evaluator \in Evaluators
    /\ arrived = 0 /\ ended = FALSE /\ answered = <<>> /\ method = {} /\ ranks = {}
    /\ memoized = 0
-----------------------------------------------------------------------------
(* The evaluator.  get_range by default is the current row; an evaluator   *)
(* that overrides it here reads one row ahead, as far as there are rows.   *)
GetRange(idx, num_rows) ==
    <<idx, IF evaluator.ahead /\ idx + 2 <= num_rows THEN idx + 2 ELSE idx + 1>>
\* Mutant: causal unless an evaluator says otherwise.
CausalByDefault == TRUE
IsCausal == FALSE
\* The frame of the query, UNBOUNDED PRECEDING to CURRENT ROW.
FrameRange(idx) == <<0, idx + 1>>
RangeOf(idx, num_rows) == IF evaluator.uses_window_frame THEN FrameRange(idx)
                          ELSE GetRange(idx, num_rows)
\* The peers of the order, as half-open ranges from 0.
PeerRanges == LET starts == {i \in 1 .. Rows : i = 1 \/ keys[i - 1] # keys[i]}
                  Last(i) == CHOOSE j \in i .. Rows :
                                 keys[j] = keys[i] /\ (j = Rows \/ keys[j + 1] # keys[i])
              IN  {<<i - 1, Last(i)>> : i \in starts}

Bounded == evaluator.supports_bounded_execution

\* A batch of k rows, or the end of the partition, reaches the operator.
Arrive(k) ==
    /\ ~ended /\ arrived + k <= Rows /\ arrived' = arrived + k
    /\ UNCHANGED <<keys, evaluator, ended, answered, method, ranks, memoized>>
End ==
    /\ ~ended /\ arrived = Rows /\ ended' = TRUE
    /\ UNCHANGED <<keys, evaluator, arrived, answered, method, ranks, memoized>>

\* Bounded execution: the next row is answered unless its range reaches the
\* last row received and more may come.
Causal == IF evaluator.uses_window_frame THEN TRUE ELSE IsCausal
AnswerRow(idx) ==
    /\ answered' = Append(answered, RangeOf(idx, arrived))
    /\ method' = method \cup {"evaluate"}
    /\ UNCHANGED <<keys, evaluator, arrived, ended, ranks, memoized>>
RowDue ==
    LET idx == Len(answered) IN
    /\ Bounded /\ idx < arrived
    /\ RangeOf(idx, arrived)[2] < arrived \/ Causal \/ ended
Evaluate == RowDue /\ AnswerRow(Len(answered))
Memoize ==
    /\ Bounded /\ memoized < Len(answered) /\ memoized' = Len(answered)
    /\ UNCHANGED <<keys, evaluator, arrived, ended, answered, method, ranks>>

\* Otherwise the whole partition is answered at its end, row by row in its frame,
PartitionDue == ~Bounded /\ ended /\ answered = <<>>
FramesDue == PartitionDue /\ evaluator.uses_window_frame
EvaluateFrames ==
    /\ FramesDue
    /\ answered' = [i \in 1 .. Rows |-> FrameRange(i - 1)]
    /\ method' = method \cup {"evaluate"}
    /\ UNCHANGED <<keys, evaluator, arrived, ended, ranks, memoized>>
\* or in one pass,
AllDue == PartitionDue /\ ~evaluator.uses_window_frame /\ ~evaluator.include_rank
EvaluateAll ==
    /\ AllDue
    /\ answered' = [i \in 1 .. Rows |-> RangeOf(i - 1, Rows)]
    /\ method' = method \cup {"evaluate_all"}
    /\ UNCHANGED <<keys, evaluator, arrived, ended, ranks, memoized>>
\* or from the ranks alone: each row gets the range of its peers.
RanksInPartition == PeerRanges
RanksDue == PartitionDue /\ ~evaluator.uses_window_frame /\ evaluator.include_rank
EvaluateAllWithRank ==
    /\ RanksDue
    /\ ranks' = RanksInPartition
    /\ answered' = [i \in 1 .. Rows |->
                       CHOOSE r \in PeerRanges : r[1] <= i - 1 /\ i - 1 < r[2]]
    /\ method' = method \cup {"evaluate_all_with_rank"}
    /\ UNCHANGED <<keys, evaluator, arrived, ended, memoized>>

Next == \/ \E k \in 1 .. MaxRows : Arrive(k)
        \/ End \/ Evaluate \/ Memoize \/ EvaluateFrames \/ EvaluateAll \/ EvaluateAllWithRank
Spec == Init /\ [][Next]_vars
-----------------------------------------------------------------------------
(* Properties.                                                             *)
\* A row answered before the partition is complete is answered over the range
\* it has in the whole partition: the result does not depend on how the rows
\* were cut into batches (evaluate of an evaluator that reads ahead waits).
BatchesDoNotShow ==
    Bounded => \A i \in DOMAIN answered : answered[i] = RangeOf(i - 1, Rows)

\* The ranges given to evaluate_all_with_rank, read as Python ranges, hold every
\* row of the partition exactly once.
RanksPartitionRows ==
    ranks # {} => \A i \in 0 .. Rows - 1 :
                        Cardinality({r \in ranks : r[1] <= i /\ i < r[2]}) = 1

\* The table of WindowEvaluator names the method to implement, apart from the row
\* with rank and bounded execution both set: no other method is called.
ToImplement ==
    IF evaluator.uses_window_frame THEN "evaluate"
    ELSE IF evaluator.include_rank THEN "evaluate_all_with_rank"
    ELSE IF evaluator.supports_bounded_execution THEN "evaluate"
    ELSE "evaluate_all"
CallsTheTabledMethod ==
    ~(~evaluator.uses_window_frame /\ evaluator.include_rank /\ Bounded)
        => method \subseteq {ToImplement}

\* Nothing is held back for good: when the partition is complete and no method is
\* left to call, every row is answered.
AllAnswered ==
    ended /\ ~(RowDue \/ FramesDue \/ AllDue \/ RanksDue) => Len(answered) = Rows
=============================================================================
