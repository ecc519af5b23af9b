--------------------------- MODULE MCMonitorPages ---------------------------
(* MonitorPages; and TLC compares the selections of Lists with SelectSeq. *)
EXTENDS MonitorPages

ASSUME ListsSelect ==
    \A list \in UNION {[1..n -> 1..3] : n \in 0..4}, kept \in SUBSET (1..3) :
        LET Kept(x) == x \in kept
        IN  /\ Where(list, Kept) = SelectSeq(list, Kept)
            /\ Newest(Len(list), LAMBDA i : Kept(list[i]), LAMBDA i : list[i])
                  = SelectSeq(Reverse(list), Kept)
=============================================================================
