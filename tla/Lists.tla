------------------------------- MODULE Lists -------------------------------
(***************************************************************************)
(* Lists as the queries of db.rs and the pages of console.rs select and    *)
(* cut them.                                                               *)
(***************************************************************************)
EXTENDS SequencesExt

\* take(n), slice(0, n) and LIMIT n; slice(-n).
FirstOf(list, n) == SubSeq(list, 1, Min({n, Len(list)}))
LastOf(list, n)  == SubSeq(list, Max({1, Len(list) - n + 1}), Len(list))

\* The n pieces one after the other.
Joined(n, pieces) ==
    LET upTo[i \in 0..n] == IF i = 0 THEN <<>> ELSE upTo[i - 1] \o pieces[i]
    IN  upTo[n]

\* filter: the elements of list that pass Test.  It is SelectSeq, of which the provers
\* know nothing.
Where(list, Test(_)) ==
    Joined(Len(list), [i \in DOMAIN list |-> IF Test(list[i]) THEN <<list[i]>> ELSE <<>>])

\* SELECT Value(id) WHERE Test(id) ORDER BY id DESC, of a table with the ids 1 to n.
Newest(n, Test(_), Value(_)) ==
    Joined(n, [i \in 1..n |-> IF Test(n + 1 - i) THEN <<Value(n + 1 - i)>> ELSE <<>>])
============================================================================
