----------------------------- MODULE MCTraceReads -----------------------------
(* Two traces of two spans; a span has two versions that differ in every     *)
(* column a reader looks at.                                                 *)
EXTENDS TraceReads

MCVersion == {[start |-> 1, duration |-> 2, status |-> "ok", tokens |-> 1, kind |-> 1],
              [start |-> 2, duration |-> 1, status |-> "error", tokens |-> 2, kind |-> 2]}

\* The windows [1, 2] and [2, 2].
MCTime == {Absent, 2}

\* All traces, those that ended well, and those with a span of the second kind.
MCFilter == {[status |-> "", kind |-> Absent], [status |-> "ok", kind |-> Absent],
             [status |-> "", kind |-> 2]}

\* The store alone takes all batches of two spans, under a reader single spans; and
\* under a dashboard, for which one trace is as good as another, those of one trace.
MCLoad      == {b \in Batches : Len(b) = 1}
MCBoardLoad == {b \in MCLoad : b[1].trace = 1}

\* Index takes the nearest rank: the first of n sorted values that so many percent
\* of them do not exceed.
ASSUME NearestRank ==
  \A n \in 1..300, percent \in {50, 95, 99} :
    LET rank == Dash!Index(n, percent) + 1
    IN  rank \in 1..n /\ rank * 100 >= percent * n /\ (rank - 1) * 100 < percent * n
=============================================================================
