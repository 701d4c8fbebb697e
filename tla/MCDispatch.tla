----------------------------- MODULE MCDispatch -----------------------------
EXTENDS Dispatch

\* Ranges of no, one, two and three units of two pages, the last one short.
MCRequests == {[root |-> 3, total |-> 3], [root |-> 0, total |-> 2],
               [root |-> 1, total |-> 4], [root |-> 0, total |-> 5]}
=============================================================================
