------------------------------ MODULE MCTable -------------------------------
EXTENDS Table, TLC

CONSTANTS k1, k2, k3, k4

\* In a four-slot table three keys start at the last slot, so that probe sequences
\* wrap around into the fourth key's; in an eight-slot table two still collide.
MCHash == (k1 :> 7) @@ (k2 :> 3) @@ (k3 :> 8) @@ (k4 :> 15)

\* One key is given both values, the others one.
MCInputs == {k1, k2, k3, k4} \X {True} \cup {<<k2, Nil>>}

\* A table of two methods.
MCBatches == {<< <<k1, True>>, <<k2, True>> >>}
=============================================================================
