------------------------------ MODULE MCRunLock ------------------------------
(* Three threads, two retry requests at a time, one dropped connection.     *)
EXTENDS RunLock

CONSTANTS w1, w2, w3, r1, r2

MCThreads  == {w1, w2, w3}
MCRequests == {r1, r2}

=============================================================================
