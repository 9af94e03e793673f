----------------------------- MODULE MCChMutex -----------------------------
(* Four threads besides idle, two of one priority, over three mutexes:     *)
(* chains of owners of length three, queues with peers in them.            *)
EXTENDS ChMutex

CONSTANTS idle, low, mid, peer, high, mA, mB, mC

MCThread == {idle, low, mid, peer, high}
MCMutex  == {mA, mB, mC}
MCRank   == (mA :> 1) @@ (mB :> 2) @@ (mC :> 3)
MCPrio   == (idle :> 0) @@ (low :> 1) @@ (mid :> 2) @@ (peer :> 2) @@ (high :> 3)
=============================================================================
