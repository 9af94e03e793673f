--------------------------- MODULE AbstractStream ---------------------------
(***************************************************************************)
(* What an output queue with its transmitter promises its writers: the     *)
(* bytes they put leave once each, in the order they were put, and no more *)
(* than the capacity are on the way.                                       *)
(***************************************************************************)
EXTENDS Sequences, Naturals

CONSTANTS Bytes, Capacity

VARIABLES
    onWay,  \* bytes put and not sent yet
    sent    \* the byte sent last

svars == <<onWay, sent>>

SInit == onWay = <<>> /\ sent \notin Bytes

\* A writer puts several bytes at a time, as many as there is space for.
Put ==
    /\ onWay' \in Seq(Bytes) /\ Len(onWay') \in Len(onWay) + 1 .. Capacity
    /\ SubSeq(onWay', 1, Len(onWay)) = onWay
    /\ UNCHANGED sent

Send == onWay # <<>> /\ sent' = Head(onWay) /\ onWay' = Tail(onWay)

SNext == Put \/ Send

SSpec == SInit /\ [][SNext]_svars
=============================================================================
