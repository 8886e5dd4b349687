----------------------------- MODULE MCSession -----------------------------
(***************************************************************************)
(* Instances of Session for TLC.                                           *)
(***************************************************************************)
EXTENDS Session, TLC

CONSTANTS c1, c2

NoRange    == [ranged |-> FALSE, from |-> 0, to |-> -1]
TooLong    == [ranged |-> TRUE,  from |-> 1, to |-> 7]

PlainHeaders == {NoRange}
SomeHeaders  == {NoRange, TooLong}

OneClient  == {c1}
TwoClients == {c1, c2}

NoPrior  == {FALSE}
AnyPrior == BOOLEAN

ClientStarts == {c1}
AnyStarts    == {c1, c2, "prefetch", "watch"}

NoLeftovers   == {}
SomeLeftovers == {Size + 1}
TheLength     == {Size}
SomeLengths   == {Size - 1, Size}

\* Nothing distinguishes the clients but the requests they make.
ClientSymmetry == Permutations({c1, c2})

SizedFraming  == {"length"}
ChunkFraming  == {"chunked"}
CloseFraming  == {"close"}
SoundFramings == {"length", "chunked"}
=============================================================================
