--------------------------- MODULE MCSessionLock ---------------------------
EXTENDS SessionLock

CONSTANTS o1, o2

TwoOutputs == {o1, o2}

NoFaults == {}
ClientFaults == {"client"}
LeaveFaults == {"leave"}
MirrorFaults == {"mirror"}
=============================================================================
