------------------------------- MODULE MCPeer -------------------------------
(* Model-checking instances of Peer.                                       *)
EXTENDS Peer

CONSTANTS c1, c2, n1, n2, none

TwoCalls == {c1, c2}
TwoNotices == {n1, n2}
CallAndNotice == {c1, n1}
OneCall == {c2}
=============================================================================
