--------------------------- MODULE MCTunnelStream ---------------------------
(* Instances of TunnelStream: pieces of one or two units against a window  *)
(* of four, so that pieces do not line up with the window.                 *)
EXTENDS TunnelStream

TwoReqs == 1 .. 2
AllKinds == {"get", "post", "emptyPost", "hugePost"}
GetOnly == {"get"}
LongBody == {<<1, 2, 2>>}

ASSUME PiecesFitAssumption == PiecesFit

=============================================================================
