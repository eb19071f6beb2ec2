-------------------------- MODULE MCSignalingQueue --------------------------
(* SignalingQueue with messages of every length the ring has, for TLC. *)
EXTENDS SignalingQueue

MCMessages == {<<1>>, <<1, 2>>, <<2, 1, 2>>}
=============================================================================
