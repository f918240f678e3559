--------------------------- MODULE MCDeviceCommand ---------------------------
(* Two callers of one key, or of two.                                      *)
EXTENDS DeviceCommand, TLC

CONSTANTS c1, c2, p1, p2

MCOneKey == p1 :> c1 @@ p2 :> c1
MCTwoKeys == p1 :> c1 @@ p2 :> c2
=============================================================================
