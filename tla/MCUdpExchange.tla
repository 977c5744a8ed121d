--------------------------- MODULE MCUdpExchange ---------------------------
(***************************************************************************)
(* An instance of UdpExchange: two queries at a time, with fewer ports     *)
(* than attempts, so that a port is given out again while answers to its   *)
(* former owner are on their way.                                          *)
(***************************************************************************)
EXTENDS UdpExchange

CONSTANTS h1, h2
=============================================================================

