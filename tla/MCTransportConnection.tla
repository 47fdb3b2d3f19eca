----------------------- MODULE MCTransportConnection ------------------------
(* TransportConnection on small instances.                                 *)
EXTENDS TransportConnection
=============================================================================
