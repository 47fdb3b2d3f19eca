-------------------------- MODULE MCActionDelivery --------------------------
(* Instances of ActionDelivery for TLC: dismiss and action are retried,     *)
(* reply is sent once.                                                      *)
EXTENDS ActionDelivery

CONSTANTS dismiss, action, reply

Retried == {dismiss}
RetriedAndOnce == {dismiss, reply}
TwoRetried == {dismiss, action}
Once == {reply}
NoneOnce == {}

Disturbances == {"notice", "resend", "repeat", "throw", "crash", "revoke"}
Notices == {"notice"}
Losses == {"drop"}
=============================================================================
