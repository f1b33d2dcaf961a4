----------------------------- MODULE MCBusSend -----------------------------
(* Two senders; timeouts on both sides of the 250 ms step.                 *)
EXTENDS BusSend

TimeoutValues == {-1, 249, 500}
=============================================================================
