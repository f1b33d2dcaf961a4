---------------------------- MODULE FrameChannel ----------------------------
(***************************************************************************)
(* What the library promises about a stream of frames, be it from          *)
(* sendAsync to HdmiCecTx or from the HAL's callback to the listeners.     *)
(* Frames are numbered as they are accepted.  A frame under way comes out  *)
(* at most once, and only if no older one is still under way; it may also  *)
(* be lost (a refusing driver, a full queue, a stop), but for good.        *)
(***************************************************************************)
EXTENDS Naturals, Sequences

VARIABLES accepted,   \* how many frames have been accepted
          pending,    \* the frames that are under way
          out         \* the frames that have come out, in order

channel == <<accepted, pending, out>>

Init == accepted = 0 /\ pending = {} /\ out = <<>>

Accept ==
    /\ accepted' = accepted + 1
    /\ pending' = pending \cup {accepted'}
    /\ UNCHANGED out

Deliver(f) ==
    /\ \A g \in pending : f <= g
    /\ pending' = pending \ {f}
    /\ out' = Append(out, f)
    /\ UNCHANGED accepted

Lose(f) ==
    /\ pending' = pending \ {f}
    /\ UNCHANGED <<accepted, out>>

Next == Accept \/ \E f \in pending : Deliver(f) \/ Lose(f)

Spec == Init /\ [][Next]_channel
-----------------------------------------------------------------------------
(* Properties                                                              *)

(* Nothing comes out that was not accepted, or a second time, or after a   *)
(* younger frame.                                                          *)
InOrder ==
    /\ \A i \in DOMAIN out : out[i] \in 1 .. accepted
    /\ \A i, j \in DOMAIN out : i < j => out[i] < out[j]

(* The inductive invariant behind InOrder.                                 *)
ChannelInv ==
    /\ accepted \in Nat /\ pending \subseteq 1 .. accepted /\ out \in Seq(Nat)
    /\ \A i \in DOMAIN out, f \in pending : out[i] < f
    /\ InOrder
=============================================================================
