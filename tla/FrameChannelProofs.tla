------------------------- MODULE FrameChannelProofs -------------------------
(***************************************************************************)
(* What a stream of frames that behaves like FrameChannel looks like to    *)
(* whoever is at its end.                                                  *)
(***************************************************************************)
EXTENDS FrameChannel, TLAPS

(* Every step keeps the invariant.                                         *)
LEMMA ChannelStep ==
    ASSUME ChannelInv, [Next]_channel
    PROVE  ChannelInv'
<1> USE DEF ChannelInv, InOrder
<1>1. CASE Accept
    BY <1>1 DEF Accept
<1>2. ASSUME NEW f \in pending, Deliver(f) PROVE ChannelInv'
    <2>1. f \in Nat /\ f \in 1 .. accepted
        OBVIOUS
    <2>2. /\ out' \in Seq(Nat) /\ DOMAIN out' = 1 .. Len(out) + 1 /\ DOMAIN out = 1 .. Len(out)
          /\ Len(out) \in Nat
          /\ \A i \in DOMAIN out : out'[i] = out[i]
          /\ out'[Len(out) + 1] = f
        BY <1>2, <2>1 DEF Deliver
    <2>3. \A i \in DOMAIN out' : i \in DOMAIN out \/ i = Len(out) + 1
        BY <2>2
    <2>4. \A i \in DOMAIN out' : out'[i] \in 1 .. accepted
        BY <2>1, <2>2, <2>3
    <2>5. \A i, j \in DOMAIN out' : i < j => out'[i] < out'[j]
        <3> SUFFICES ASSUME NEW i \in DOMAIN out', NEW j \in DOMAIN out', i < j
                     PROVE  out'[i] < out'[j]
            OBVIOUS
        <3>1. i \in DOMAIN out
            BY <2>2, <2>3
        <3>2. CASE j \in DOMAIN out
            BY <2>2, <3>1, <3>2
        <3>3. CASE j = Len(out) + 1
            BY <2>2, <3>1, <3>3
        <3> QED
            BY <2>3, <3>2, <3>3
    <2>6. \A i \in DOMAIN out', g \in pending' : out'[i] < g
        <3> SUFFICES ASSUME NEW i \in DOMAIN out', NEW g \in pending' PROVE out'[i] < g
            OBVIOUS
        <3>1. g \in pending /\ g # f /\ f <= g /\ g \in Nat
            BY <1>2 DEF Deliver
        <3> QED
            BY <2>1, <2>2, <2>3, <3>1
    <2> QED
        BY <1>2, <2>2, <2>4, <2>5, <2>6 DEF Deliver
<1>3. ASSUME NEW f \in pending, Lose(f) PROVE ChannelInv'
    BY <1>3 DEF Lose
<1>4. CASE UNCHANGED channel
    BY <1>4 DEF channel
<1> QED
    BY <1>1, <1>2, <1>3, <1>4 DEF Next

(* Whatever implements the channel (sendAsync to HdmiCecTx, the receive    *)
(* callback to the listeners) puts out only accepted frames, none twice    *)
(* and none after a younger one.                                           *)
THEOREM ChannelIsOrdered == Spec => []InOrder
<1>1. Init => ChannelInv
    BY DEF Init, ChannelInv, InOrder
<1>2. ChannelInv /\ [Next]_channel => ChannelInv'
    BY ChannelStep
<1>3. ChannelInv => InOrder
    BY DEF ChannelInv
<1> QED
    BY <1>1, <1>2, <1>3, PTL DEF Spec
=============================================================================
