--------------------------- MODULE MCMessageCodec ---------------------------
(* Every kind of message with operands at their limits, and every short    *)
(* frame over three operand bytes: one without and one with the extension  *)
(* bit, and latency flags that announce a delay.                           *)
EXTENDS MessageCodec

Addresses == {<<1, 0, 0, 0>>, <<1, 2, 3, 4>>, <<15, 15, 15, 14>>}
Letters(n) == [i \in 1 .. n |-> 65]
Bits(n) == [1 .. n -> {0, 1}]
Msg(op, vals) == {[op |-> op, val |-> v] : v \in vals}
NoFlags(n) == [i \in 1 .. n |-> 0]

RcProfiles == {<<0, p>> : p \in 0 .. 4} \cup {<<1>> \o menus : menus \in Bits(5)}
Features ==
    {<<<<5>>, types, <<0, 2>>, NoFlags(6)>> : types \in Bits(6)}
    \cup {<<<<6>>, NoFlags(6), rc, NoFlags(6)>> : rc \in RcProfiles}
    \cup {<<<<6>>, NoFlags(6), <<0, 0>>, features>> : features \in Bits(6)}
Latencies ==
    {<<a, <<v, f, 255>>>> : a \in Addresses, v \in {0, 251}, f \in {0, 1, 2, 4, 5, 6}}
    \cup {<<a, <<v, 3, d>>>> : a \in Addresses, v \in {0, 251}, d \in {0, 20, 251}}
Formats == {<<0, 1>>, <<1, 63>>, <<3, 0>>}

(* Not among them: an absent address (which has its own run), a text       *)
(* longer than MAX_LEN that still fits a frame, more than four             *)
(* descriptors, and latency flags 7.                                       *)
AppMessages ==
    UNION {Msg(op, {<<>>}) : op \in Bare \cup EncodeOnly \cup {Op.POLLING}}
    \cup UNION {Msg(op, {<<a>> : a \in Addresses}) : op \in OneAddress}
    \cup Msg(Op.ROUTING_CHANGE, {<<a, b>> : a, b \in Addresses})
    \cup Msg(Op.REPORT_PHYSICAL_ADDRESS, {<<a, <<t>>>> : a \in Addresses, t \in 0 .. 7})
    \cup Msg(Op.FEATURE_ABORT, {<<<<o>>, <<r>>>> : o \in {0, 130, 255}, r \in 0 .. 5})
    \cup UNION {Msg(op, {<<<<b>>>> : b \in {0, 1, 5, 109}}) :
                  op \in {Op.CEC_VERSION, Op.REPORT_POWER_STATUS, Op.SET_SYSTEM_AUDIO_MODE,
                          Op.USER_CONTROL_PRESSED}}
    \cup Msg(Op.REPORT_AUDIO_STATUS, {<<<<m, v>>>> : m \in {0, 1}, v \in {0, 80, 127}})
    \cup UNION {Msg(op, {<<<<1, 2, 255>>>>}) : op \in {Op.SET_MENU_LANGUAGE, Op.DEVICE_VENDOR_ID}}
    \cup Msg(Op.SET_OSD_STRING, {<<Letters(n)>> : n \in {1, 13, 127}})
    \cup Msg(Op.SET_OSD_NAME, {<<Letters(n)>> : n \in {1, 14}})
    \cup Msg(Op.REQUEST_SHORT_AUDIO_DESCRIPTOR, UNION {[1 .. n -> Formats] : n \in 0 .. 4})
    \cup Msg(Op.REPORT_SHORT_AUDIO_DESCRIPTOR,
             UNION {[1 .. n -> {<<9, 127, 7>>, <<15, 4, 3>>}] : n \in 0 .. 4})
    \cup Msg(Op.REPORT_FEATURES, Features) \cup Msg(Op.REPORT_CURRENT_LATENCY, Latencies)

(* The values are those the operands' classes are made for.                *)
ASSUME AppMessagesAreRegular == \A m \in AppMessages : Regular(m)

(* The messages that are sent without their address.                       *)
AddressAbsent == UNION {Msg(op, {<<<<15, 15, 15, 15>>>>}) : op \in OptionalAddress}

AppHeaders == {<<4, 0>>, <<4, 15>>, <<15, 5>>}

Opcodes == {Op[o] : o \in DOMAIN Op} \ {Op.POLLING}
OperandBytes(lengths) == UNION {[1 .. n -> {3, 16, 130}] : n \in lengths}
ShortFrames ==
    {<<>>, <<79>>} \cup {<<79, op>> \o bytes : op \in Opcodes \cup {153}, bytes \in OperandBytes(0 .. 4)}
    \cup {<<79, op>> \o bytes : op \in Lists, bytes \in OperandBytes(5 .. 6)}
LongFrames == {<<79, op>> \o Letters(n) : op \in {Op.SET_OSD_STRING, Op.SET_OSD_NAME}, n \in 12 .. 16}
    \cup {<<79, Op.SET_OSD_STRING>> \o Letters(n) : n \in {126, 127}}
AllFrames == ShortFrames \cup LongFrames
NoFrames == {}
=============================================================================
